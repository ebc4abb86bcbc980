-------------------------- MODULE SvfReaderProofs ---------------------------
(***************************************************************************)
(* Proofs about SvfReader, for any input and any buffer sizes that satisfy *)
(* SizesAssumption: the statics and the buffer keep their types, no        *)
(* iteration of read_command writes behind the buffer, and the commands it *)
(* returns are those that SvfText finds in the text it has read.           *)
(*                                                                         *)
(* A file that starts on statics an earlier source left at work is         *)
(* excluded (CleanHandover): its first byte may be written anywhere.       *)
(*                                                                         *)
(* First, what one character more does to each of SvfText's definitions;   *)
(* then the buffer; then the reader against the text.                      *)
(***************************************************************************)
EXTENDS SvfReader, SequenceTheorems, FiniteSetTheorems, WellFoundedInduction, TLAPS

-----------------------------------------------------------------------------
(* Induction, with a set in place of a predicate.                          *)
LEMMA LeastElement ==
  ASSUME NEW T \in SUBSET Nat, T # {}
  PROVE  \E n \in T : \A m \in T : n <= m
<1> DEFINE R == {ss \in Nat \X Nat : ss[1] < ss[2]}
<1>1. R = OpToRel(<, Nat)
  BY DEF OpToRel
<1>2. IsWellFoundedOn(R, Nat)
  BY <1>1, NatLessThanWellFounded
<1>3. ASSUME NEW n \in Nat, NEW m \in Nat, m < n PROVE <<m, n>> \in R
  <2>1. <<m, n>> \in Nat \X Nat /\ <<m, n>>[1] < <<m, n>>[2]
    BY <1>3
  <2>2. QED
    BY <2>1
<1> HIDE DEF R
<1>4. PICK n \in T : \A m \in T : ~(<<m, n>> \in R)
  BY <1>2, WFMin
<1>5. \A m \in T : n <= m
  <2>1. \A m \in T : ~(m < n)
    BY <1>3, <1>4
  <2>2. QED
    BY <2>1
<1>6. QED
  BY <1>5

(* A set that has the empty sequence, and with a sequence also every       *)
(* longer by one, has all sequences.                                       *)
LEMMA SeqsGrow ==
  ASSUME NEW S, NEW T, <<>> \in T, \A s \in Seq(S), e \in S : s \in T => Append(s, e) \in T
  PROVE  Seq(S) \subseteq T
<1> SUFFICES ASSUME NEW bad \in Seq(S), bad \notin T PROVE FALSE
  OBVIOUS
<1> DEFINE L == {n \in Nat : \E s \in Seq(S) : Len(s) = n /\ s \notin T}
<1>1. Len(bad) \in L
  OBVIOUS
<1>2. PICK n \in L : \A m \in L : n <= m
  BY <1>1, LeastElement
<1>3. PICK s \in Seq(S) : Len(s) = n /\ s \notin T
  OBVIOUS
<1>4. s # <<>>
  BY <1>3
<1>5. PICK r \in Seq(S), e \in S : s = Append(r, e)
  BY <1>4, SequenceEmptyOrAppend
<1>6. Len(r) = n - 1 /\ Len(r) \in Nat
  BY <1>3, <1>5
<1>7. r \in T
  BY <1>2, <1>6
<1>8. QED
  BY <1>3, <1>5, <1>7

-----------------------------------------------------------------------------
(* FlattenSeq joins what it is given: the recursive function that defines  *)
(* it exists, and there is only one.                                       *)
IsFlat(g, ss) == g = [i \in 1 .. Len(ss) |-> IF i = 1 THEN ss[i] ELSE g[i - 1] \o ss[i]]

(* There is at most one.                                                   *)
LEMMA FlatIsUnique ==
  ASSUME NEW ss, Len(ss) \in Nat, NEW g, NEW h, IsFlat(g, ss), IsFlat(h, ss)
  PROVE  g = h
<1> DEFINE D == {i \in 1 .. Len(ss) : g[i] # h[i]}
<1>0. /\ g = [i \in 1 .. Len(ss) |-> g[i]]
      /\ h = [i \in 1 .. Len(ss) |-> h[i]]
  BY DEF IsFlat
<1>1. SUFFICES ASSUME D # {} PROVE FALSE
  <2>1. (\A i \in 1 .. Len(ss) : g[i] = h[i]) => g = h
    BY <1>0
  <2>2. QED
    BY <2>1
<1> D \in SUBSET Nat
  OBVIOUS
<1>2. PICK i \in D : \A m \in D : i <= m
  <2> HIDE DEF D
  <2>1. QED
    BY <1>1, LeastElement
<1>3. i = 1 \/ g[i - 1] = h[i - 1]
  BY <1>2
<1>4. g[i] = h[i]
  BY <1>3 DEF IsFlat
<1>5. QED
  BY <1>4

(* One for a sequence makes one for a sequence longer by one.              *)
LEMMA FlatGrows ==
  ASSUME NEW ss \in Seq(Seq(Char)), NEW x \in Seq(Char),
         NEW g \in [1 .. Len(ss) -> Seq(Char)], IsFlat(g, ss)
  PROVE  LET n == Len(ss) + 1
             h == [i \in 1 .. n |-> IF i = n THEN (IF n = 1 THEN x ELSE g[n - 1] \o x) ELSE g[i]]
         IN  /\ h \in [1 .. n -> Seq(Char)] /\ IsFlat(h, Append(ss, x))
             /\ h[n] = (IF n = 1 THEN x ELSE g[n - 1] \o x)
<1> DEFINE n == Len(ss) + 1
           h == [i \in 1 .. n |-> IF i = n THEN (IF n = 1 THEN x ELSE g[n - 1] \o x) ELSE g[i]]
           new == Append(ss, x)
<1>1. Len(new) = n /\ n \in Nat /\ n >= 1
  OBVIOUS
<1>2. new[n] = x /\ \A i \in 1 .. n - 1 : new[i] = ss[i]
  OBVIOUS
<1>3. \A i \in 1 .. n - 1 : g[i] \in Seq(Char)
  OBVIOUS
<1>4. h \in [1 .. n -> Seq(Char)]
  <2>1. n # 1 => g[n - 1] \o x \in Seq(Char)
    BY <1>1, <1>3, ConcatProperties
  <2>2. QED
    BY <1>3, <2>1
<1>5. ASSUME NEW i \in 1 .. n PROVE h[i] = IF i = 1 THEN new[i] ELSE h[i - 1] \o new[i]
  <2>1. CASE i = n /\ i = 1
    BY <1>2, <2>1
  <2>2. CASE i = n /\ i # 1
    <3>1. n - 1 \in 1 .. n /\ n - 1 # n
      BY <1>1, <2>2
    <3>2. h[n - 1] = g[n - 1] /\ h[n] = g[n - 1] \o x
      BY <2>2, <3>1
    <3>3. QED
      BY <1>2, <2>2, <3>2
  <2>3. CASE i # n
    <3>1. i \in 1 .. Len(ss) /\ h[i] = g[i] /\ new[i] = ss[i] /\ (i # 1 => h[i - 1] = g[i - 1])
      BY <1>2, <2>3
    <3>2. g[i] = IF i = 1 THEN ss[i] ELSE g[i - 1] \o ss[i]
      BY <3>1 DEF IsFlat
    <3>3. QED
      BY <3>1, <3>2
  <2>4. QED
    BY <2>1, <2>2, <2>3
<1>6. IsFlat(h, new)
  <2>1. h = [i \in 1 .. n |-> h[i]]
    BY <1>4
  <2>2. QED
    BY <1>1, <1>5, <2>1 DEF IsFlat
<1>7. QED
  BY <1>4, <1>6

(* So there is one for every sequence.                                     *)
LEMMA FlatExists ==
  ASSUME NEW ss \in Seq(Seq(Char))
  PROVE  \E g \in [1 .. Len(ss) -> Seq(Char)] : IsFlat(g, ss)
<1> DEFINE T == {s \in Seq(Seq(Char)) : \E g \in [1 .. Len(s) -> Seq(Char)] : IsFlat(g, s)}
<1>1. <<>> \in T
  <2> DEFINE e == [i \in {} |-> <<>>]
  <2>1. Len(<<>>) = 0 /\ 1 .. 0 = {} /\ <<>> \in Seq(Seq(Char))
    OBVIOUS
  <2>2. e \in [1 .. Len(<<>>) -> Seq(Char)] /\ IsFlat(e, <<>>)
    BY <2>1 DEF IsFlat
  <2>3. QED
    BY <2>1, <2>2
<1>2. ASSUME NEW s \in Seq(Seq(Char)), NEW x \in Seq(Char), s \in T PROVE Append(s, x) \in T
  <2>1. PICK g \in [1 .. Len(s) -> Seq(Char)] : IsFlat(g, s)
    BY <1>2
  <2>2. Append(s, x) \in Seq(Seq(Char)) /\ Len(Append(s, x)) = Len(s) + 1
    OBVIOUS
  <2>3. QED
    BY <2>1, <2>2, FlatGrows
<1> HIDE DEF T
<1>3. Seq(Seq(Char)) \subseteq T
  BY <1>1, <1>2, SeqsGrow
<1>4. QED
  BY <1>3 DEF T

(* And it is what FlattenSeq chooses.                                      *)
LEMMA FlattenIs ==
  ASSUME NEW ss \in Seq(Seq(Char)), NEW g, IsFlat(g, ss)
  PROVE  FlattenSeq(ss) = IF Len(ss) = 0 THEN <<>> ELSE g[Len(ss)]
<1> DEFINE f == CHOOSE h : h = [i \in 1 .. Len(ss) |-> IF i = 1 THEN ss[i] ELSE h[i - 1] \o ss[i]]
<1>1. IsFlat(f, ss)
  BY DEF IsFlat
<1>2. f = g
  <2> HIDE DEF f
  <2>1. QED
    BY <1>1, FlatIsUnique
<1>3. FlattenSeq(ss) = IF Len(ss) = 0 THEN ss ELSE f[Len(ss)]
  BY DEF FlattenSeq
<1>4. Len(ss) = 0 => ss = <<>>
  OBVIOUS
<1> HIDE DEF f
<1>5. QED
  BY <1>2, <1>3, <1>4

(* FlattenSeq puts a part that is added at the end of what it joined.      *)
LEMMA FlattenGrows ==
  ASSUME NEW ss \in Seq(Seq(Char)), NEW x \in Seq(Char)
  PROVE  /\ FlattenSeq(ss) \in Seq(Char)
         /\ FlattenSeq(Append(ss, x)) = FlattenSeq(ss) \o x
<1>1. PICK g \in [1 .. Len(ss) -> Seq(Char)] : IsFlat(g, ss)
  BY FlatExists
<1> DEFINE n == Len(ss) + 1
           h == [i \in 1 .. n |-> IF i = n THEN (IF n = 1 THEN x ELSE g[n - 1] \o x) ELSE g[i]]
<1>2. IsFlat(h, Append(ss, x)) /\ h[n] = (IF n = 1 THEN x ELSE g[n - 1] \o x)
  BY <1>1, FlatGrows
<1>3. Append(ss, x) \in Seq(Seq(Char)) /\ Len(Append(ss, x)) = n /\ n # 0 /\ Len(ss) \in Nat
  OBVIOUS
<1>4. FlattenSeq(ss) = IF Len(ss) = 0 THEN <<>> ELSE g[Len(ss)]
  BY <1>1, FlattenIs
<1> HIDE DEF h
<1>5. FlattenSeq(Append(ss, x)) = h[n]
  BY <1>2, <1>3, FlattenIs
<1>6. FlattenSeq(ss) \in Seq(Char)
  <2>1. Len(ss) # 0 => Len(ss) \in 1 .. Len(ss) /\ g[Len(ss)] \in Seq(Char)
    BY <1>1, <1>3
  <2>2. QED
    BY <1>4, <2>1
<1>7. CASE n = 1
  BY <1>2, <1>3, <1>4, <1>5, <1>7
<1>8. CASE n # 1
  <2>1. FlattenSeq(ss) = g[n - 1]
    BY <1>3, <1>4, <1>8
  <2>2. h[n] = g[n - 1] \o x
    BY <1>2, <1>8
  <2>3. QED
    BY <1>5, <1>6, <2>1, <2>2
<1>9. QED
  BY <1>6, <1>7, <1>8

(* Of no parts it makes nothing.                                           *)
LEMMA FlattenNothing == FlattenSeq(<<>>) = <<>>
BY DEF FlattenSeq

-----------------------------------------------------------------------------
(* One character more.                                                     *)
LEMMA AppendFacts ==
  ASSUME NEW t \in Seq(Char), NEW e \in Char
  PROVE  /\ Append(t, e) \in Seq(Char) /\ Append(t, e) # <<>>
         /\ Len(Append(t, e)) = Len(t) + 1 /\ Len(t) \in Nat
         /\ \A k \in 1 .. Len(t) : Append(t, e)[k] = t[k] /\ t[k] \in Char
         /\ Append(t, e)[Len(t) + 1] = e
OBVIOUS

(* Only positions within the text count.                                   *)
LEMMA KeptSame ==
  ASSUME NEW t, NEW K, NEW L, \A k \in 1 .. Len(t) : k \in K <=> k \in L
  PROVE  Kept(t, K) = Kept(t, L)
<1>1. [k \in 1 .. Len(t) |-> IF k \in K THEN <<t[k]>> ELSE <<>>]
      = [k \in 1 .. Len(t) |-> IF k \in L THEN <<t[k]>> ELSE <<>>]
  OBVIOUS
<1>2. QED
  BY <1>1 DEF Kept

(* A character more is kept, at the end, if its position is.               *)
LEMMA KeptGrows ==
  ASSUME NEW t \in Seq(Char), NEW e \in Char, NEW K
  PROVE  /\ Kept(<<>>, K) = <<>>
         /\ Kept(t, K) \in Seq(Char)
         /\ Len(t) + 1 \in K => Kept(Append(t, e), K) = Append(Kept(t, K), e)
         /\ Len(t) + 1 \notin K => Kept(Append(t, e), K) = Kept(t, K)
<1> DEFINE F(u) == [k \in 1 .. Len(u) |-> IF k \in K THEN <<u[k]>> ELSE <<>>]
           x == IF Len(t) + 1 \in K THEN <<e>> ELSE <<>>
<1>1. F(t) \in Seq(Seq(Char)) /\ Len(F(t)) = Len(t)
  <2>1. Len(t) \in Nat /\ \A k \in 1 .. Len(t) : F(t)[k] \in Seq(Char)
    OBVIOUS
  <2>2. QED
    BY <2>1
<1>2. x \in Seq(Char)
  OBVIOUS
<1>3. F(Append(t, e)) = Append(F(t), x)
  <2>1. Len(Append(t, e)) = Len(t) + 1 /\ Len(t) \in Nat
    OBVIOUS
  <2>2. \A k \in 1 .. Len(t) : Append(t, e)[k] = t[k]
    OBVIOUS
  <2>3. Append(t, e)[Len(t) + 1] = e
    OBVIOUS
  <2>4. Append(F(t), x) = [k \in 1 .. Len(t) + 1 |-> IF k = Len(t) + 1 THEN x ELSE F(t)[k]]
    BY <1>1, <1>2, <2>1
  <2>5. \A k \in 1 .. Len(t) + 1 :
          F(Append(t, e))[k] = IF k = Len(t) + 1 THEN x ELSE F(t)[k]
    BY <2>1, <2>2, <2>3
  <2>6. QED
    BY <2>1, <2>4, <2>5
<1>4. Kept(Append(t, e), K) = FlattenSeq(Append(F(t), x)) /\ Kept(t, K) = FlattenSeq(F(t))
  BY <1>3 DEF Kept
<1>5. Kept(t, K) \in Seq(Char) /\ Kept(Append(t, e), K) = Kept(t, K) \o x
  <2> HIDE DEF F, x
  <2>1. QED
    BY <1>1, <1>2, <1>4, FlattenGrows
<1>6. Kept(<<>>, K) = <<>>
  <2>1. F(<<>>) = <<>>
    OBVIOUS
  <2>2. Kept(<<>>, K) = FlattenSeq(F(<<>>))
    BY DEF Kept
  <2>3. QED
    BY <2>1, <2>2, FlattenNothing
<1>7. Kept(t, K) \o <<e>> = Append(Kept(t, K), e) /\ Kept(t, K) \o <<>> = Kept(t, K)
  BY <1>5
<1>8. QED
  BY <1>5, <1>6, <1>7

(* Nothing is kept of a text where there are no positions to keep.         *)
LEMMA KeptNothing ==
  ASSUME NEW t \in Seq(Char), NEW K, K \intersect 1 .. Len(t) = {}
  PROVE  Kept(t, K) = <<>>
<1> DEFINE T == {s \in Seq(Char) : Kept(s, {}) = <<>>}
<1>1. <<>> \in T
  <2>1. "eol" \in Char
    BY DEF Char
  <2>2. QED
    BY <2>1, KeptGrows
<1>2. ASSUME NEW s \in Seq(Char), NEW e \in Char, s \in T PROVE Append(s, e) \in T
  BY <1>2, KeptGrows, AppendFacts
<1> HIDE DEF T
<1>3. Seq(Char) \subseteq T
  BY <1>1, <1>2, SeqsGrow
<1>4. Kept(t, {}) = <<>>
  BY <1>3 DEF T
<1>5. Kept(t, K) = Kept(t, {})
  BY KeptSame
<1>6. QED
  BY <1>4, <1>5

-----------------------------------------------------------------------------
(* Counting.                                                               *)
Count(t, ch) == Cardinality({m \in 1 .. Len(t) : t[m] = ch})

(* A character more is counted if it is the one sought.                    *)
LEMMA CountGrows ==
  ASSUME NEW t \in Seq(Char), NEW e \in Char, NEW ch
  PROVE  /\ Count(t, ch) \in Nat
         /\ Count(Append(t, e), ch) = IF e = ch THEN Count(t, ch) + 1 ELSE Count(t, ch)
         /\ Count(<<>>, ch) = 0
<1> DEFINE M == {m \in 1 .. Len(t) : t[m] = ch}
           N == {m \in 1 .. Len(Append(t, e)) : Append(t, e)[m] = ch}
<1>1. Len(t) \in Nat /\ 1 \in Int
  OBVIOUS
<1>2. IsFiniteSet(1 .. Len(t)) /\ M \in SUBSET (1 .. Len(t))
  BY <1>1, FS_Interval
<1>3. IsFiniteSet(M)
  <2> HIDE DEF M
  <2>1. QED
    BY <1>2, FS_Subset
<1>4. N = IF e = ch THEN M \union {Len(t) + 1} ELSE M
  BY AppendFacts
<1>5. Len(t) + 1 \notin M
  BY <1>1
<1>6. {m \in 1 .. Len(<<>>) : <<>>[m] = ch} = {}
  OBVIOUS
<1>7. Count(<<>>, ch) = 0
  BY <1>6, FS_EmptySet DEF Count
<1>8. Count(t, ch) = Cardinality(M) /\ Count(Append(t, e), ch) = Cardinality(N)
  BY DEF Count
<1> HIDE DEF M, N
<1>9. Cardinality(M) \in Nat /\ Cardinality(M \union {Len(t) + 1}) = Cardinality(M) + 1
  BY <1>3, <1>5, FS_AddElement, FS_CardinalityType
<1>10. QED
  BY <1>4, <1>7, <1>8, <1>9

(* A bracket more changes the depth behind it and no depth before it.      *)
LEMMA DepthGrows ==
  ASSUME NEW t \in Seq(Char), NEW e \in Char
  PROVE  /\ Depth(<<>>) = 0 /\ Depth(t) \in Int
         /\ Depth(Append(t, e)) =
              IF e = "open" THEN Depth(t) + 1 ELSE IF e = "close" THEN Depth(t) - 1 ELSE Depth(t)
         /\ \A k \in 1 .. Len(t) : DepthAt(Append(t, e), k) = DepthAt(t, k)
         /\ DepthAt(Append(t, e), Len(t) + 1) = Depth(t)
<1>1. ASSUME NEW s \in Seq(Char) PROVE Depth(s) = Count(s, "open") - Count(s, "close")
  <2>1. Len(s) + 1 - 1 = Len(s)
    OBVIOUS
  <2>2. QED
    BY <2>1 DEF Depth, DepthAt, Count
<1>2. ASSUME NEW k \in 1 .. Len(t) + 1, NEW ch
      PROVE  {m \in 1 .. k - 1 : Append(t, e)[m] = ch} = {m \in 1 .. k - 1 : t[m] = ch}
  BY AppendFacts
<1>3. \A k \in 1 .. Len(t) + 1 : DepthAt(Append(t, e), k) = DepthAt(t, k)
  BY <1>2 DEF DepthAt
<1>4. Append(t, e) \in Seq(Char) /\ <<>> \in Seq(Char) /\ Len(t) \in Nat
  BY AppendFacts
<1>a. /\ Count(<<>>, "open") = 0 /\ Count(<<>>, "close") = 0
      /\ Count(t, "open") \in Nat /\ Count(t, "close") \in Nat
  BY CountGrows
<1>b. /\ Depth(<<>>) = Count(<<>>, "open") - Count(<<>>, "close")
      /\ Depth(t) = Count(t, "open") - Count(t, "close")
      /\ Depth(Append(t, e)) = Count(Append(t, e), "open") - Count(Append(t, e), "close")
  BY <1>1, <1>4
<1>c. /\ Count(Append(t, e), "open") = IF e = "open" THEN Count(t, "open") + 1 ELSE Count(t, "open")
      /\ Count(Append(t, e), "close") = IF e = "close" THEN Count(t, "close") + 1 ELSE Count(t, "close")
  BY CountGrows
<1>5. Depth(<<>>) = 0 /\ Depth(t) \in Int
  BY <1>a, <1>b
<1>6. Depth(Append(t, e)) =
        IF e = "open" THEN Depth(t) + 1 ELSE IF e = "close" THEN Depth(t) - 1 ELSE Depth(t)
  BY <1>a, <1>b, <1>c
<1>7. QED
  BY <1>3, <1>4, <1>5, <1>6 DEF Depth

(* The pieces: a character that is no semicolon belongs to the last one,   *)
(* a semicolon begins another.                                             *)
LEMMA SemisFacts ==
  ASSUME NEW t \in Seq(Char), NEW e \in Char
  PROVE  /\ Semis(<<>>) = 0 /\ Semis(t) \in Nat
         /\ Semis(Append(t, e)) = IF e = "semi" THEN Semis(t) + 1 ELSE Semis(t)
         /\ \A k \in 1 .. Len(t) : /\ SemisBefore(Append(t, e), k) = SemisBefore(t, k)
                                   /\ SemisBefore(t, k) \in 0 .. Semis(t)
         /\ SemisBefore(Append(t, e), Len(t) + 1) = Semis(t)
<1>1. ASSUME NEW s \in Seq(Char) PROVE Semis(s) = Count(s, "semi")
  <2>1. Len(s) + 1 - 1 = Len(s)
    OBVIOUS
  <2>2. QED
    BY <2>1 DEF Semis, SemisBefore, Count
<1>2. ASSUME NEW k \in 1 .. Len(t) + 1
      PROVE  {m \in 1 .. k - 1 : Append(t, e)[m] = "semi"} = {m \in 1 .. k - 1 : t[m] = "semi"}
  BY AppendFacts
<1>3. \A k \in 1 .. Len(t) + 1 : SemisBefore(Append(t, e), k) = SemisBefore(t, k)
  BY <1>2 DEF SemisBefore
<1>4. Append(t, e) \in Seq(Char) /\ <<>> \in Seq(Char) /\ Len(t) \in Nat
  BY AppendFacts
<1>5. Semis(<<>>) = Count(<<>>, "semi") /\ Semis(t) = Count(t, "semi")
      /\ Semis(Append(t, e)) = Count(Append(t, e), "semi")
  BY <1>1, <1>4
<1>6. /\ Semis(<<>>) = 0 /\ Semis(t) \in Nat
      /\ Semis(Append(t, e)) = IF e = "semi" THEN Semis(t) + 1 ELSE Semis(t)
  BY <1>5, CountGrows
<1>7. ASSUME NEW k \in 1 .. Len(t) PROVE SemisBefore(t, k) \in 0 .. Semis(t)
  <2> DEFINE B == {m \in 1 .. k - 1 : t[m] = "semi"}
             A == {m \in 1 .. Len(t) : t[m] = "semi"}
  <2>1. B \in SUBSET A /\ A \in SUBSET (1 .. Len(t))
    BY <1>4
  <2>2. IsFiniteSet(1 .. Len(t))
    BY <1>4, FS_Interval
  <2>3. SemisBefore(t, k) = Cardinality(B) /\ Semis(t) = Cardinality(A)
    BY <1>5 DEF SemisBefore, Count
  <2> HIDE DEF A, B
  <2>4. IsFiniteSet(A)
    BY <2>1, <2>2, FS_Subset
  <2>5. IsFiniteSet(B) /\ Cardinality(B) <= Cardinality(A)
    BY <2>1, <2>4, FS_Subset
  <2>6. Cardinality(B) \in Nat /\ Cardinality(A) \in Nat
    BY <2>4, <2>5, FS_CardinalityType
  <2>7. QED
    BY <2>3, <2>5, <2>6
<1>8. QED
  BY <1>3, <1>4, <1>6, <1>7 DEF Semis

(* So a piece that is complete never changes again.                        *)
LEMMA PieceGrows ==
  ASSUME NEW t \in Seq(Char), NEW e \in Char
  PROVE  /\ Piece(<<>>, 1) = <<>>
         /\ \A n \in 1 .. Semis(t) + 1 : Piece(t, n) \in Seq(Char)
         /\ \A n \in 1 .. Semis(t) : Piece(Append(t, e), n) = Piece(t, n)
         /\ Piece(Append(t, e), Semis(t) + 1) =
              IF e = "semi" THEN Piece(t, Semis(t) + 1) ELSE Append(Piece(t, Semis(t) + 1), e)
         /\ e = "semi" => Piece(Append(t, e), Semis(t) + 2) = <<>>
<1> DEFINE u == Append(t, e)
           K(s, n) == {k \in 1 .. Len(s) : s[k] # "semi" /\ SemisBefore(s, k) = n - 1}
<1>1. Semis(t) \in Nat /\ Len(t) \in Nat /\ Len(u) = Len(t) + 1 /\ u[Len(t) + 1] = e
  BY SemisFacts, AppendFacts
<1>2. ASSUME NEW n, NEW k \in 1 .. Len(t) PROVE k \in K(u, n) <=> k \in K(t, n)
  <2>1. SemisBefore(u, k) = SemisBefore(t, k) /\ u[k] = t[k] /\ k \in 1 .. Len(u)
    BY <1>1, SemisFacts, AppendFacts
  <2>2. QED
    BY <2>1
<1>3. ASSUME NEW n \in Int PROVE Len(t) + 1 \in K(u, n) <=> e # "semi" /\ n = Semis(t) + 1
  <2>1. SemisBefore(u, Len(t) + 1) = Semis(t) /\ Len(t) + 1 \in 1 .. Len(u)
    BY <1>1, SemisFacts
  <2>2. QED
    BY <1>1, <2>1
<1>4. ASSUME NEW n \in Int
      PROVE  /\ Piece(u, n) = Kept(u, K(u, n)) /\ Piece(t, n) = Kept(t, K(t, n))
             /\ Piece(t, n) = Kept(t, K(u, n)) /\ Piece(t, n) \in Seq(Char)
  <2>1. Piece(u, n) = Kept(u, K(u, n)) /\ Piece(t, n) = Kept(t, K(t, n))
    BY DEF Piece
  <2>2. Kept(t, K(t, n)) = Kept(t, K(u, n))
    <3> HIDE DEF K
    <3>1. QED
      BY <1>2, KeptSame
  <2> HIDE DEF K
  <2>3. QED
    BY <2>1, <2>2, KeptGrows
<1>5. ASSUME NEW n \in Int
      PROVE  Piece(u, n) = IF e # "semi" /\ n = Semis(t) + 1 THEN Append(Piece(t, n), e) ELSE Piece(t, n)
  <2> HIDE DEF K
  <2>1. CASE Len(t) + 1 \in K(u, n)
    <3>1. Kept(u, K(u, n)) = Append(Kept(t, K(u, n)), e)
      BY <2>1, KeptGrows
    <3>2. QED
      BY <1>3, <1>4, <1>5, <2>1, <3>1
  <2>2. CASE Len(t) + 1 \notin K(u, n)
    BY <1>3, <1>4, <2>2, KeptGrows
  <2>3. QED
    BY <2>1, <2>2
<1>6. Piece(t, Semis(t) + 2) = <<>>
  <2>1. K(t, Semis(t) + 2) \intersect 1 .. Len(t) = {}
    BY <1>1, SemisFacts
  <2> HIDE DEF K
  <2>2. Piece(t, Semis(t) + 2) = Kept(t, K(t, Semis(t) + 2))
    BY <1>1, <1>4
  <2>3. QED
    BY <2>1, <2>2, KeptNothing
<1>7. Piece(<<>>, 1) = <<>>
  <2>1. Piece(<<>>, 1) = Kept(<<>>, K(<<>>, 1))
    BY DEF Piece
  <2> HIDE DEF K
  <2>2. QED
    BY <2>1, KeptGrows
<1> HIDE DEF K, u
<1>8. \A n \in 1 .. Semis(t) + 1 : Piece(t, n) \in Seq(Char)
  BY <1>1, <1>4
<1>9. \A n \in 1 .. Semis(t) : Piece(u, n) = Piece(t, n)
  BY <1>1, <1>5
<1>10. Semis(t) + 1 \in Int /\ Semis(t) + 2 \in Int /\ Semis(t) + 1 # Semis(t) + 2
  BY <1>1
<1>11. Piece(u, Semis(t) + 1) =
        IF e = "semi" THEN Piece(t, Semis(t) + 1) ELSE Append(Piece(t, Semis(t) + 1), e)
  BY <1>5, <1>10
<1>12. e = "semi" => Piece(u, Semis(t) + 2) = <<>>
  BY <1>5, <1>6, <1>10
<1>13. QED
  BY <1>7, <1>8, <1>9, <1>11, <1>12 DEF u

-----------------------------------------------------------------------------
(* Blanks.                                                                 *)
LEMMA SpacedCharType ==
  ASSUME NEW e \in Char, NEW d PROVE SpacedChar(e, d) \in Seq(Char)
<1>1. {"blank", "open", "close", "upper"} \subseteq Char /\ Upper(e) \in Char
  BY DEF Char, Upper
<1>2. /\ <<>> \in Seq(Char) /\ <<"blank">> \in Seq(Char) /\ <<"blank", "open">> \in Seq(Char)
      /\ <<"open">> \in Seq(Char) /\ <<"close", "blank">> \in Seq(Char) /\ <<"close">> \in Seq(Char)
      /\ <<Upper(e)>> \in Seq(Char)
  BY <1>1
<1>3. QED
  BY <1>2 DEF SpacedChar

(* A character more is spaced by the depth before it.                      *)
LEMMA SpacedGrows ==
  ASSUME NEW t \in Seq(Char), NEW e \in Char
  PROVE  /\ Spaced(<<>>) = <<>> /\ Spaced(t) \in Seq(Char)
         /\ Spaced(Append(t, e)) = Spaced(t) \o SpacedChar(e, Depth(t))
<1> DEFINE F(u) == [k \in 1 .. Len(u) |-> SpacedChar(u[k], DepthAt(u, k))]
           x == SpacedChar(e, Depth(t))
<1>1. F(t) \in Seq(Seq(Char)) /\ Len(F(t)) = Len(t)
  <2>1. Len(t) \in Nat /\ \A k \in 1 .. Len(t) : F(t)[k] \in Seq(Char)
    BY SpacedCharType
  <2>2. QED
    BY <2>1
<1>2. x \in Seq(Char)
  BY SpacedCharType
<1>3. F(Append(t, e)) = Append(F(t), x)
  <2>1. Len(Append(t, e)) = Len(t) + 1 /\ Len(t) \in Nat
    BY AppendFacts
  <2>2. Append(F(t), x) = [k \in 1 .. Len(t) + 1 |-> IF k = Len(t) + 1 THEN x ELSE F(t)[k]]
    BY <1>1, <1>2, <2>1
  <2>3. \A k \in 1 .. Len(t) + 1 : F(Append(t, e))[k] = IF k = Len(t) + 1 THEN x ELSE F(t)[k]
    BY <2>1, AppendFacts, DepthGrows
  <2>4. QED
    BY <2>1, <2>2, <2>3
<1>4. Spaced(Append(t, e)) = FlattenSeq(Append(F(t), x)) /\ Spaced(t) = FlattenSeq(F(t))
  BY <1>3 DEF Spaced
<1>5. Spaced(t) \in Seq(Char) /\ Spaced(Append(t, e)) = Spaced(t) \o x
  <2> HIDE DEF F, x
  <2>1. QED
    BY <1>1, <1>2, <1>4, FlattenGrows
<1>6. Spaced(<<>>) = <<>>
  <2>1. F(<<>>) = <<>>
    OBVIOUS
  <2>2. Spaced(<<>>) = FlattenSeq(F(<<>>))
    BY DEF Spaced
  <2>3. QED
    BY <2>1, <2>2, FlattenNothing
<1>7. QED
  BY <1>5, <1>6

AtBlank(s) == s = <<>> \/ s[Len(s)] = "blank"

(* A blank behind a blank, or before everything else, is dropped.          *)
LEMMA CollapsedGrows ==
  ASSUME NEW s \in Seq(Char), NEW e \in Char
  PROVE  /\ Collapsed(<<>>) = <<>> /\ Collapsed(s) \in Seq(Char)
         /\ Collapsed(Append(s, e)) =
              IF e = "blank" /\ AtBlank(s) THEN Collapsed(s) ELSE Append(Collapsed(s), e)
<1> DEFINE K(u) == {k \in 1 .. Len(u) : u[k] = "blank" => k > 1 /\ u[k - 1] # "blank"}
           v == Append(s, e)
<1>1. Len(s) \in Nat /\ Len(v) = Len(s) + 1 /\ v[Len(s) + 1] = e
  BY AppendFacts
<1>2. ASSUME NEW k \in 1 .. Len(s) PROVE k \in K(v) <=> k \in K(s)
  <2>1. v[k] = s[k] /\ k \in 1 .. Len(v)
    BY <1>1, AppendFacts
  <2>2. k > 1 => k - 1 \in 1 .. Len(s) /\ v[k - 1] = s[k - 1]
    BY <1>1, AppendFacts
  <2>3. QED
    BY <2>1, <2>2
<1>3. Len(s) + 1 \in K(v) <=> ~(e = "blank" /\ AtBlank(s))
  <2>1. CASE s = <<>>
    BY <1>1, <2>1 DEF AtBlank
  <2>2. CASE s # <<>>
    <3>1. Len(s) + 1 > 1 /\ Len(s) + 1 - 1 = Len(s) /\ v[Len(s)] = s[Len(s)]
      BY <1>1, <2>2, AppendFacts
    <3>2. Len(s) + 1 \in 1 .. Len(v) /\ (AtBlank(s) <=> s[Len(s)] = "blank")
      BY <1>1, <2>2 DEF AtBlank
    <3>3. Len(s) + 1 \in K(v) <=> (v[Len(s) + 1] = "blank" => v[Len(s)] # "blank")
      <4> HIDE DEF v
      <4>1. QED
        BY <1>1, <3>1, <3>2
    <3>4. QED
      BY <1>1, <3>1, <3>2, <3>3
  <2>3. QED
    BY <2>1, <2>2
<1>4. Collapsed(v) = Kept(v, K(v)) /\ Collapsed(s) = Kept(s, K(s)) /\ Collapsed(<<>>) = Kept(<<>>, K(<<>>))
  BY DEF Collapsed
<1> HIDE DEF K
<1>5. Kept(s, K(s)) = Kept(s, K(v))
  BY <1>2, KeptSame
<1>6. Collapsed(<<>>) = <<>> /\ Collapsed(s) \in Seq(Char)
  BY <1>4, KeptGrows
<1>7. CASE e = "blank" /\ AtBlank(s)
  BY <1>3, <1>4, <1>5, <1>6, <1>7, KeptGrows
<1>8. CASE ~(e = "blank" /\ AtBlank(s))
  <2>1. Kept(v, K(v)) = Append(Kept(s, K(v)), e)
    BY <1>3, <1>8, KeptGrows
  <2>2. QED
    BY <1>4, <1>5, <1>6, <1>8, <2>1
<1>9. QED
  BY <1>7, <1>8

(* Removing blanks neither makes nor hides one at the end, and leaves none *)
(* at the beginning.                                                       *)
LEMMA CollapsedEnds ==
  ASSUME NEW s \in Seq(Char)
  PROVE  /\ AtBlank(Collapsed(s)) <=> AtBlank(s)
         /\ Collapsed(s) # <<>> => Collapsed(s)[1] # "blank"
<1> DEFINE P(u) == /\ AtBlank(Collapsed(u)) <=> AtBlank(u)
                   /\ Collapsed(u) # <<>> => Collapsed(u)[1] # "blank"
           T == {u \in Seq(Char) : P(u)}
<1>1. <<>> \in T
  <2>1. "eol" \in Char
    BY DEF Char
  <2>2. QED
    BY <2>1, CollapsedGrows DEF AtBlank
<1>2. ASSUME NEW u \in Seq(Char), NEW e \in Char, u \in T PROVE Append(u, e) \in T
  <2> DEFINE c == Collapsed(u)
             w == Append(u, e)
  <2>1. c \in Seq(Char) /\ P(u) /\ w \in Seq(Char) /\ w # <<>> /\ w[Len(w)] = e
    BY <1>2, CollapsedGrows, AppendFacts
  <2>2. CASE e = "blank" /\ AtBlank(u)
    <3>1. Collapsed(w) = c /\ AtBlank(w)
      BY <2>1, <2>2, CollapsedGrows DEF AtBlank
    <3>2. QED
      BY <2>1, <2>2, <3>1
  <2>3. CASE ~(e = "blank" /\ AtBlank(u))
    <3>1. Collapsed(w) = Append(c, e)
      BY <2>3, CollapsedGrows
    <3>2. AtBlank(w) <=> e = "blank"
      BY <2>1 DEF AtBlank
    <3>3. Append(c, e) # <<>> /\ Append(c, e)[Len(Append(c, e))] = e
      <4> HIDE DEF c
      <4>1. Len(Append(c, e)) = Len(c) + 1 /\ Append(c, e)[Len(c) + 1] = e /\ Append(c, e) # <<>>
        BY <2>1, AppendFacts
      <4>2. QED
        BY <4>1
    <3>4. AtBlank(Append(c, e)) <=> e = "blank"
      BY <3>3 DEF AtBlank
    <3>5. Append(c, e)[1] # "blank"
      <4>1. CASE c = <<>>
        <5>1. AtBlank(u)
          BY <2>1, <4>1 DEF AtBlank
        <5>2. QED
          BY <2>3, <4>1, <5>1
      <4>2. CASE c # <<>>
        <5>1. Len(c) \in Nat /\ Len(c) # 0 /\ Append(c, e)[1] = c[1]
          BY <2>1, <4>2
        <5>2. QED
          BY <2>1, <4>2, <5>1
      <4>3. QED
        BY <4>1, <4>2
    <3>6. QED
      BY <2>1, <3>1, <3>2, <3>4, <3>5
  <2>4. QED
    BY <2>2, <2>3
<1> HIDE DEF T
<1>3. Seq(Char) \subseteq T
  BY <1>1, <1>2, SeqsGrow
<1>4. QED
  BY <1>3 DEF T

-----------------------------------------------------------------------------
(* Comments. A slash behind a slash makes both a comment; any other        *)
(* character leaves what has been read as it was.                          *)
Pending(t) == EndsInSlash(t) /\ ~Commented(t)

OpensOrStays(t, e) == e # "eol" /\ (Commented(t) \/ e = "bang")

(* What was in a comment stays in it, and nothing else gets into one.      *)
LEMMA InCommentGrows ==
  ASSUME NEW t \in Seq(Char), NEW e \in Char, ~(Pending(t) /\ e = "slash")
  PROVE  /\ \A k \in 1 .. Len(t) : InComment(Append(t, e), k) <=> InComment(t, k)
         /\ InComment(Append(t, e), Len(t) + 1) <=> OpensOrStays(t, e)
<1> DEFINE u == Append(t, e)
           n == Len(t)
<1>1. n \in Nat /\ Len(u) = n + 1 /\ u[n + 1] = e /\ \A k \in 1 .. n : u[k] = t[k]
  BY AppendFacts
<1>2. t = <<>> <=> n = 0
  OBVIOUS
<1> HIDE DEF u
<1>3. ASSUME NEW c \in 1 .. n, c < n PROVE OpensComment(u, c) <=> OpensComment(t, c)
  BY <1>1, <1>3 DEF OpensComment
<1>4. ASSUME n > 0, OpensComment(t, n) PROVE OpensComment(u, n)
  BY <1>1, <1>4 DEF OpensComment
<1>5. ASSUME n > 0, OpensComment(u, n), ~OpensComment(t, n) PROVE Commented(t)
  <2>1. t[n] = "slash" /\ e = "slash"
    BY <1>1, <1>5 DEF OpensComment
  <2>2. QED
    BY <1>2, <1>5, <2>1 DEF Pending, EndsInSlash
<1>6. ASSUME NEW k \in 1 .. n, InComment(t, k) PROVE InComment(u, k)
  <2>1. PICK c \in 1 .. k : OpensComment(t, c) /\ \A m \in c .. k : t[m] # "eol"
    BY <1>6 DEF InComment
  <2>2. c \in 1 .. n /\ \A m \in c .. k : m \in 1 .. n /\ u[m] = t[m]
    BY <1>1
  <2>3. OpensComment(u, c)
    BY <1>1, <1>3, <1>4, <2>1, <2>2
  <2>4. QED
    BY <2>1, <2>2, <2>3 DEF InComment
<1>7. ASSUME NEW k \in 1 .. n, InComment(u, k) PROVE InComment(t, k)
  <2>1. PICK c \in 1 .. k : OpensComment(u, c) /\ \A m \in c .. k : u[m] # "eol"
    BY <1>7 DEF InComment
  <2>2. c \in 1 .. n /\ \A m \in c .. k : m \in 1 .. n /\ u[m] = t[m]
    BY <1>1
  <2>3. CASE OpensComment(t, c)
    BY <2>1, <2>2, <2>3 DEF InComment
  <2>4. CASE ~OpensComment(t, c)
    <3>1. c = n /\ k = n
      BY <1>1, <1>3, <2>1, <2>2, <2>4
    <3>2. Commented(t)
      BY <1>1, <1>5, <2>1, <2>4, <3>1
    <3>3. QED
      BY <3>1, <3>2 DEF Commented
  <2>5. QED
    BY <2>3, <2>4
<1>8. ASSUME InComment(u, n + 1) PROVE OpensOrStays(t, e)
  <2>1. PICK c \in 1 .. n + 1 : OpensComment(u, c) /\ \A m \in c .. n + 1 : u[m] # "eol"
    BY <1>8 DEF InComment
  <2>2. e # "eol"
    BY <1>1, <2>1
  <2>3. CASE c = n + 1
    BY <1>1, <2>1, <2>2, <2>3 DEF OpensComment, OpensOrStays
  <2>4. CASE c # n + 1
    <3>1. n \in 1 .. n /\ c \in 1 .. n
      BY <1>1, <2>4
    <3>2. InComment(u, n)
      BY <1>1, <2>1, <3>1 DEF InComment
    <3>3. InComment(t, n) /\ t # <<>>
      BY <1>2, <1>7, <3>1, <3>2
    <3>4. QED
      BY <2>2, <3>3 DEF OpensOrStays, Commented
  <2>5. QED
    BY <2>3, <2>4
<1>9. ASSUME OpensOrStays(t, e) PROVE InComment(u, n + 1)
  <2>1. e # "eol"
    BY <1>9 DEF OpensOrStays
  <2>2. CASE e = "bang"
    <3>1. n + 1 \in 1 .. n + 1 /\ OpensComment(u, n + 1) /\ \A m \in n + 1 .. n + 1 : u[m] # "eol"
      BY <1>1, <2>2 DEF OpensComment
    <3>2. QED
      BY <3>1 DEF InComment
  <2>3. CASE Commented(t)
    <3>1. n \in 1 .. n /\ InComment(u, n)
      BY <1>1, <1>2, <1>6, <2>3 DEF Commented
    <3>2. PICK c \in 1 .. n : OpensComment(u, c) /\ \A m \in c .. n : u[m] # "eol"
      BY <3>1 DEF InComment
    <3>3. c \in 1 .. n + 1 /\ \A m \in c .. n + 1 : u[m] # "eol"
      BY <1>1, <2>1, <3>2
    <3>4. QED
      BY <3>2, <3>3 DEF InComment
  <2>4. QED
    BY <1>9, <2>2, <2>3 DEF OpensOrStays
<1>10. QED
  BY <1>6, <1>7, <1>8, <1>9 DEF u

(* So the text without its comments only grows.                            *)
LEMMA WithoutGrows ==
  ASSUME NEW t \in Seq(Char), NEW e \in Char, ~(Pending(t) /\ e = "slash")
  PROVE  /\ WithoutComments(<<>>) = <<>> /\ WithoutComments(t) \in Seq(Char)
         /\ WithoutComments(Append(t, e)) =
              IF OpensOrStays(t, e) THEN WithoutComments(t) ELSE Append(WithoutComments(t), e)
         /\ Commented(Append(t, e)) <=> OpensOrStays(t, e)
<1> DEFINE K(s) == {k \in 1 .. Len(s) : ~InComment(s, k)}
           u == Append(t, e)
<1>1. Len(t) \in Nat /\ Len(u) = Len(t) + 1 /\ u # <<>>
  BY AppendFacts
<1>2. ASSUME NEW k \in 1 .. Len(t) PROVE k \in K(u) <=> k \in K(t)
  BY <1>1, InCommentGrows
<1>3. Len(t) + 1 \in K(u) <=> ~OpensOrStays(t, e)
  BY <1>1, InCommentGrows
<1>4. /\ WithoutComments(u) = Kept(u, K(u)) /\ WithoutComments(t) = Kept(t, K(t))
      /\ WithoutComments(<<>>) = Kept(<<>>, K(<<>>))
  BY DEF WithoutComments
<1>5. Commented(u) <=> OpensOrStays(t, e)
  BY <1>1, InCommentGrows DEF Commented
<1> HIDE DEF K
<1>6. Kept(t, K(t)) = Kept(t, K(u))
  BY <1>2, KeptSame
<1>7. WithoutComments(<<>>) = <<>> /\ WithoutComments(t) \in Seq(Char)
  BY <1>4, KeptGrows
<1>8. CASE OpensOrStays(t, e)
  <2>1. Kept(u, K(u)) = Kept(t, K(u))
    BY <1>3, <1>8, KeptGrows
  <2>2. QED
    BY <1>4, <1>5, <1>6, <1>7, <1>8, <2>1
<1>9. CASE ~OpensOrStays(t, e)
  <2>1. Kept(u, K(u)) = Append(Kept(t, K(u)), e)
    BY <1>3, <1>9, KeptGrows
  <2>2. QED
    BY <1>4, <1>5, <1>6, <1>7, <1>9, <2>1
<1>10. QED
  BY <1>8, <1>9

(* The second slash of two takes the first away.                           *)
LEMMA SlashesVanish ==
  ASSUME NEW r \in Seq(Char), ~Commented(r), ~Pending(r)
  PROVE  LET u == Append(Append(r, "slash"), "slash")
         IN  WithoutComments(u) = WithoutComments(r) /\ Commented(u)
<1> DEFINE t == Append(r, "slash")
           u == Append(t, "slash")
           n == Len(r)
           K(s) == {k \in 1 .. Len(s) : ~InComment(s, k)}
<1>1. "slash" \in Char
  BY DEF Char
<1>2. /\ t \in Seq(Char) /\ n \in Nat /\ Len(t) = n + 1 /\ t[n + 1] = "slash"
      /\ \A k \in 1 .. n : t[k] = r[k]
  BY <1>1, AppendFacts
<1>3. /\ u \in Seq(Char) /\ u # <<>> /\ Len(u) = n + 2 /\ u[n + 2] = "slash" /\ u[n + 1] = "slash"
      /\ \A k \in 1 .. n : u[k] = r[k]
  <2> HIDE DEF t
  <2>1. u \in Seq(Char) /\ u # <<>> /\ Len(u) = Len(t) + 1 /\ u[Len(t) + 1] = "slash"
        /\ \A k \in 1 .. Len(t) : u[k] = t[k]
    BY <1>1, <1>2, AppendFacts
  <2>2. QED
    BY <1>2, <2>1
<1>4. r = <<>> <=> n = 0
  OBVIOUS
<1> HIDE DEF u, t
<1>5. ASSUME NEW c \in 1 .. n PROVE OpensComment(u, c) <=> OpensComment(r, c)
  <2>1. CASE c < n
    BY <1>2, <1>3, <2>1 DEF OpensComment
  <2>2. CASE c = n
    <3>1. r[n] # "slash"
      BY <1>4, <2>2 DEF Pending, EndsInSlash
    <3>2. QED
      BY <1>2, <1>3, <2>2, <3>1 DEF OpensComment
  <2>3. QED
    BY <1>2, <2>1, <2>2
<1>6. ASSUME NEW k \in 1 .. n PROVE InComment(u, k) <=> InComment(r, k)
  <2>1. \A c \in 1 .. k : c \in 1 .. n /\ \A m \in c .. k : m \in 1 .. n /\ u[m] = r[m]
    BY <1>2, <1>3
  <2>2. QED
    BY <1>5, <2>1 DEF InComment
<1>7. OpensComment(u, n + 1)
  BY <1>2, <1>3 DEF OpensComment
<1>8. InComment(u, n + 1) /\ InComment(u, n + 2)
  <2>1. /\ n + 1 \in 1 .. n + 1 /\ n + 1 \in 1 .. n + 2
        /\ \A m \in n + 1 .. n + 1 : u[m] # "eol"
        /\ \A m \in n + 1 .. n + 2 : u[m] # "eol"
    BY <1>2, <1>3
  <2>2. QED
    BY <1>7, <2>1 DEF InComment
<1>9. Commented(u)
  BY <1>3, <1>8 DEF Commented
<1>10. ASSUME NEW k \in 1 .. n PROVE k \in K(u) <=> k \in K(r)
  BY <1>2, <1>3, <1>6
<1>11. n + 1 \notin K(u) /\ n + 2 \notin K(u)
  BY <1>8
<1>12. WithoutComments(u) = Kept(u, K(u)) /\ WithoutComments(r) = Kept(r, K(r))
  BY DEF WithoutComments
<1> HIDE DEF K
<1>13. Kept(r, K(r)) = Kept(r, K(u))
  BY <1>10, KeptSame
<1>14. Kept(t, K(u)) = Kept(r, K(u))
  BY <1>1, <1>11, KeptGrows DEF t
<1>15. Kept(u, K(u)) = Kept(t, K(u))
  <2>1. Len(t) + 1 \notin K(u)
    BY <1>2, <1>11
  <2>2. QED
    BY <1>1, <1>2, <2>1, KeptGrows DEF u
<1>16. QED
  BY <1>9, <1>12, <1>13, <1>14, <1>15 DEF u, t

-----------------------------------------------------------------------------
(* Making room leaves room: for the bytes an iteration may add, plus two.  *)
LEMMA GrownFits ==
  ASSUME BufferInv
  PROVE  /\ Grown \in Nat
         /\ Grown >= FirstSize
         /\ Len(buf) + Margin <= Grown
<1> USE SizesAssumption
<1>1. Len(buf) \in Nat /\ len \in Nat
  BY DEF BufferInv, TypeOK
<1>2. buf = <<>> => Len(buf) = 0
  OBVIOUS
<1>3. CASE len >= Len(buf) + Margin
  BY <1>1, <1>3 DEF Grown, BufferInv
<1>4. CASE len < Len(buf) + Margin /\ len < Threshold
  BY <1>1, <1>2, <1>4 DEF Grown, BufferInv
<1>5. CASE len < Len(buf) + Margin /\ len >= Threshold
  BY <1>1, <1>2, <1>5 DEF Grown, BufferInv
<1>6. QED
  BY <1>1, <1>3, <1>4, <1>5

(* What an iteration leaves in the buffer has the right type and is at     *)
(* most two bytes longer than before.                                      *)
Extends(b) == b \in Seq(Stored) /\ Len(b) <= Len(buf) + 2

LEMMA Additions ==
  ASSUME BufferInv, NEW ch \in Bytes
  PROVE  /\ Extends(buf)
         /\ Extends(Separated)
         /\ Len(Separated) <= Len(buf) + 1
         /\ Extends(Append(Separated, ch))
         /\ Extends(Append(buf, ch))
         /\ Extends(Append(buf, "upper"))
         /\ Extends(buf \o <<ch, "blank">>)
         /\ buf # <<>> => Extends(SubSeq(buf, 1, Len(buf) - 1))
<1>1. buf \in Seq(Stored) /\ ch \in Stored /\ "upper" \in Stored /\ "blank" \in Stored
  BY DEF BufferInv, TypeOK, Stored
<1>2. Separated \in Seq(Stored) /\ Len(Separated) <= Len(buf) + 1
  BY <1>1 DEF Separated
<1>3. Extends(buf) /\ Extends(Separated) /\ Extends(Append(Separated, ch))
  BY <1>1, <1>2 DEF Extends
<1>4. Extends(Append(buf, ch)) /\ Extends(Append(buf, "upper"))
  BY <1>1 DEF Extends
<1>5. <<ch, "blank">> \in Seq(Stored) /\ Len(<<ch, "blank">>) = 2
  BY <1>1
<1>6. Extends(buf \o <<ch, "blank">>)
  BY <1>1, <1>5 DEF Extends
<1>7. buf # <<>> => Extends(SubSeq(buf, 1, Len(buf) - 1))
  BY <1>1 DEF Extends
<1>8. QED
  BY <1>2, <1>3, <1>4, <1>6, <1>7

(* An iteration that reads a byte, stays in read_command and leaves such a *)
(* buffer preserves the invariant.                                         *)
LEMMA IterationKeepsInv ==
  ASSUME BufferInv, NEW ch \in Bytes, Take(ch),
         NEW b, NEW k \in Int, NEW c \in BOOLEAN,
         Goes(b, k, c), Extends(b)
  PROVE  BufferInv'
<1>1. len' = Grown /\ fed' \in Seq(Bytes) /\ buf' = b
  BY DEF Take, Goes, BufferInv, TypeOK
<1>2. Grown \in Nat /\ Grown >= FirstSize /\ Len(buf) + Margin <= Grown
  BY GrownFits
<1>3. Len(buf) \in Nat /\ Len(b) \in Nat /\ b \in Seq(Stored)
  BY DEF Extends, BufferInv, TypeOK
<1>4. buf' # <<>> => len' # 0 /\ Len(buf') + Margin <= len' + 2
  BY <1>1, <1>2, <1>3, SizesAssumption DEF Extends
<1>5. TypeOK'
  BY <1>1, <1>2, <1>3 DEF TypeOK, BufferInv, Goes
<1>6. QED
  BY <1>1, <1>2, <1>4, <1>5 DEF BufferInv

-----------------------------------------------------------------------------
(* The empty sequences of the initial states and of the resets.            *)
LEMMA Empties ==
  /\ <<>> \in Seq(Stored) /\ <<>> \in Seq(Bytes) /\ <<>> \in Seq(Seq(Stored))
  /\ Len(<<>>) = 0
  /\ 0 \in Nat /\ 0 \in Int /\ 0 \in {0, -1} /\ -1 \in {0, -1}
OBVIOUS

(* BufferInv holds initially.                                              *)
LEMMA BufferInit == Init => BufferInv
BY Zenon, Empties DEF Init, BufferInv, TypeOK

(* BufferInv is inductive.                                                 *)
LEMMA BufferNext ==
  ASSUME CleanHandover
  PROVE  BufferInv /\ [Next]_vars => BufferInv'
<1> SUFFICES ASSUME BufferInv, [Next]_vars
             PROVE  BufferInv'
  OBVIOUS
<1>0. braket_mode \in Int /\ MaxBrackets \in Nat
  BY BoundsAssumption DEF BufferInv, TypeOK
<1>1. ASSUME NEW ch \in Bytes, ReadByte(ch)
      PROVE  BufferInv'
  <2>1. CASE Skip(ch)
    BY <1>0, <2>1, Additions, IterationKeepsInv DEF Skip
  <2>2. CASE Blank(ch)
    BY <1>0, <2>2, Additions, IterationKeepsInv DEF Blank
  <2>3. CASE BangComment(ch)
    BY <1>0, <2>3, Additions, IterationKeepsInv DEF BangComment
  <2>4. CASE SlashComment(ch)
    BY <1>0, <2>4, Additions, IterationKeepsInv DEF SlashComment, EndsIn
  <2>5. CASE OpenBracket(ch)
    <3>1. Take(ch) /\ Goes(Append(Separated, ch), braket_mode + 1, FALSE)
      BY <2>5 DEF OpenBracket
    <3>2. braket_mode + 1 \in Int /\ FALSE \in BOOLEAN
      BY <1>0
    <3>3. Extends(Append(Separated, ch))
      BY Additions
    <3>4. QED
      BY <3>1, <3>2, <3>3, IterationKeepsInv
  <2>6. CASE CloseBracket(ch)
    <3>1. Take(ch) /\ braket_mode - 1 \in Int /\ FALSE \in BOOLEAN
      BY <1>0, <2>6 DEF CloseBracket
    <3>2. CASE braket_mode = 1
      <4>1. Goes(buf \o <<ch, "blank">>, braket_mode - 1, FALSE)
        BY <2>6, <3>2 DEF CloseBracket
      <4>2. Extends(buf \o <<ch, "blank">>)
        BY Additions
      <4>3. QED
        BY <3>1, <4>1, <4>2, IterationKeepsInv
    <3>3. CASE braket_mode # 1
      <4>1. Goes(Append(buf, ch), braket_mode - 1, FALSE)
        BY <2>6, <3>3 DEF CloseBracket
      <4>2. Extends(Append(buf, ch))
        BY Additions
      <4>3. QED
        BY <3>1, <4>1, <4>2, IterationKeepsInv
    <3>4. QED
      BY <3>2, <3>3
  <2>7. CASE Word(ch)
    <3>1. CASE ch = "lower"
      BY <1>0, <2>7, <3>1, Additions, IterationKeepsInv DEF Word, ToUpper
    <3>2. CASE ch # "lower"
      BY <1>0, <2>7, <3>2, Additions, IterationKeepsInv DEF Word, ToUpper
    <3>3. QED
      BY <3>1, <3>2
  <2>8. CASE CommandRuns(ch) \/ CommandFails(ch)
    <3>1. Take(ch) /\ Deliver
      BY <2>8 DEF CommandRuns, CommandFails
    <3>2. fed' \in Seq(Bytes) /\ len' = Grown /\ Grown \in Nat /\ Grown >= FirstSize
      BY <3>1, GrownFits DEF Take, BufferInv, TypeOK
    <3>3. /\ out' \in Seq(Seq(Stored)) /\ buf' = <<>>
          /\ braket_mode' \in Int /\ comment_mode' = FALSE
      BY <1>0, <3>1, Empties DEF Deliver, BufferInv, TypeOK
    <3>4. /\ pc' \in {"idle", "packet", "between", "file"}
          /\ rc' \in {0, -1} /\ result' \in {"none", "ok", "error"}
      BY Zenon, <2>8, Empties DEF CommandRuns, CommandFails, BufferInv, TypeOK
    <3>5. TypeOK'
      BY Zenon, <3>2, <3>3, <3>4, GrownFits, Empties DEF TypeOK
    <3>6. QED
      BY <3>2, <3>3, <3>5 DEF BufferInv
  <2>9. QED
    BY <1>1, <2>1, <2>2, <2>3, <2>4, <2>5, <2>6, <2>7, <2>8 DEF ReadByte
<1>2. CASE AllocFails
  <2>1. len' = Grown /\ Grown \in Nat /\ Grown >= FirstSize /\ buf' = <<>>
    BY <1>2, GrownFits DEF AllocFails
  <2>2. TypeOK'
    BY Zenon, <1>2, <2>1, Empties DEF AllocFails, BufferInv, TypeOK
  <2>3. QED
    BY <2>1, <2>2 DEF BufferInv
<1>3. CASE StartUpload
  BY Zenon, <1>3, Empties DEF StartUpload, BufferInv, TypeOK
<1>4. CASE PacketEnds \/ FileEnds \/ FileEndsEarly
  <2>1. len' = Grown /\ Grown \in Nat /\ Grown >= FirstSize /\ Len(buf) + Margin <= Grown
    BY <1>4, GrownFits DEF PacketEnds, FileEnds, FileEndsEarly
  <2>2. Len(buf) \in Nat /\ (buf' = buf \/ buf' = <<>>)
    BY <1>4 DEF PacketEnds, FileEnds, FileEndsEarly, BufferInv, TypeOK
  <2>3. buf' # <<>> => len' # 0 /\ Len(buf') + Margin <= len' + 2
    BY <2>1, <2>2, SizesAssumption
  <2>4. TypeOK'
    BY Zenon, <1>4, <2>1, Empties DEF PacketEnds, FileEnds, FileEndsEarly, BufferInv, TypeOK
  <2>5. QED
    BY <2>1, <2>3, <2>4 DEF BufferInv
<1>5. CASE NextPacket \/ FinishUpload \/ BreakUpload
  BY <1>5 DEF NextPacket, FinishUpload, BreakUpload, BufferInv, TypeOK
<1>6. CASE StartFile
  <2>1. buf = <<>> /\ buf' = <<>>
    BY <1>6 DEF StartFile
  <2>2. QED
    BY Zenon, <1>6, <2>1, Empties DEF StartFile, BufferInv, TypeOK
<1>7. CASE UNCHANGED vars
  BY <1>7 DEF vars, BufferInv, TypeOK
<1>8. QED
  BY <1>1, <1>2, <1>3, <1>4, <1>5, <1>6, <1>7 DEF Next, Upload, File

(* The reader's variables keep their types and its buffer its room.        *)
THEOREM BufferInvHolds == ASSUME CleanHandover PROVE Spec => []BufferInv
BY BufferInit, BufferNext, PTL DEF Spec

(* read_command never writes behind the buffer it has allocated, for any   *)
(* text, any packets, any sequence of uploads and files.                   *)
THEOREM WritesFitAlways == ASSUME CleanHandover PROVE Spec => []WritesFit
<1>1. BufferInv => WritesFit
  <2> SUFFICES ASSUME BufferInv PROVE Len(buf) + 2 < Grown
    BY DEF WritesFit
  <2>1. Len(buf) \in Nat
    BY DEF BufferInv, TypeOK
  <2>2. QED
    BY <2>1, GrownFits, SizesAssumption
<1>2. QED
  BY <1>1, BufferInvHolds, PTL

-----------------------------------------------------------------------------
(* What a text amounts to: the commands complete in it, and the buffer and *)
(* the nesting that belong to its unfinished one.                          *)
BufOf(t)     == Collapsed(Spaced(Unfinished(t)))
NestingOf(t) == Depth(Unfinished(t))
WholeOf(t)   == Semis(WithoutComments(t))
CommandOf(t, n) == Normal(Piece(WithoutComments(t), n))

NoneCompleted(t, u) ==
  WholeOf(u) = WholeOf(t) /\ \A n \in 1 .. WholeOf(t) : CommandOf(u, n) = CommandOf(t, n)

(* Of nothing read there is no command, complete or begun.                 *)
LEMMA NothingRead ==
  /\ Unfinished(<<>>) = <<>> /\ BufOf(<<>>) = <<>> /\ NestingOf(<<>>) = 0 /\ WholeOf(<<>>) = 0
  /\ ~Commented(<<>>) /\ ~Pending(<<>>)
<1>1. "eol" \in Char /\ <<>> \in Seq(Char)
  BY DEF Char
<1>2. ~Commented(<<>>) /\ ~Pending(<<>>)
  BY DEF Commented, Pending, EndsInSlash
<1>3. WithoutComments(<<>>) = <<>>
  BY <1>1, <1>2, WithoutGrows
<1>4. Semis(<<>>) = 0 /\ Piece(<<>>, 1) = <<>>
  BY <1>1, SemisFacts, PieceGrows
<1>5. Unfinished(<<>>) = <<>>
  BY <1>3, <1>4 DEF Unfinished
<1>6. Spaced(<<>>) = <<>> /\ Collapsed(<<>>) = <<>> /\ Depth(<<>>) = 0
  BY <1>1, SpacedGrows, CollapsedGrows, DepthGrows
<1>7. QED
  BY <1>2, <1>3, <1>4, <1>5, <1>6 DEF BufOf, NestingOf, WholeOf

(* All of these are texts and numbers.                                     *)
LEMMA UnfinishedType ==
  ASSUME NEW t \in Seq(Char)
  PROVE  /\ WithoutComments(t) \in Seq(Char) /\ Unfinished(t) \in Seq(Char)
         /\ WholeOf(t) \in Nat /\ BufOf(t) \in Seq(Char) /\ NestingOf(t) \in Int
<1>1. "eol" \in Char
  BY DEF Char
<1>2. ~(Pending(t) /\ "eol" = "slash")
  OBVIOUS
<1>3. WithoutComments(t) \in Seq(Char)
  BY <1>1, <1>2, WithoutGrows
<1>4. WholeOf(t) \in Nat
  BY <1>1, <1>3, SemisFacts DEF WholeOf
<1>5. Unfinished(t) \in Seq(Char)
  BY <1>1, <1>3, <1>4, PieceGrows DEF Unfinished, WholeOf
<1>6. NestingOf(t) \in Int
  BY <1>1, <1>5, DepthGrows DEF NestingOf
<1>7. Spaced(Unfinished(t)) \in Seq(Char)
  BY <1>1, <1>5, SpacedGrows
<1>8. BufOf(t) \in Seq(Char)
  BY <1>1, <1>7, CollapsedGrows DEF BufOf
<1>9. QED
  BY <1>3, <1>4, <1>5, <1>6, <1>8

(* A character in a comment, or the one that opens it, adds nothing.       *)
LEMMA CommentGrows ==
  ASSUME NEW t \in Seq(Char), NEW e \in Char, ~(Pending(t) /\ e = "slash"), OpensOrStays(t, e)
  PROVE  LET u == Append(t, e)
         IN  /\ Unfinished(u) = Unfinished(t) /\ BufOf(u) = BufOf(t) /\ NestingOf(u) = NestingOf(t)
             /\ NoneCompleted(t, u)
             /\ Commented(u)
<1>1. WithoutComments(Append(t, e)) = WithoutComments(t) /\ Commented(Append(t, e))
  BY WithoutGrows
<1>2. QED
  BY <1>1 DEF Unfinished, BufOf, NestingOf, WholeOf, CommandOf, NoneCompleted

(* A semicolon completes a command.                                        *)
LEMMA SemiGrows ==
  ASSUME NEW t \in Seq(Char), ~Commented(t)
  PROVE  LET u == Append(t, "semi")
         IN  /\ Unfinished(u) = <<>> /\ BufOf(u) = <<>> /\ NestingOf(u) = 0
             /\ WholeOf(u) = WholeOf(t) + 1
             /\ \A n \in 1 .. WholeOf(t) : CommandOf(u, n) = CommandOf(t, n)
             /\ CommandOf(u, WholeOf(t) + 1) = Trimmed(BufOf(t))
             /\ ~Commented(u)
<1> DEFINE e == "semi"
           w == WithoutComments(t)
           u == Append(t, e)
<1>1. e \in Char /\ ~OpensOrStays(t, e) /\ e # "slash"
  BY DEF Char, OpensOrStays
<1>2. WithoutComments(u) = Append(w, e) /\ w \in Seq(Char) /\ ~Commented(u)
  BY <1>1, WithoutGrows
<1> HIDE DEF w, u
<1>3. Semis(w) \in Nat /\ Semis(Append(w, e)) = Semis(w) + 1
  BY <1>1, <1>2, SemisFacts
<1>4. /\ \A n \in 1 .. Semis(w) : Piece(Append(w, e), n) = Piece(w, n)
      /\ Piece(Append(w, e), Semis(w) + 1) = Piece(w, Semis(w) + 1)
      /\ Piece(Append(w, e), Semis(w) + 2) = <<>>
  BY <1>1, <1>2, PieceGrows
<1>5. Unfinished(u) = <<>>
  <2>1. Semis(w) + 1 + 1 = Semis(w) + 2
    BY <1>3
  <2>2. QED
    BY <1>2, <1>3, <1>4, <2>1 DEF Unfinished
<1>6. BufOf(u) = <<>> /\ NestingOf(u) = 0
  BY <1>5, NothingRead DEF BufOf, NestingOf
<1>7. WholeOf(t) = Semis(w) /\ WholeOf(u) = Semis(w) + 1
  BY <1>2, <1>3 DEF WholeOf, w
<1>8. \A n \in 1 .. WholeOf(t) : CommandOf(u, n) = CommandOf(t, n)
  BY <1>2, <1>4, <1>7 DEF CommandOf, w
<1>9. CommandOf(u, WholeOf(t) + 1) = Trimmed(BufOf(t))
  BY <1>2, <1>4, <1>7 DEF CommandOf, Normal, BufOf, Unfinished, w
<1>10. QED
  BY <1>2, <1>5, <1>6, <1>7, <1>8, <1>9 DEF u

(* Any other character joins the unfinished command.                       *)
LEMMA WordGrows ==
  ASSUME NEW t \in Seq(Char), NEW e \in Char, ~(Pending(t) /\ e = "slash"), ~OpensOrStays(t, e),
         e # "semi"
  PROVE  LET u == Append(t, e)
         IN  /\ Unfinished(u) = Append(Unfinished(t), e)
             /\ NestingOf(u) = IF e = "open" THEN NestingOf(t) + 1
                               ELSE IF e = "close" THEN NestingOf(t) - 1 ELSE NestingOf(t)
             /\ BufOf(u) = Collapsed(Spaced(Unfinished(t)) \o SpacedChar(e, NestingOf(t)))
             /\ NoneCompleted(t, u)
             /\ ~Commented(u)
<1> DEFINE w == WithoutComments(t)
           u == Append(t, e)
<1>1. WithoutComments(u) = Append(w, e) /\ w \in Seq(Char) /\ ~Commented(u)
  BY WithoutGrows
<1> HIDE DEF w, u
<1>2. Semis(w) \in Nat /\ Semis(Append(w, e)) = Semis(w)
  BY <1>1, SemisFacts
<1>3. /\ \A n \in 1 .. Semis(w) : Piece(Append(w, e), n) = Piece(w, n)
      /\ Piece(Append(w, e), Semis(w) + 1) = Append(Piece(w, Semis(w) + 1), e)
  BY <1>1, PieceGrows
<1>4. Unfinished(u) = Append(Unfinished(t), e)
  BY <1>1, <1>2, <1>3 DEF Unfinished, w
<1>5. Unfinished(t) \in Seq(Char)
  BY UnfinishedType
<1>6. NestingOf(u) = IF e = "open" THEN NestingOf(t) + 1
                     ELSE IF e = "close" THEN NestingOf(t) - 1 ELSE NestingOf(t)
  BY <1>4, <1>5, DepthGrows DEF NestingOf
<1>7. BufOf(u) = Collapsed(Spaced(Unfinished(t)) \o SpacedChar(e, NestingOf(t)))
  BY <1>4, <1>5, SpacedGrows DEF BufOf, NestingOf
<1>8. WholeOf(t) = Semis(w) /\ WholeOf(u) = Semis(w)
  BY <1>1, <1>2 DEF WholeOf, w
<1>9. \A n \in 1 .. WholeOf(t) : CommandOf(u, n) = CommandOf(t, n)
  BY <1>1, <1>3, <1>8 DEF CommandOf, w
<1>10. QED
  BY <1>1, <1>4, <1>6, <1>7, <1>8, <1>9 DEF u, NoneCompleted

(* The buffer that goes with it.                                           *)
BlankAdded(b) == IF AtBlank(b) THEN b ELSE Append(b, "blank")

BufferAfter(b, e, d) ==
  CASE e \in {"blank", "eol"} -> IF d = 0 THEN BlankAdded(b) ELSE b
    [] e = "open"  -> Append(IF d = 0 THEN BlankAdded(b) ELSE b, "open")
    [] e = "close" -> IF d = 1 THEN b \o <<"close", "blank">> ELSE Append(b, "close")
    [] OTHER       -> Append(b, Upper(e))

(* It gets the new character, and the blanks the character calls for.      *)
LEMMA BufferGrows ==
  ASSUME NEW s \in Seq(Char), NEW e \in Char, NEW d \in Int
  PROVE  Collapsed(s \o SpacedChar(e, d)) = BufferAfter(Collapsed(s), e, d)
<1> DEFINE b == Collapsed(s)
<1>0. {"blank", "open", "close", "upper"} \subseteq Char /\ Upper(e) \in Char
  BY DEF Char, Upper
<1>1. b \in Seq(Char) /\ (AtBlank(b) <=> AtBlank(s))
  BY <1>0, CollapsedGrows, CollapsedEnds
<1> HIDE DEF b
<1>2. /\ \A x \in Char : s \o <<x>> = Append(s, x)
      /\ s \o <<>> = s
      /\ \A x \in Char, y \in Char : /\ s \o <<x, y>> = Append(Append(s, x), y)
                                    /\ b \o <<x, y>> = Append(Append(b, x), y)
  BY <1>1
<1>3. Collapsed(Append(s, "blank")) = BlankAdded(b)
  BY <1>0, <1>1, CollapsedGrows DEF BlankAdded, b
<1>4. ASSUME NEW x \in Char, x # "blank"
      PROVE  Collapsed(Append(s, x)) = Append(b, x) /\ ~AtBlank(Append(s, x))
  BY <1>4, CollapsedGrows, AppendFacts DEF b, AtBlank
<1>5. CASE e \in {"blank", "eol"}
  <2>1. SpacedChar(e, d) = IF d = 0 THEN <<"blank">> ELSE <<>>
    BY <1>5 DEF SpacedChar
  <2>2. CASE d = 0
    BY <1>0, <1>2, <1>3, <1>5, <2>1, <2>2 DEF b, BufferAfter
  <2>3. CASE d # 0
    BY <1>2, <1>5, <2>1, <2>3 DEF b, BufferAfter
  <2>4. QED
    BY <2>2, <2>3
<1>6. CASE e = "open"
  <2>1. SpacedChar(e, d) = IF d = 0 THEN <<"blank", "open">> ELSE <<"open">>
    BY <1>6 DEF SpacedChar
  <2>2. CASE d = 0
    <3> DEFINE v == Append(s, "blank")
    <3>1. v \in Seq(Char)
      BY <1>0, AppendFacts
    <3>2. Collapsed(Append(v, "open")) = Append(Collapsed(v), "open")
      <4> HIDE DEF v
      <4>1. QED
        BY <1>0, <3>1, CollapsedGrows
    <3>3. s \o SpacedChar(e, d) = Append(v, "open")
      BY <1>0, <1>2, <2>1, <2>2
    <3>4. Collapsed(s \o SpacedChar(e, d)) = Append(BlankAdded(b), "open")
      BY <1>3, <3>2, <3>3
    <3>5. QED
      BY <1>6, <2>2, <3>4 DEF b, BufferAfter
  <2>3. CASE d # 0
    BY <1>0, <1>2, <1>4, <1>6, <2>1, <2>3 DEF b, BufferAfter
  <2>4. QED
    BY <2>2, <2>3
<1>7. CASE e = "close"
  <2>1. SpacedChar(e, d) = IF d = 1 THEN <<"close", "blank">> ELSE <<"close">>
    BY <1>7 DEF SpacedChar
  <2>2. CASE d = 1
    <3> DEFINE v == Append(s, "close")
    <3>1. v \in Seq(Char) /\ Collapsed(v) = Append(b, "close") /\ ~AtBlank(v)
      BY <1>0, <1>4, AppendFacts
    <3>2. Collapsed(Append(v, "blank")) = Append(Collapsed(v), "blank")
      <4> HIDE DEF v
      <4>1. QED
        BY <1>0, <3>1, CollapsedGrows
    <3>3. s \o SpacedChar(e, d) = Append(v, "blank")
      BY <1>0, <1>2, <2>1, <2>2
    <3>4. b \o <<"close", "blank">> = Append(Append(b, "close"), "blank")
      BY <1>0, <1>2
    <3>5. Collapsed(s \o SpacedChar(e, d)) = b \o <<"close", "blank">>
      BY <3>1, <3>2, <3>3, <3>4
    <3>6. QED
      BY <1>7, <2>2, <3>5 DEF b, BufferAfter
  <2>3. CASE d # 1
    BY <1>0, <1>2, <1>4, <1>7, <2>1, <2>3 DEF b, BufferAfter
  <2>4. QED
    BY <2>2, <2>3
<1>8. CASE e \notin {"blank", "eol", "open", "close"}
  <2>1. SpacedChar(e, d) = <<Upper(e)>> /\ Upper(e) # "blank"
    BY <1>8 DEF SpacedChar, Upper
  <2>2. QED
    BY <1>0, <1>2, <1>4, <1>8, <2>1 DEF b, BufferAfter
<1>9. QED
  BY <1>5, <1>6, <1>7, <1>8

-----------------------------------------------------------------------------
(* What holds of every usual text: a comment, and whatever may come before *)
(* one, finds the buffer at a blank or within brackets, so that no blank   *)
(* is missing behind the comment; and the buffer ends in a slash only when *)
(* the text does, in one that another slash may still turn into a comment. *)
EndsInSlashOnly(b) == b # <<>> /\ b[Len(b)] = "slash"

FirstSlashOf(r, t) ==
  t = Append(r, "slash") /\ ~Commented(r) /\ ~Pending(r) /\ AtBlank(BufOf(r)) /\ NestingOf(r) = 0

Settled(t) ==
  /\ t \in Seq(Char)
  /\ Commented(t) \/ EndsQuietly(t) => AtBlank(BufOf(t)) \/ NestingOf(t) # 0
  /\ Pending(t) => \E r \in Seq(Char) : FirstSlashOf(r, t)
  /\ EndsInSlashOnly(BufOf(t)) => Pending(t)

(* An empty text is settled.                                               *)
LEMMA SettledInit == Settled(<<>>)
BY NothingRead DEF Settled, AtBlank, EndsInSlashOnly

(* A second slash: the first one leaves the buffer again.                  *)
LEMMA SecondSlash ==
  ASSUME NEW t, Settled(t), Pending(t)
  PROVE  LET u == Append(t, "slash")
         IN  /\ BufOf(t) = Append(BufOf(u), "slash") /\ AtBlank(BufOf(u))
             /\ NestingOf(u) = NestingOf(t) /\ NestingOf(t) = 0
             /\ NoneCompleted(t, u)
             /\ Commented(u)
<1>1. PICK r \in Seq(Char) : FirstSlashOf(r, t)
  BY DEF Settled
<1> DEFINE u == Append(t, "slash")
<1>2. "slash" \in Char /\ ~OpensOrStays(r, "slash") /\ Upper("slash") = "slash"
  BY <1>1 DEF Char, OpensOrStays, FirstSlashOf, Upper
<1>3. t = Append(r, "slash") /\ ~Commented(r) /\ ~Pending(r) /\ AtBlank(BufOf(r)) /\ NestingOf(r) = 0
  BY <1>1 DEF FirstSlashOf
<1>4. WithoutComments(u) = WithoutComments(r) /\ Commented(u)
  BY <1>3, SlashesVanish
<1>5. /\ BufOf(u) = BufOf(r) /\ NestingOf(u) = NestingOf(r) /\ NoneCompleted(r, u)
  BY <1>4 DEF BufOf, NestingOf, WholeOf, CommandOf, Unfinished, NoneCompleted
<1>6. /\ NestingOf(t) = NestingOf(r)
      /\ BufOf(t) = Collapsed(Spaced(Unfinished(r)) \o SpacedChar("slash", NestingOf(r)))
      /\ NoneCompleted(r, t)
  BY <1>2, <1>3, WordGrows
<1>7. Spaced(Unfinished(r)) \in Seq(Char)
  BY <1>2, UnfinishedType, SpacedGrows
<1>8. BufOf(t) = Append(BufOf(r), "slash")
  BY <1>2, <1>3, <1>6, <1>7, BufferGrows DEF BufOf, BufferAfter
<1>9. QED
  BY <1>3, <1>4, <1>5, <1>6, <1>8 DEF NoneCompleted

(* Together: what a character does to the buffer, when it neither opens a  *)
(* comment nor completes a command.                                        *)
LEMMA BufferFollows ==
  ASSUME NEW t \in Seq(Char), NEW e \in Char, ~(Pending(t) /\ e = "slash"), ~OpensOrStays(t, e),
         e # "semi"
  PROVE  BufOf(Append(t, e)) = BufferAfter(BufOf(t), e, NestingOf(t))
<1> DEFINE s == Spaced(Unfinished(t))
           d == NestingOf(t)
<1>1. s \in Seq(Char) /\ d \in Int /\ BufOf(t) = Collapsed(s)
  BY UnfinishedType, SpacedGrows DEF BufOf
<1>2. BufOf(Append(t, e)) = Collapsed(s \o SpacedChar(e, d))
  BY WordGrows
<1> HIDE DEF s, d
<1>3. BufOf(Append(t, e)) = BufferAfter(Collapsed(s), e, d)
  BY <1>1, <1>2, BufferGrows
<1>4. QED
  BY <1>1, <1>3 DEF d

(* The last character of what the buffer becomes.                          *)
LEMMA LastOnes ==
  ASSUME NEW b \in Seq(Char)
  PROVE  /\ AtBlank(BlankAdded(b)) /\ BlankAdded(b) \in Seq(Char)
         /\ AtBlank(b \o <<"close", "blank">>)
         /\ \A x \in Char : LET c == Append(b, x) IN c # <<>> /\ c[Len(c)] = x
         /\ AtBlank(b) => ~EndsInSlashOnly(b)
<1>1. {"blank", "close"} \subseteq Char
  BY DEF Char
<1>2. \A x \in Char : LET c == Append(b, x) IN c \in Seq(Char) /\ c # <<>> /\ c[Len(c)] = x
  OBVIOUS
<1>3. b \o <<"close", "blank">> = Append(Append(b, "close"), "blank") /\ Append(b, "close") \in Seq(Char)
  BY <1>1
<1>4. AtBlank(Append(Append(b, "close"), "blank"))
  BY <1>1, <1>3, AppendFacts DEF AtBlank
<1>5. AtBlank(BlankAdded(b)) /\ BlankAdded(b) \in Seq(Char)
  BY <1>1, <1>2 DEF AtBlank, BlankAdded
<1>6. AtBlank(b) => ~EndsInSlashOnly(b)
  BY DEF AtBlank, EndsInSlashOnly
<1>7. QED
  BY <1>2, <1>3, <1>4, <1>5, <1>6

(* A usual text stays settled, whatever usual character comes.             *)
LEMMA SettledNext ==
  ASSUME NEW t, Settled(t), NEW e \in UsualText(t)
  PROVE  Settled(Append(t, e))
<1> DEFINE u == Append(t, e)
<1>1. /\ t \in Seq(Char) /\ e \in Char /\ u \in Seq(Char) /\ u # <<>> /\ u[Len(u)] = e
      /\ Commented(t) \/ (WellPlacedComment(t, e) /\ Balanced(t, e))
  BY AppendFacts DEF Settled, UsualText
<1>2. BufOf(t) \in Seq(Char) /\ NestingOf(t) \in Int
  BY <1>1, UnfinishedType
<1> HIDE DEF u
<1>3. (EndsQuietly(u) <=> e \in {"blank", "eol", "semi", "close"}) /\ (EndsInSlash(u) <=> e = "slash")
  BY <1>1 DEF EndsQuietly, EndsInSlash
<1>4. Pending(t) => e = "slash"
  BY <1>1 DEF Pending, WellPlacedComment
<1>5. CASE Pending(t) /\ e = "slash"
  <2>1. Commented(u) /\ AtBlank(BufOf(u))
    BY <1>5, SecondSlash DEF u
  <2>2. QED
    BY <1>1, <2>1, UnfinishedType, LastOnes DEF Settled, Pending, u
<1>6. CASE ~(Pending(t) /\ e = "slash") /\ OpensOrStays(t, e)
  <2>1. Commented(u) /\ BufOf(u) = BufOf(t) /\ NestingOf(u) = NestingOf(t)
    BY <1>1, <1>6, CommentGrows DEF u
  <2>2. Commented(t) \/ EndsQuietly(t)
    <3>1. CASE Commented(t)
      BY <3>1
    <3>2. CASE ~Commented(t)
      <4>1. e = "bang" /\ WellPlacedComment(t, e)
        BY <1>1, <1>6, <3>2 DEF OpensOrStays
      <4>2. QED
        BY <4>1 DEF WellPlacedComment
    <3>3. QED
      BY <3>1, <3>2
  <2>3. ~Pending(t)
    BY <1>4, <1>6
  <2>4. QED
    BY <1>1, <2>1, <2>2, <2>3 DEF Settled, Pending, u
<1>7. CASE ~OpensOrStays(t, e) /\ e = "semi"
  <2>1. ~Commented(t)
    BY <1>7 DEF OpensOrStays
  <2>2. BufOf(u) = <<>>
    BY <1>1, <1>7, <2>1, SemiGrows DEF u
  <2>3. ~Pending(u)
    BY <1>3, <1>7 DEF Pending
  <2>4. QED
    BY <1>1, <2>2, <2>3 DEF Settled, AtBlank, EndsInSlashOnly, u
<1>8. CASE ~(Pending(t) /\ e = "slash") /\ ~OpensOrStays(t, e) /\ e # "semi"
  <2>1. /\ BufOf(u) = BufferAfter(BufOf(t), e, NestingOf(t))
    BY <1>1, <1>8, BufferFollows DEF u
  <2>2. /\ NestingOf(u) = IF e = "open" THEN NestingOf(t) + 1
                          ELSE IF e = "close" THEN NestingOf(t) - 1 ELSE NestingOf(t)
        /\ ~Commented(u)
    BY <1>1, <1>8, WordGrows DEF u
  <2>3. CASE e \in {"blank", "eol"}
    <3>1. ~Pending(u) /\ ~Pending(t)
      BY <1>3, <1>4, <2>3 DEF Pending
    <3>2. CASE NestingOf(t) = 0
      <4>1. BufOf(u) = BlankAdded(BufOf(t))
        BY <2>1, <2>3, <3>2 DEF BufferAfter
      <4>2. AtBlank(BufOf(u)) /\ ~EndsInSlashOnly(BufOf(u))
        BY <1>2, <4>1, LastOnes
      <4>3. QED
        BY <1>1, <3>1, <4>2 DEF Settled, u
    <3>3. CASE NestingOf(t) # 0
      <4>1. BufOf(u) = BufOf(t) /\ NestingOf(u) # 0
        BY <2>1, <2>2, <2>3, <3>3 DEF BufferAfter
      <4>2. ~EndsInSlashOnly(BufOf(u))
        BY <3>1, <4>1 DEF Settled
      <4>3. QED
        BY <1>1, <3>1, <4>1, <4>2 DEF Settled, u
    <3>4. QED
      BY <3>2, <3>3
  <2>4. CASE e = "open"
    <3>1. PICK b \in Seq(Char) : BufOf(u) = Append(b, "open")
      <4>1. BufOf(u) = Append(IF NestingOf(t) = 0 THEN BlankAdded(BufOf(t)) ELSE BufOf(t), "open")
        BY <2>1, <2>4 DEF BufferAfter
      <4>2. QED
        BY <1>2, <4>1, LastOnes
    <3>2. ~EndsInSlashOnly(BufOf(u))
      BY <1>1, <2>4, <3>1, LastOnes DEF EndsInSlashOnly
    <3>3. ~Pending(u) /\ ~EndsQuietly(u)
      BY <1>3, <2>4 DEF Pending
    <3>4. QED
      BY <1>1, <2>2, <3>2, <3>3 DEF Settled, u
  <2>5. CASE e = "close"
    <3>1. ~Pending(u)
      BY <1>3, <2>5 DEF Pending
    <3>2. CASE NestingOf(t) = 1
      <4>1. BufOf(u) = BufOf(t) \o <<"close", "blank">> /\ BufOf(u) \in Seq(Char)
        BY <1>1, <2>1, <2>5, <3>2, UnfinishedType DEF BufferAfter
      <4>2. AtBlank(BufOf(u))
        BY <1>2, <4>1, LastOnes
      <4>3. QED
        BY <1>1, <3>1, <4>1, <4>2, LastOnes DEF Settled, u
    <3>3. CASE NestingOf(t) # 1
      <4>1. BufOf(u) = Append(BufOf(t), "close") /\ NestingOf(u) # 0
        BY <1>2, <2>1, <2>2, <2>5, <3>3 DEF BufferAfter
      <4>2. ~EndsInSlashOnly(BufOf(u))
        BY <1>1, <1>2, <2>5, <4>1, LastOnes DEF EndsInSlashOnly
      <4>3. QED
        BY <1>1, <3>1, <4>1, <4>2 DEF Settled, u
    <3>4. QED
      BY <3>2, <3>3
  <2>6. CASE e = "slash"
    <3>1. ~Commented(t) /\ ~Pending(t)
      BY <1>8, <2>6 DEF OpensOrStays
    <3>2. WellPlacedComment(t, e) /\ Balanced(t, e)
      BY <1>1, <3>1
    <3>3. EndsQuietly(t)
      BY <2>6, <3>1, <3>2 DEF WellPlacedComment, Pending
    <3>4. NestingOf(t) = 0
      BY <2>6, <3>2 DEF Balanced, NestingOf
    <3>5. AtBlank(BufOf(t))
      BY <3>3, <3>4 DEF Settled
    <3>6. FirstSlashOf(t, u)
      BY <2>6, <3>1, <3>4, <3>5 DEF FirstSlashOf, u
    <3>7. Pending(u) /\ ~EndsQuietly(u)
      BY <1>3, <2>2, <2>6 DEF Pending
    <3>8. QED
      BY <1>1, <2>2, <3>6, <3>7 DEF Settled, u
  <2>7. CASE e \notin {"blank", "eol", "open", "close", "slash"}
    <3>1. e \in {"lower", "upper"}
      BY <1>1, <1>8, <2>7 DEF Char, OpensOrStays
    <3>2. BufOf(u) = Append(BufOf(t), "upper") /\ "upper" \in Char
      BY <2>1, <3>1 DEF Upper, Char, BufferAfter
    <3>3. ~EndsInSlashOnly(BufOf(u))
      BY <1>2, <3>2, LastOnes DEF EndsInSlashOnly
    <3>4. ~Pending(u) /\ ~EndsQuietly(u)
      BY <1>3, <3>1 DEF Pending
    <3>5. QED
      BY <1>1, <2>2, <3>3, <3>4 DEF Settled, u
  <2>8. QED
    BY <2>3, <2>4, <2>5, <2>6, <2>7
<1>9. QED
  BY <1>5, <1>6, <1>7, <1>8 DEF u

-----------------------------------------------------------------------------
(* The inductive invariant of the reader's work: what has been delivered   *)
(* are the commands of the text read so far, and while more may come, the  *)
(* statics say where in that text the reader is.                           *)
TextIsUsual == \A t \in Seq(Char) : Follow(t) \subseteq UsualText(t)

Delivered(t, o) == Len(o) = WholeOf(t) /\ \A n \in 1 .. Len(o) : Trimmed(o[n]) = CommandOf(t, n)

Follows(t, b, brackets, comment) ==
  Settled(t) /\ b = BufOf(t) /\ brackets = NestingOf(t) /\ (comment <=> Commented(t))

Live == Reading \/ (pc = "between" /\ rc = 0)

ReadingInv ==
  /\ Delivered(fed, out)
  /\ pc = "file" => result = "none"
  /\ Live => Follows(fed, buf, braket_mode, comment_mode)

(* Statics at rest follow a text of which nothing has been read.           *)
LEMMA FreshSource ==
  /\ Delivered(<<>>, <<>>)
  /\ Follows(<<>>, <<>>, 0, FALSE)
<1>1. Len(<<>>) = 0 /\ 1 .. 0 = {}
  OBVIOUS
<1>2. QED
  BY <1>1, NothingRead, SettledInit DEF Delivered, Follows

(* ReadingInv holds initially.                                             *)
LEMMA ReadingInit == Init => ReadingInv
BY FreshSource DEF Init, ReadingInv, Live, Reading

(* The byte that is taken is one a usual text may have.                    *)
LEMMA TakesUsual ==
  ASSUME TypeOK, ReadingInv, TextIsUsual, NEW ch \in Bytes, Take(ch)
  PROVE  /\ Follows(fed, buf, braket_mode, comment_mode) /\ Delivered(fed, out)
         /\ fed \in Seq(Char) /\ ch \in UsualText(fed) /\ ch \in Char
         /\ fed' = Append(fed, ch) /\ Settled(fed')
         /\ buf \in Seq(Char) /\ braket_mode \in Int
<1>1. fed \in Seq(Char) /\ ch \in Char
  BY BytesAssumption DEF TypeOK
<1>2. Reading /\ ch \in Follow(fed) /\ fed' = Append(fed, ch)
  BY DEF Take
<1>3. Follows(fed, buf, braket_mode, comment_mode) /\ Delivered(fed, out)
  BY <1>2 DEF ReadingInv, Live
<1>4. ch \in UsualText(fed)
  BY <1>1, <1>2 DEF TextIsUsual
<1>5. Settled(fed')
  BY <1>2, <1>3, <1>4, SettledNext DEF Follows
<1>6. buf \in Seq(Char) /\ braket_mode \in Int
  BY <1>1, <1>3, UnfinishedType DEF Follows
<1>7. QED
  BY <1>1, <1>2, <1>3, <1>4, <1>5, <1>6

(* A byte that completes no command, when the statics follow the text.     *)
LEMMA StaysInText ==
  ASSUME ReadingInv, NEW b, NEW brackets, NEW comment, Goes(b, brackets, comment),
         Follows(fed', b, brackets, comment),
         NoneCompleted(fed, fed')
  PROVE  ReadingInv'
<1>1. /\ buf' = b /\ braket_mode' = brackets /\ comment_mode' = comment
      /\ out' = out /\ pc' = pc /\ result' = result
  BY DEF Goes
<1>2. Delivered(fed', out')
  BY <1>1 DEF ReadingInv, Delivered, NoneCompleted
<1>3. Follows(fed', buf', braket_mode', comment_mode')
  BY <1>1
<1>4. pc' = "file" => result' = "none"
  BY <1>1 DEF ReadingInv
<1>5. QED
  BY <1>2, <1>3, <1>4 DEF ReadingInv

(* The code's separator is the reference's blank outside the brackets.     *)
LEMMA SeparatedIs ==
  ASSUME buf \in Seq(Char)
  PROVE  Separated = IF braket_mode = 0 THEN BlankAdded(buf) ELSE buf
BY DEF Separated, BlankAdded, AtBlank, EndsIn

(* Every byte preserves ReadingInv, and is added to what has been read.    *)
LEMMA ByteKeeps ==
  ASSUME TypeOK, ReadingInv, TextIsUsual, NEW ch \in Bytes, ReadByte(ch)
  PROVE  ReadingInv' /\ fed' = Append(fed, ch)
<1>0. Take(ch)
  BY DEF ReadByte, Skip, Blank, BangComment, SlashComment, OpenBracket, CloseBracket, Word,
         CommandRuns, CommandFails
<1> DEFINE u == Append(fed, ch)
<1>1. /\ fed \in Seq(Char) /\ ch \in UsualText(fed) /\ ch \in Char
      /\ fed' = u /\ Settled(u) /\ Settled(fed)
      /\ buf \in Seq(Char) /\ braket_mode \in Int
      /\ buf = BufOf(fed) /\ braket_mode = NestingOf(fed) /\ (comment_mode <=> Commented(fed))
      /\ Delivered(fed, out)
  BY <1>0, TakesUsual DEF Follows
<1>2. ~comment_mode => WellPlacedComment(fed, ch) /\ Balanced(fed, ch)
  BY <1>1 DEF UsualText
<1>3. comment_mode \in BOOLEAN
  BY DEF TypeOK
<1>4. EndsIn("slash") <=> EndsInSlashOnly(BufOf(fed))
  BY <1>1 DEF EndsIn, EndsInSlashOnly
<1>5. Pending(fed) => EndsInSlashOnly(BufOf(fed)) /\ ~comment_mode /\ (~comment_mode => ch = "slash")
  <2> SUFFICES ASSUME Pending(fed)
               PROVE  EndsInSlashOnly(BufOf(fed)) /\ ~comment_mode /\ (~comment_mode => ch = "slash")
    OBVIOUS
  <2>1. ~Commented(fed) /\ EndsInSlash(fed)
    BY DEF Pending
  <2>2. BufOf(fed) = Append(BufOf(Append(fed, "slash")), "slash")
    BY <1>1, SecondSlash
  <2>3. "slash" \in Char /\ Append(fed, "slash") \in Seq(Char)
    BY <1>1 DEF Char
  <2>4. EndsInSlashOnly(BufOf(fed))
    BY <2>2, <2>3, UnfinishedType, LastOnes DEF EndsInSlashOnly
  <2>5. QED
    BY <1>1, <1>2, <2>1, <2>4 DEF WellPlacedComment
<1>6. EndsIn("slash") <=> Pending(fed)
  BY <1>1, <1>4, <1>5 DEF Settled
<1> HIDE DEF u
<1>7. CASE Skip(ch) /\ ch # "eol"
  <2>1. Goes(buf, braket_mode, TRUE)
    BY <1>7 DEF Skip
  <2>2. OpensOrStays(fed, ch) /\ ~Pending(fed)
    BY <1>1, <1>7 DEF Skip, OpensOrStays, Pending
  <2>3. /\ BufOf(u) = BufOf(fed) /\ NestingOf(u) = NestingOf(fed) /\ Commented(u)
        /\ NoneCompleted(fed, u)
    BY <1>1, <2>2, CommentGrows DEF u
  <2>4. Follows(fed', buf, braket_mode, TRUE)
    BY <1>1, <2>3 DEF Follows
  <2>5. QED
    BY <1>1, <2>1, <2>3, <2>4, StaysInText DEF u
<1>8. CASE Skip(ch) /\ ch = "eol"
  <2>1. Goes(buf, braket_mode, FALSE) /\ comment_mode
    BY <1>8 DEF Skip
  <2>2. ~OpensOrStays(fed, ch) /\ ~Pending(fed) /\ Commented(fed) /\ ch # "semi"
    BY <1>1, <1>8, <2>1 DEF OpensOrStays, Pending
  <2>3. /\ NestingOf(u) = NestingOf(fed) /\ ~Commented(u)
        /\ NoneCompleted(fed, u)
    BY <1>1, <1>8, <2>2, WordGrows DEF u
  <2>4. BufOf(u) = IF NestingOf(fed) = 0 THEN BlankAdded(BufOf(fed)) ELSE BufOf(fed)
    BY <1>1, <1>8, <2>2, BufferFollows DEF u, BufferAfter
  <2>5. NestingOf(fed) = 0 => AtBlank(BufOf(fed))
    BY <1>1, <2>2 DEF Settled
  <2>6. BufOf(u) = BufOf(fed)
    BY <2>4, <2>5 DEF BlankAdded
  <2>7. Follows(fed', buf, braket_mode, FALSE)
    BY <1>1, <2>3, <2>6 DEF Follows
  <2>8. QED
    BY <1>1, <2>1, <2>3, <2>7, StaysInText DEF u
<1>9. CASE Blank(ch)
  <2>1. ~comment_mode /\ ch \in {"blank", "eol"} /\ Goes(Separated, braket_mode, FALSE)
    BY <1>9 DEF Blank
  <2>2. ~OpensOrStays(fed, ch) /\ ~(Pending(fed) /\ ch = "slash") /\ ch \notin {"semi", "open", "close"}
    BY <1>1, <2>1 DEF OpensOrStays
  <2>3. /\ NestingOf(u) = NestingOf(fed) /\ ~Commented(u)
        /\ NoneCompleted(fed, u)
    BY <1>1, <2>2, WordGrows DEF u
  <2>4. BufOf(u) = IF NestingOf(fed) = 0 THEN BlankAdded(BufOf(fed)) ELSE BufOf(fed)
    BY <1>1, <2>1, <2>2, BufferFollows DEF u, BufferAfter
  <2>5. Follows(fed', Separated, braket_mode, FALSE)
    BY <1>1, <2>3, <2>4, SeparatedIs DEF Follows
  <2>6. QED
    BY <1>1, <2>1, <2>3, <2>5, StaysInText DEF u
<1>10. CASE BangComment(ch)
  <2>1. ~comment_mode /\ ch = "bang" /\ Goes(buf, braket_mode, TRUE)
    BY <1>10 DEF BangComment
  <2>2. OpensOrStays(fed, ch) /\ ~(Pending(fed) /\ ch = "slash")
    BY <2>1 DEF OpensOrStays
  <2>3. /\ BufOf(u) = BufOf(fed) /\ NestingOf(u) = NestingOf(fed) /\ Commented(u)
        /\ NoneCompleted(fed, u)
    BY <1>1, <2>2, CommentGrows DEF u
  <2>4. Follows(fed', buf, braket_mode, TRUE)
    BY <1>1, <2>3 DEF Follows
  <2>5. QED
    BY <1>1, <2>1, <2>3, <2>4, StaysInText DEF u
<1>11. CASE SlashComment(ch)
  <2>1. ch = "slash" /\ Pending(fed) /\ Goes(SubSeq(buf, 1, Len(buf) - 1), braket_mode, TRUE)
    BY <1>6, <1>11 DEF SlashComment
  <2>2. /\ BufOf(fed) = Append(BufOf(u), "slash") /\ NestingOf(u) = NestingOf(fed) /\ Commented(u)
        /\ NoneCompleted(fed, u)
    BY <1>1, <2>1, SecondSlash DEF u
  <2>3. BufOf(u) \in Seq(Char) /\ "slash" \in Char
    BY <1>1, <2>1, UnfinishedType, AppendFacts DEF u
  <2>4. SubSeq(Append(BufOf(u), "slash"), 1, Len(Append(BufOf(u), "slash")) - 1) = BufOf(u)
    <3> DEFINE b == BufOf(u)
    <3> HIDE DEF b
    <3>1. b \in Seq(Char)
      BY <2>3 DEF b
    <3>2. SubSeq(Append(b, "slash"), 1, Len(Append(b, "slash")) - 1) = b
      BY <2>3, <3>1
    <3>3. QED
      BY <3>2 DEF b
  <2>5. Follows(fed', SubSeq(buf, 1, Len(buf) - 1), braket_mode, TRUE)
    BY <1>1, <2>2, <2>4 DEF Follows
  <2>6. QED
    BY <1>1, <2>1, <2>2, <2>5, StaysInText DEF u
<1>12. CASE OpenBracket(ch)
  <2>1. ~comment_mode /\ ch = "open" /\ Goes(Append(Separated, ch), braket_mode + 1, FALSE)
    BY <1>12 DEF OpenBracket
  <2>2. ~OpensOrStays(fed, ch) /\ ~(Pending(fed) /\ ch = "slash") /\ ch # "semi"
    BY <1>1, <2>1 DEF OpensOrStays
  <2>3. /\ NestingOf(u) = NestingOf(fed) + 1 /\ ~Commented(u)
        /\ NoneCompleted(fed, u)
    BY <1>1, <2>1, <2>2, WordGrows DEF u
  <2>4. BufOf(u) = Append(IF NestingOf(fed) = 0 THEN BlankAdded(BufOf(fed)) ELSE BufOf(fed), "open")
    BY <1>1, <2>1, <2>2, BufferFollows DEF u, BufferAfter
  <2>5. Follows(fed', Append(Separated, ch), braket_mode + 1, FALSE)
    BY <1>1, <2>1, <2>3, <2>4, SeparatedIs DEF Follows
  <2>6. QED
    BY <1>1, <2>1, <2>3, <2>5, StaysInText DEF u
<1>13. CASE CloseBracket(ch)
  <2> DEFINE b == IF braket_mode = 1 THEN buf \o <<ch, "blank">> ELSE Append(buf, ch)
  <2>1. ~comment_mode /\ ch = "close" /\ Goes(b, braket_mode - 1, FALSE)
    BY <1>13 DEF CloseBracket
  <2>2. ~OpensOrStays(fed, ch) /\ ~(Pending(fed) /\ ch = "slash") /\ ch # "semi"
    BY <1>1, <2>1 DEF OpensOrStays
  <2>3. /\ NestingOf(u) = NestingOf(fed) - 1 /\ ~Commented(u)
        /\ NoneCompleted(fed, u)
    BY <1>1, <2>1, <2>2, WordGrows DEF u
  <2>4. BufOf(u) = IF NestingOf(fed) = 1 THEN BufOf(fed) \o <<"close", "blank">>
                                         ELSE Append(BufOf(fed), "close")
    BY <1>1, <2>1, <2>2, BufferFollows DEF u, BufferAfter
  <2>5. Follows(fed', b, braket_mode - 1, FALSE)
    BY <1>1, <2>1, <2>3, <2>4 DEF Follows
  <2>6. QED
    BY <1>1, <2>1, <2>3, <2>5, StaysInText DEF u
<1>14. CASE Word(ch)
  <2>1. /\ ~comment_mode /\ ch \in {"lower", "upper", "slash"} /\ ~(Pending(fed) /\ ch = "slash")
        /\ Goes(Append(buf, ToUpper(ch)), braket_mode, FALSE)
    BY <1>6, <1>14 DEF Word
  <2>2. ~OpensOrStays(fed, ch) /\ ch # "semi" /\ Upper(ch) = ToUpper(ch)
    BY <1>1, <2>1 DEF OpensOrStays, Upper, ToUpper
  <2>3. /\ NestingOf(u) = NestingOf(fed) /\ ~Commented(u)
        /\ NoneCompleted(fed, u)
    BY <1>1, <2>1, <2>2, WordGrows DEF u
  <2>4. BufOf(u) = Append(BufOf(fed), Upper(ch))
    BY <1>1, <2>1, <2>2, BufferFollows DEF u, BufferAfter
  <2>5. Follows(fed', Append(buf, ToUpper(ch)), braket_mode, FALSE)
    BY <1>1, <2>2, <2>3, <2>4 DEF Follows
  <2>6. QED
    BY <1>1, <2>1, <2>3, <2>5, StaysInText DEF u
<1>15. CASE CommandRuns(ch) \/ CommandFails(ch)
  <2>1. ~comment_mode /\ ch = "semi" /\ Deliver
    BY <1>15 DEF CommandRuns, CommandFails
  <2>2. ~Commented(fed) /\ NestingOf(fed) = 0
    BY <1>1, <1>2, <2>1 DEF Balanced, NestingOf
  <2>3. /\ BufOf(u) = <<>> /\ NestingOf(u) = 0 /\ WholeOf(u) = WholeOf(fed) + 1
        /\ \A n \in 1 .. WholeOf(fed) : CommandOf(u, n) = CommandOf(fed, n)
        /\ CommandOf(u, WholeOf(fed) + 1) = Trimmed(BufOf(fed)) /\ ~Commented(u)
    BY <1>1, <2>1, <2>2, SemiGrows DEF u
  <2>4. out' = Append(out, buf) /\ buf' = <<>> /\ braket_mode' = 0 /\ comment_mode' = FALSE
    BY <1>1, <2>1, <2>2 DEF Deliver
  <2>5. Delivered(fed', out')
    <3>1. /\ Len(out') = Len(out) + 1 /\ Len(out) \in Nat /\ out'[Len(out) + 1] = buf
          /\ \A n \in 1 .. Len(out) : out'[n] = out[n]
      BY <2>4 DEF TypeOK
    <3>2. Len(out) = WholeOf(fed) /\ \A n \in 1 .. Len(out) : Trimmed(out[n]) = CommandOf(fed, n)
      BY <1>1 DEF Delivered
    <3>3. ASSUME NEW n \in 1 .. Len(out') PROVE Trimmed(out'[n]) = CommandOf(u, n)
      <4>1. CASE n = Len(out) + 1
        BY <1>1, <2>3, <3>1, <3>2, <4>1
      <4>2. CASE n # Len(out) + 1
        BY <2>3, <3>1, <3>2, <4>2
      <4>3. QED
        BY <4>1, <4>2
    <3>4. QED
      BY <1>1, <2>3, <3>1, <3>2, <3>3 DEF Delivered
  <2>6. Follows(fed', buf', braket_mode', comment_mode')
    BY <1>1, <2>3, <2>4 DEF Follows
  <2>7. pc' = "file" => result' = "none"
    BY <1>15 DEF CommandRuns, CommandFails, ReadingInv
  <2>8. QED
    BY <1>1, <2>5, <2>6, <2>7 DEF ReadingInv, u
<1>16. QED
  BY <1>1, <1>7, <1>8, <1>9, <1>10, <1>11, <1>12, <1>13, <1>14, <1>15 DEF ReadByte, u

(* Everything else either leaves the text alone or begins another.         *)
NewSource == fed' = <<>> /\ out' = <<>>

(* So do the ends of packets and files, the errors, and new sources.       *)
LEMMA OtherStepsKeep ==
  ASSUME CleanHandover, TypeOK, ReadingInv, AllocFails \/ Upload \/ File \/ UNCHANGED vars
  PROVE  ReadingInv' /\ (NewSource \/ UNCHANGED <<fed, out>>)
<1>1. CASE AllocFails
  BY <1>1 DEF AllocFails, ReadingInv, Live, Reading
<1>2. CASE StartUpload
  BY <1>2, FreshSource DEF StartUpload, ReadingInv, NewSource
<1>3. CASE PacketEnds \/ NextPacket
  BY <1>3 DEF PacketEnds, NextPacket, ReadingInv, Live, Reading
<1>4. CASE FinishUpload \/ BreakUpload \/ FileEnds \/ FileEndsEarly
  BY <1>4 DEF FinishUpload, BreakUpload, FileEnds, FileEndsEarly, ReadingInv, Live, Reading
<1>5. CASE StartFile
  <2>1. buf = <<>> /\ buf' = <<>> /\ braket_mode' = 0 /\ comment_mode' = FALSE
    BY <1>5 DEF StartFile, TypeOK
  <2>2. QED
    BY <1>5, <2>1, FreshSource DEF StartFile, ReadingInv, NewSource
<1>6. CASE UNCHANGED vars
  BY <1>6 DEF vars, ReadingInv, Live, Reading
<1>7. QED
  BY <1>1, <1>2, <1>3, <1>4, <1>5, <1>6 DEF Upload, File

(* ReadingInv is inductive, given TypeOK.                                  *)
LEMMA ReadingNext ==
  ASSUME CleanHandover, TextIsUsual, TypeOK, ReadingInv, [Next]_vars
  PROVE  /\ ReadingInv'
         /\ \/ \E ch \in Char : fed' = Append(fed, ch)
            \/ NewSource
            \/ UNCHANGED <<fed, out>>
<1>1. CASE \E ch \in Bytes : ReadByte(ch)
  BY <1>1, ByteKeeps, BytesAssumption
<1>2. CASE AllocFails \/ Upload \/ File \/ UNCHANGED vars
  BY <1>2, OtherStepsKeep
<1>3. QED
  BY <1>1, <1>2 DEF Next

(* What read_command has returned, and where its statics stand, is at      *)
(* every moment what the text read so far says.                            *)
THEOREM ReadingInvHolds ==
  ASSUME CleanHandover, TextIsUsual PROVE Spec => [](TypeOK /\ ReadingInv)
<1>1. Init => ReadingInv
  BY ReadingInit
<1>2. TypeOK /\ ReadingInv /\ [Next]_vars => ReadingInv'
  BY ReadingNext
<1>3. BufferInv => TypeOK
  BY DEF BufferInv
<1>4. QED
  BY <1>1, <1>2, <1>3, BufferInvHolds, PTL DEF Spec

-----------------------------------------------------------------------------
(* The abstract specification speaks of the same reference: its operators  *)
(* are those of SvfText.                                                   *)
LEMMA SameParts ==
  ASSUME NEW t
  PROVE  /\ Source!FlattenSeq(t) = FlattenSeq(t)
         /\ Source!Cardinality(t) = Cardinality(t)
<1>1. Source!FlattenSeq(t) = FlattenSeq(t)
  BY DEF FlattenSeq, Source!FlattenSeq
<1>2. Source!Cardinality(t) = Cardinality(t)
  BY DEF Cardinality, Source!Cardinality
<1>3. QED
  BY <1>1, <1>2

(* ... what is kept of a text,                                             *)
LEMMA SameKept == ASSUME NEW t, NEW K PROVE Source!Kept(t, K) = Kept(t, K)
BY SameParts DEF Kept, Source!Kept

(* ... its pieces,                                                         *)
LEMMA SamePieces ==
  ASSUME NEW t, NEW n
  PROVE  Source!Piece(t, n) = Piece(t, n) /\ Source!Semis(t) = Semis(t)
<1>1. ASSUME NEW k PROVE Source!SemisBefore(t, k) = SemisBefore(t, k)
  BY SameParts DEF SemisBefore, Source!SemisBefore
<1>2. QED
  BY <1>1, SameKept DEF Piece, Source!Piece, Semis, Source!Semis

(* ... how a piece is normalised,                                          *)
LEMMA SameNormal == ASSUME NEW t PROVE Source!Normal(t) = Normal(t)
<1>1. ASSUME NEW k PROVE Source!DepthAt(t, k) = DepthAt(t, k)
  BY SameParts DEF DepthAt, Source!DepthAt
<1>2. ASSUME NEW ch, NEW d PROVE Source!SpacedChar(ch, d) = SpacedChar(ch, d)
  BY DEF SpacedChar, Source!SpacedChar, Upper, Source!Upper
<1>3. Source!Spaced(t) = Spaced(t)
  BY <1>1, <1>2, SameParts DEF Spaced, Source!Spaced
<1>4. ASSUME NEW s PROVE Source!Collapsed(s) = Collapsed(s)
  BY SameKept DEF Collapsed, Source!Collapsed
<1>5. ASSUME NEW s PROVE Source!Trimmed(s) = Trimmed(s)
  BY DEF Trimmed, Source!Trimmed, Last, Source!Last, Front, Source!Front
<1>6. QED
  BY <1>3, <1>4, <1>5 DEF Normal, Source!Normal

(* ... and so its commands.                                                *)
LEMMA SameCommands == ASSUME NEW t PROVE Source!CommandsOf(t) = CommandsOf(t)
<1>1. ASSUME NEW k PROVE Source!InComment(t, k) = InComment(t, k)
  BY DEF InComment, Source!InComment, OpensComment, Source!OpensComment
<1>2. Source!WithoutComments(t) = WithoutComments(t)
  BY <1>1, SameKept DEF WithoutComments, Source!WithoutComments
<1>3. QED
  BY <1>2, SamePieces, SameNormal DEF CommandsOf, Source!CommandsOf

(* What has been delivered are the commands of the text.                   *)
LEMMA DeliveredCommands ==
  ASSUME NEW t \in Seq(Char), NEW o, Len(o) \in Nat, DOMAIN o = 1 .. Len(o), Delivered(t, o)
  PROVE  [n \in DOMAIN o |-> Trimmed(o[n])] = Source!CommandsOf(t)
<1>1. CommandsOf(t) = [n \in 1 .. WholeOf(t) |-> CommandOf(t, n)]
  BY DEF CommandsOf, WholeOf, CommandOf
<1>2. QED
  BY <1>1, SameCommands DEF Delivered

(* The reader implements SvfSource, whatever the text, the packets it is   *)
(* cut into and the sources that came before it: read_command returns the  *)
(* commands of the text, and at every moment those of what it has read.    *)
THEOREM ImplementsSourceAlways ==
  ASSUME CleanHandover, TextIsUsual PROVE Spec => ImplementsSource
<1> DEFINE cmds == [n \in DOMAIN out |-> Trimmed(out[n])]
<1>1. Init => Source!SourceInit
  BY DEF Init, Source!SourceInit
<1>2. ASSUME TypeOK, ReadingInv, TypeOK', ReadingInv', [Next]_vars
      PROVE  [Source!OpenSource \/ Source!ReadOne]_<<fed, cmds>>
  <2>1. CASE \E ch \in Char : fed' = Append(fed, ch)
    <3>1. fed' \in Seq(Char) /\ Len(out') \in Nat /\ DOMAIN out' = 1 .. Len(out')
      BY <1>2, BytesAssumption DEF TypeOK
    <3>2. Delivered(fed', out')
      BY <1>2 DEF ReadingInv
    <3>3. cmds' = Source!CommandsOf(fed')
      BY <3>1, <3>2, DeliveredCommands
    <3>4. Source!Char = Char
      BY DEF Char, Source!Char
    <3>5. Source!ReadOne
      BY <2>1, <3>3, <3>4 DEF Source!ReadOne
    <3>6. QED
      BY <3>5
  <2>2. CASE NewSource
    BY <2>2 DEF NewSource, Source!OpenSource
  <2>3. CASE UNCHANGED <<fed, out>>
    BY <2>3
  <2>4. QED
    BY <1>2, <2>1, <2>2, <2>3, ReadingNext
<1>3. QED
  BY <1>1, <1>2, ReadingInvHolds, PTL DEF Spec, ImplementsSource, Source!SourceSpec

-----------------------------------------------------------------------------
(* Nothing is left of a text exactly when the buffer is empty.             *)
LEMMA RestIsBuffer ==
  ASSUME NEW t \in Seq(Char)
  PROVE  RestOf(t) = <<>> <=> BufOf(t) = <<>>
<1> DEFINE b == BufOf(t)
<1>1. RestOf(t) = Trimmed(b)
  BY DEF RestOf, Normal, BufOf
<1>2. b \in Seq(Char) /\ (b # <<>> => b[1] # "blank")
  <2>1. Spaced(Unfinished(t)) \in Seq(Char)
    <3>1. "eol" \in Char /\ Unfinished(t) \in Seq(Char)
      BY UnfinishedType DEF Char
    <3>2. QED
      BY <3>1, SpacedGrows
  <2>2. QED
    BY <2>1, UnfinishedType, CollapsedEnds DEF BufOf
<1> HIDE DEF b
<1>3. CASE b = <<>>
  BY <1>1, <1>3 DEF Trimmed, b
<1>4. CASE b # <<>> /\ b[Len(b)] = "blank"
  <2>1. Len(b) \in Nat /\ Len(b) > 1
    BY <1>2, <1>4
  <2>2. Len(SubSeq(b, 1, Len(b) - 1)) = Len(b) - 1
    BY <1>2, <2>1
  <2>3. Trimmed(b) = SubSeq(b, 1, Len(b) - 1)
    BY <1>4 DEF Trimmed, Last, Front
  <2>4. Trimmed(b) # <<>>
    <3>1. Len(Trimmed(b)) > 0 /\ Len(<<>>) = 0
      BY <2>1, <2>2, <2>3
    <3>2. QED
      BY <3>1
  <2>5. QED
    BY <1>1, <1>4, <2>4 DEF b
<1>5. CASE b # <<>> /\ b[Len(b)] # "blank"
  BY <1>1, <1>5 DEF Trimmed, Last, b
<1>6. QED
  BY <1>3, <1>4, <1>5

(* read_command answers 0 at the end of a file that is complete, and -1 at *)
(* the end of one that breaks off within a command.                        *)
THEOREM FileEndVerdictAlways ==
  ASSUME CleanHandover, TextIsUsual PROVE Spec => FileEndVerdict
<1>1. ASSUME TypeOK, ReadingInv, pc = "file"
      PROVE  /\ RestOf(fed) = <<>> <=> buf = <<>>
             /\ result = "none"
  <2>1. fed \in Seq(Char)
    BY <1>1, BytesAssumption DEF TypeOK
  <2>2. buf = BufOf(fed) /\ result = "none"
    BY <1>1 DEF ReadingInv, Live, Reading, Follows
  <2>3. QED
    BY <2>1, <2>2, RestIsBuffer
<1>2. ASSUME TypeOK, ReadingInv, [Next]_vars, pc = "file", result' = "ok"
      PROVE  RestOf(fed) = <<>>
  <2>1. CASE FileEnds
    BY <1>1, <1>2, <2>1 DEF FileEnds
  <2>2. CASE FileEndsEarly
    BY <1>2, <2>2 DEF FileEndsEarly
  <2>3. CASE \E ch \in Bytes : ReadByte(ch)
    BY <1>1, <1>2, <2>3 DEF ReadByte, Skip, Blank, BangComment, SlashComment, OpenBracket,
       CloseBracket, Word, CommandRuns, CommandFails, Goes
  <2>4. CASE AllocFails
    BY <1>1, <1>2, <2>4 DEF AllocFails
  <2>5. CASE Upload \/ StartFile
    BY <1>2, <2>5 DEF Upload, StartUpload, PacketEnds, NextPacket, FinishUpload, BreakUpload, StartFile
  <2>6. CASE UNCHANGED vars
    BY <1>1, <1>2, <2>6 DEF vars
  <2>7. QED
    BY <1>2, <2>1, <2>2, <2>3, <2>4, <2>5, <2>6 DEF Next, File
<1>3. ASSUME TypeOK, ReadingInv, FileEndsEarly PROVE RestOf(fed) # <<>>
  BY <1>1, <1>3 DEF FileEndsEarly
<1>4. TypeOK /\ ReadingInv /\ [Next]_vars =>
        [/\ pc = "file" /\ result' = "ok" => RestOf(fed) = <<>>
         /\ FileEndsEarly => RestOf(fed) # <<>>]_vars
  BY <1>2, <1>3
<1>5. QED
  BY <1>4, ReadingInvHolds, PTL DEF Spec, FileEndVerdict
=============================================================================
