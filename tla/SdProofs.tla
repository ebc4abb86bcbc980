------------------------------ MODULE SdProofs ------------------------------
(***************************************************************************)
(* Proofs about two parts of websvf_sd that loop() drives: the directory   *)
(* browser, whose screen shows the listing with the cursor's entry lit, so *)
(* that a key programs the entry lit, for every card, screen, repetition   *)
(* of keys and change from the web; and the f32c uploader, which makes the *)
(* core jump only into a whole binary, for every file, every number of     *)
(* retries and every buffer.                                               *)
(***************************************************************************)
EXTENDS FileBrowser, F32cUpload, SequenceTheorems, FiniteSetTheorems,
        WellFoundedInduction, NaturalsInduction, TLAPS

(* No two entries of a directory have the same name.                       *)
Proper(c) == \A path \in DOMAIN c : c[path] \in Seq(Names) /\ IsInjective(c[path])

CardInv == Proper(card)

(* An empty listing has cursor and window at 0, so that keys leave them    *)
(* there.                                                                  *)
PlaceInv ==
  /\ DirN \in Nat /\ cursor \in Nat /\ topitem \in Nat
  /\ CursorInView
  /\ DirN = 0 => cursor = 0 /\ topitem = 0

(* What is listed are entries with names.                                  *)
Entry == [name : Names, dir : BOOLEAN]
ListedInv == ListingIsDirectory /\ overrun = FALSE /\ listing \in Seq(Entry)

BrowserInv == CardInv /\ PlaceInv /\ ScreenIsTrue /\ ListedInv

-----------------------------------------------------------------------------
(* Induction along the entries, with a set in place of a predicate.        *)
LEMMA AlongEntries ==
  ASSUME NEW n \in Nat, NEW T, 0 \in T, \A k \in 0 .. n - 1 : k \in T => k + 1 \in T
  PROVE  0 .. n \subseteq T
<1> DEFINE bad == {k \in 0 .. n : k \notin T}
           R == {ss \in Nat \X Nat : ss[1] < ss[2]}
<1> SUFFICES ASSUME bad # {} PROVE FALSE
  OBVIOUS
<1>1. R = OpToRel(<, Nat)
  BY DEF OpToRel
<1>2. IsWellFoundedOn(R, Nat)
  BY <1>1, NatLessThanWellFounded
<1>3. ASSUME NEW k \in Nat, NEW m \in Nat, m < k PROVE <<m, k>> \in R
  <2>1. <<m, k>> \in Nat \X Nat /\ <<m, k>>[1] < <<m, k>>[2]
    BY <1>3
  <2>2. QED
    BY <2>1
<1>4. bad \in SUBSET Nat
  OBVIOUS
<1> HIDE DEF R
<1>5. PICK k \in bad : \A m \in bad : ~(<<m, k>> \in R)
  BY <1>2, <1>4, WFMin
<1>6. k \in Nat /\ k # 0 /\ k <= n /\ k \notin T
  BY <1>5
<1>7. k - 1 \in 0 .. n - 1 /\ k - 1 \in Nat
  BY <1>6
<1>8. k - 1 \notin bad
  <2>1. <<k - 1, k>> \in R
    BY <1>3, <1>6, <1>7
  <2>2. QED
    BY <1>5, <2>1
<1>9. k - 1 \in T
  BY <1>7, <1>8
<1>10. (k - 1) + 1 \in T
  BY <1>7, <1>9
<1>11. QED
  BY <1>6, <1>10

(* The function that the first pass defines exists.                        *)
LEMMA FirstExists ==
  ASSUME NEW c, NEW path, Len(c[path]) \in Nat
  PROVE  /\ FirstPass(c, path)[0] = [length |-> 0, ndirs |-> 0]
         /\ \A k \in 1 .. Len(c[path]) :
              FirstPass(c, path)[k] =
                [length |-> FirstPass(c, path)[k - 1].length + NameLen[c[path][k]],
                 ndirs  |-> FirstPass(c, path)[k - 1].ndirs
                              + IF IsDir(c, path, c[path][k]) THEN 1 ELSE 0]
<1> DEFINE Step(f, k) ==
             IF k = 0 THEN [length |-> 0, ndirs |-> 0]
             ELSE [length |-> f[k - 1].length + NameLen[c[path][k]],
                   ndirs  |-> f[k - 1].ndirs + IF IsDir(c, path, c[path][k]) THEN 1 ELSE 0]
           Is(f, m) == f = [k \in 0 .. m |-> Step(f, k)]
           n == Len(c[path])
           T == {m \in 0 .. n : \E f : Is(f, m)}
<1>1. 0 \in T
  <2> DEFINE f == [k \in 0 .. 0 |-> [length |-> 0, ndirs |-> 0]]
  <2>1. Is(f, 0)
    OBVIOUS
  <2> HIDE DEF f
  <2>2. \E g : Is(g, 0)
    BY <2>1
  <2>3. QED
    BY <2>2
<1>2. ASSUME NEW m \in 0 .. n - 1, m \in T PROVE m + 1 \in T
  <2>1. PICK f : Is(f, m)
    BY <1>2
  <2> DEFINE g == [k \in 0 .. m + 1 |-> IF k <= m THEN f[k] ELSE Step(f, m + 1)]
  <2>2. ASSUME NEW k \in 0 .. m + 1 PROVE Step(g, k) = Step(f, k)
    <3>1. CASE k = 0
      BY <3>1
    <3>2. CASE k # 0
      <4>1. k - 1 \in 0 .. m /\ k - 1 \in 0 .. m + 1 /\ k - 1 <= m
        BY <3>2
      <4>2. g[k - 1] = f[k - 1]
        BY <4>1
      <4> HIDE DEF g
      <4>3. QED
        BY <4>2
    <3>3. QED
      BY <3>1, <3>2
  <2>3. ASSUME NEW k \in 0 .. m + 1 PROVE g[k] = Step(f, k)
    <3> HIDE DEF Step
    <3>1. k <= m \/ k = m + 1
      OBVIOUS
    <3>2. k <= m => f[k] = Step(f, k)
      BY <2>1
    <3>3. QED
      BY <3>1, <3>2
  <2>4. g = [k \in 0 .. m + 1 |-> g[k]]
    OBVIOUS
  <2> HIDE DEF g, Step
  <2>5. Is(g, m + 1)
    BY <2>2, <2>3, <2>4
  <2>6. m + 1 \in 0 .. n
    OBVIOUS
  <2>7. QED
    BY <2>5, <2>6
<1> HIDE DEF T
<1>3. 0 .. n \subseteq T
  BY <1>1, <1>2, AlongEntries
<1>4. n \in T
  BY <1>3
<1>5. \E f : Is(f, n)
  BY <1>4 DEF T
<1>6. FirstPass(c, path) = CHOOSE f : Is(f, n)
  BY DEF FirstPass
<1> DEFINE F == FirstPass(c, path)
<1>7. Is(F, n)
  BY <1>5, <1>6
<1> HIDE DEF F
<1>8. F[0] = [length |-> 0, ndirs |-> 0]
  <2>1. 0 \in 0 .. n
    OBVIOUS
  <2>2. QED
    BY <1>7, <2>1
<1>9. ASSUME NEW k \in 1 .. n
      PROVE  F[k] = [length |-> F[k - 1].length + NameLen[c[path][k]],
                     ndirs  |-> F[k - 1].ndirs + IF IsDir(c, path, c[path][k]) THEN 1 ELSE 0]
  <2>1. k \in 0 .. n /\ k # 0
    OBVIOUS
  <2>2. QED
    BY <1>7, <2>1
<1>10. QED
  BY <1>8, <1>9 DEF F

LEMMA NamesTakeRoom ==
  ASSUME NEW names \in Seq(Names), NEW k \in 1 .. Len(names)
  PROVE  names[k] \in Names /\ NameLen[names[k]] \in Nat /\ NameLen[names[k]] > 0
<1>1. names[k] \in Names
  OBVIOUS
<1>2. NameLen \in [Names -> Nat \ {0}]
  BY BrowserAssumption
<1>3. NameLen[names[k]] \in Nat \ {0}
  BY <1>1, <1>2
<1>4. QED
  BY <1>1, <1>3

(* What the first pass has measured before the entry k + 1.                *)
Long(c, path, k) == FirstPass(c, path)[k].length
Dirs(c, path, k) == FirstPass(c, path)[k].ndirs
DirAt(c, path, k) == IsDir(c, path, c[path][k])

LEMMA FirstSteps ==
  ASSUME NEW c, NEW path, c[path] \in Seq(Names)
  PROVE  /\ Long(c, path, 0) = 0 /\ Dirs(c, path, 0) = 0
         /\ \A k \in 1 .. Len(c[path]) :
              /\ Long(c, path, k) = Long(c, path, k - 1) + NameLen[c[path][k]]
              /\ DirAt(c, path, k) => Dirs(c, path, k) = Dirs(c, path, k - 1) + 1
              /\ ~DirAt(c, path, k) => Dirs(c, path, k) = Dirs(c, path, k - 1) + 0
<1> DEFINE F == FirstPass(c, path)
<1>0. Len(c[path]) \in Nat
  OBVIOUS
<1>2. F[0] = [length |-> 0, ndirs |-> 0]
  BY <1>0, FirstExists
<1>3. ASSUME NEW k \in 1 .. Len(c[path])
      PROVE  F[k] = [length |-> F[k - 1].length + NameLen[c[path][k]],
                     ndirs  |-> F[k - 1].ndirs + IF IsDir(c, path, c[path][k]) THEN 1 ELSE 0]
  BY <1>0, FirstExists
<1> HIDE DEF F
<1>4. ASSUME NEW k \in 1 .. Len(c[path])
      PROVE  /\ Long(c, path, k) = Long(c, path, k - 1) + NameLen[c[path][k]]
             /\ DirAt(c, path, k) => Dirs(c, path, k) = Dirs(c, path, k - 1) + 1
             /\ ~DirAt(c, path, k) => Dirs(c, path, k) = Dirs(c, path, k - 1) + 0
  <2> DEFINE a == F[k - 1].length + NameLen[c[path][k]]
             b == F[k - 1].ndirs + IF IsDir(c, path, c[path][k]) THEN 1 ELSE 0
  <2>0. F[k] = [length |-> a, ndirs |-> b]
    BY <1>3
  <2> HIDE DEF a, b
  <2>1. F[k].length = a /\ F[k].ndirs = b
    BY <2>0
  <2>2. /\ F[k].length = F[k - 1].length + NameLen[c[path][k]]
        /\ F[k].ndirs = F[k - 1].ndirs + IF IsDir(c, path, c[path][k]) THEN 1 ELSE 0
    BY <2>1 DEF a, b
  <2>3. QED
    BY <2>1, <2>2 DEF F, Long, Dirs, DirAt
<1>5. F[0].length = 0 /\ F[0].ndirs = 0
  BY <1>2
<1>6. QED
  BY <1>4, <1>5 DEF F, Long, Dirs

LEMMA FirstTypes ==
  ASSUME NEW c, NEW path, c[path] \in Seq(Names)
  PROVE  \A k \in 0 .. Len(c[path]) : Long(c, path, k) \in Nat /\ Dirs(c, path, k) \in 0 .. k
<1> DEFINE n == Len(c[path])
           T == {k \in 0 .. n : Long(c, path, k) \in Nat /\ Dirs(c, path, k) \in 0 .. k}
<1>1. n \in Nat /\ 0 \in T
  BY FirstSteps
<1>2. ASSUME NEW k \in 0 .. n - 1, k \in T PROVE k + 1 \in T
  <2>1. k + 1 \in 1 .. n /\ (k + 1) - 1 = k
    OBVIOUS
  <2>2. NameLen[c[path][k + 1]] \in Nat
    BY <2>1, NamesTakeRoom
  <2>3. Long(c, path, k + 1) = Long(c, path, k) + NameLen[c[path][k + 1]]
    BY <2>1, FirstSteps
  <2>4. Dirs(c, path, k + 1) \in {Dirs(c, path, k) + 1, Dirs(c, path, k) + 0}
    BY <2>1, FirstSteps
  <2>5. QED
    BY <1>2, <2>1, <2>2, <2>3, <2>4
<1> HIDE DEF T
<1>3. 0 .. n \subseteq T
  BY <1>1, <1>2, AlongEntries
<1>4. QED
  BY <1>3 DEF T

(* The passes only add: names take room, and among the entries from j to k *)
(* there are no more directories than entries.                             *)
LEMMA FirstGrows ==
  ASSUME NEW c, NEW path, c[path] \in Seq(Names), NEW j \in 0 .. Len(c[path])
  PROVE  \A k \in j .. Len(c[path]) :
           /\ Long(c, path, j) <= Long(c, path, k)
           /\ Dirs(c, path, j) <= Dirs(c, path, k)
           /\ Dirs(c, path, k) - Dirs(c, path, j) <= k - j
<1> DEFINE n == Len(c[path])
           Grown(k) == /\ Long(c, path, j) <= Long(c, path, k)
                       /\ Dirs(c, path, j) <= Dirs(c, path, k)
                       /\ Dirs(c, path, k) - Dirs(c, path, j) <= k - j
           T == {k \in 0 .. n : k >= j => Grown(k)}
<1>1. n \in Nat /\ 0 \in T
  BY FirstTypes
<1>2. ASSUME NEW k \in 0 .. n - 1, k \in T PROVE k + 1 \in T
  <2>1. k + 1 \in 1 .. n /\ (k + 1) - 1 = k /\ k \in 0 .. n /\ k + 1 \in 0 .. n /\ j \in 0 .. n
    OBVIOUS
  <2>2. /\ Long(c, path, k) \in Nat /\ Dirs(c, path, k) \in Nat
        /\ Long(c, path, k + 1) \in Nat /\ Dirs(c, path, k + 1) \in Nat
        /\ Long(c, path, j) \in Nat /\ Dirs(c, path, j) \in Nat
    BY <2>1, FirstTypes
  <2>3. NameLen[c[path][k + 1]] \in Nat
    BY <2>1, NamesTakeRoom
  <2>4. Long(c, path, k + 1) = Long(c, path, k) + NameLen[c[path][k + 1]]
    BY <2>1, FirstSteps
  <2>5. Dirs(c, path, k + 1) \in {Dirs(c, path, k) + 1, Dirs(c, path, k) + 0}
    BY <2>1, FirstSteps
  <2>6. CASE k + 1 = j
    BY <2>1, <2>2, <2>6
  <2>7. CASE k + 1 > j
    <3>1. Grown(k)
      BY <1>2, <2>1, <2>7
    <3>2. Long(c, path, j) <= Long(c, path, k + 1)
      BY <2>2, <2>3, <2>4, <3>1
    <3>3. /\ Dirs(c, path, j) <= Dirs(c, path, k + 1)
          /\ Dirs(c, path, k + 1) - Dirs(c, path, j) <= (k + 1) - j
      BY <2>1, <2>2, <2>5, <3>1
    <3>4. QED
      BY <2>1, <3>2, <3>3
  <2>8. CASE k + 1 < j
    BY <2>1, <2>8
  <2>9. QED
    BY <2>1, <2>6, <2>7, <2>8
<1> HIDE DEF T
<1>3. 0 .. n \subseteq T
  BY <1>1, <1>2, AlongEntries
<1>4. QED
  BY <1>3 DEF T

LEMMA SecondExists ==
  ASSUME NEW c, NEW path, NEW total, Len(c[path]) \in Nat
  PROVE  SecondPass(c, path, total) =
           [k \in 0 .. Len(c[path]) |->
              IF k = 0 THEN [slot |-> <<>>, text |-> <<>>, used |-> 0, over |-> FALSE,
                             cdirs |-> 0, cfiles |-> 0]
              ELSE Filled(SecondPass(c, path, total)[k - 1], c[path][k],
                          IsDir(c, path, c[path][k]), total.ndirs, total.length)]
<1> DEFINE Empty == [slot |-> <<>>, text |-> <<>>, used |-> 0, over |-> FALSE,
                     cdirs |-> 0, cfiles |-> 0]
           Step(f, k) ==
             IF k = 0 THEN Empty
             ELSE Filled(f[k - 1], c[path][k], IsDir(c, path, c[path][k]), total.ndirs, total.length)
           Is(f, m) == f = [k \in 0 .. m |-> Step(f, k)]
           n == Len(c[path])
           T == {m \in 0 .. n : \E f : Is(f, m)}
<1>1. 0 \in T
  <2> DEFINE f == [k \in 0 .. 0 |-> Empty]
  <2>1. Is(f, 0)
    OBVIOUS
  <2> HIDE DEF f
  <2>2. \E g : Is(g, 0)
    BY <2>1
  <2>3. QED
    BY <2>2
<1>2. ASSUME NEW m \in 0 .. n - 1, m \in T PROVE m + 1 \in T
  <2>1. PICK f : Is(f, m)
    BY <1>2
  <2> DEFINE g == [k \in 0 .. m + 1 |-> IF k <= m THEN f[k] ELSE Step(f, m + 1)]
  <2>2. ASSUME NEW k \in 0 .. m + 1 PROVE Step(g, k) = Step(f, k)
    <3>1. CASE k = 0
      BY <3>1
    <3>2. CASE k # 0
      <4>1. k - 1 \in 0 .. m /\ k - 1 \in 0 .. m + 1 /\ k - 1 <= m
        BY <3>2
      <4>2. g[k - 1] = f[k - 1]
        BY <4>1
      <4> HIDE DEF g
      <4>3. QED
        BY <4>2
    <3>3. QED
      BY <3>1, <3>2
  <2>3. ASSUME NEW k \in 0 .. m + 1 PROVE g[k] = Step(f, k)
    <3> HIDE DEF Step
    <3>1. k <= m \/ k = m + 1
      OBVIOUS
    <3>2. k <= m => f[k] = Step(f, k)
      BY <2>1
    <3>3. QED
      BY <3>1, <3>2
  <2>4. g = [k \in 0 .. m + 1 |-> g[k]]
    OBVIOUS
  <2> HIDE DEF g, Step
  <2>5. Is(g, m + 1)
    BY <2>2, <2>3, <2>4
  <2>6. m + 1 \in 0 .. n
    OBVIOUS
  <2>7. QED
    BY <2>5, <2>6
<1> HIDE DEF T
<1>3. 0 .. n \subseteq T
  BY <1>1, <1>2, AlongEntries
<1>4. n \in T
  BY <1>3
<1>5. \E f : Is(f, n)
  BY <1>4 DEF T
<1>6. SecondPass(c, path, total) = CHOOSE f : Is(f, n)
  BY DEF SecondPass
<1>7. Is(SecondPass(c, path, total), n)
  BY <1>5, <1>6
<1>8. QED
  BY <1>7

-----------------------------------------------------------------------------
(* The slot that the second pass gives the entry j.                        *)
Place(c, path, j) ==
  IF DirAt(c, path, j) THEN Dirs(c, path, j) ELSE Dirs(c, path, Len(c[path])) + j - Dirs(c, path, j)

(* Directories have the slots up to ndirs, files those behind.             *)
LEMMA PlacesAreSlots ==
  ASSUME NEW c, NEW path, c[path] \in Seq(Names), NEW j \in 1 .. Len(c[path])
  PROVE  /\ Place(c, path, j) \in 1 .. Len(c[path])
         /\ (Place(c, path, j) <= Dirs(c, path, Len(c[path]))) <=> DirAt(c, path, j)
<1> DEFINE n == Len(c[path])
<1>1. n \in Nat /\ j \in Nat /\ j - 1 \in 0 .. n /\ j \in 0 .. n /\ n \in j .. n
  OBVIOUS
<1>2. /\ Dirs(c, path, j) \in Nat
      /\ Dirs(c, path, j - 1) \in Nat /\ Dirs(c, path, j - 1) <= j - 1
      /\ Dirs(c, path, n) \in Nat /\ Dirs(c, path, n) <= n
  BY <1>1, FirstTypes
<1>3. Dirs(c, path, j) <= Dirs(c, path, n) /\ Dirs(c, path, n) - Dirs(c, path, j) <= n - j
  BY <1>1, FirstGrows
<1> HIDE DEF n
<1>4. CASE DirAt(c, path, j)
  <2>1. Dirs(c, path, j) = Dirs(c, path, j - 1) + 1
    BY <1>4, FirstSteps
  <2>2. Place(c, path, j) = Dirs(c, path, j)
    BY <1>4 DEF Place
  <2>3. Place(c, path, j) \in 1 .. n /\ Place(c, path, j) <= Dirs(c, path, n)
    BY <1>1, <1>2, <1>3, <2>1, <2>2
  <2>4. QED
    BY <1>4, <2>3 DEF n
<1>5. CASE ~DirAt(c, path, j)
  <2>1. Dirs(c, path, j) = Dirs(c, path, j - 1) + 0
    BY <1>5, FirstSteps
  <2>2. Place(c, path, j) = Dirs(c, path, n) + j - Dirs(c, path, j)
    BY <1>5 DEF Place, n
  <2>3. Place(c, path, j) \in 1 .. n /\ ~(Place(c, path, j) <= Dirs(c, path, n))
    BY <1>1, <1>2, <1>3, <2>1, <2>2
  <2>4. QED
    BY <1>5, <2>3 DEF n
<1>6. QED
  BY <1>4, <1>5

(* No two entries have the same slot, or the same place in DirNames.       *)
LEMMA PlacesDiffer ==
  ASSUME NEW c, NEW path, c[path] \in Seq(Names),
         NEW j \in 1 .. Len(c[path]), NEW l \in 1 .. Len(c[path]), j < l
  PROVE  Place(c, path, j) # Place(c, path, l) /\ Long(c, path, j - 1) < Long(c, path, l - 1)
<1> DEFINE n == Len(c[path])
<1>1. /\ n \in Nat /\ j \in Nat /\ l \in Nat
      /\ j - 1 \in 0 .. n /\ j \in 0 .. n /\ l - 1 \in 0 .. n /\ l \in 0 .. n /\ n \in 0 .. n
      /\ l - 1 \in j .. n
  OBVIOUS
<1>2. /\ Dirs(c, path, j) \in Nat /\ Dirs(c, path, l - 1) \in Nat
      /\ Dirs(c, path, l) \in Nat /\ Dirs(c, path, n) \in Nat
      /\ Long(c, path, j - 1) \in Nat /\ Long(c, path, j) \in Nat /\ Long(c, path, l - 1) \in Nat
  <2>1. Dirs(c, path, j) \in Nat /\ Long(c, path, j) \in Nat
    BY FirstTypes
  <2>2. Dirs(c, path, l) \in Nat
    BY FirstTypes
  <2>3. Dirs(c, path, l - 1) \in Nat /\ Long(c, path, l - 1) \in Nat
    BY <1>1, FirstTypes
  <2>4. Long(c, path, j - 1) \in Nat
    BY <1>1, FirstTypes
  <2>5. Dirs(c, path, n) \in Nat
    BY <1>1, FirstTypes
  <2>6. QED
    BY <2>1, <2>2, <2>3, <2>4, <2>5
<1>3. /\ Long(c, path, j) <= Long(c, path, l - 1)
      /\ Dirs(c, path, j) <= Dirs(c, path, l - 1)
      /\ Dirs(c, path, l - 1) - Dirs(c, path, j) <= (l - 1) - j
  BY <1>1, FirstGrows
<1>4. Long(c, path, j - 1) < Long(c, path, l - 1)
  <2>1. Long(c, path, j) = Long(c, path, j - 1) + NameLen[c[path][j]]
    BY FirstSteps
  <2>2. NameLen[c[path][j]] \in Nat /\ NameLen[c[path][j]] > 0
    BY NamesTakeRoom
  <2>3. Long(c, path, j) <= Long(c, path, l - 1)
    BY <1>3
  <2> HIDE DEF Long
  <2>4. QED
    BY <1>2, <2>1, <2>2, <2>3
<1>5. Place(c, path, j) # Place(c, path, l)
  <2>1. CASE DirAt(c, path, j) /\ DirAt(c, path, l)
    <3>1. Dirs(c, path, l) = Dirs(c, path, l - 1) + 1
      BY <2>1, FirstSteps
    <3>2. Place(c, path, j) = Dirs(c, path, j) /\ Place(c, path, l) = Dirs(c, path, l)
      BY <2>1 DEF Place
    <3>3. QED
      BY <1>2, <1>3, <3>1, <3>2
  <2>2. CASE ~DirAt(c, path, j) /\ ~DirAt(c, path, l)
    <3>1. Dirs(c, path, l) = Dirs(c, path, l - 1) + 0
      BY <2>2, FirstSteps
    <3>2. /\ Place(c, path, j) = Dirs(c, path, n) + j - Dirs(c, path, j)
          /\ Place(c, path, l) = Dirs(c, path, n) + l - Dirs(c, path, l)
      BY <2>2 DEF Place
    <3> HIDE DEF n
    <3>3. QED
      BY <1>1, <1>2, <1>3, <3>1, <3>2
  <2>3. CASE ~(DirAt(c, path, j) <=> DirAt(c, path, l))
    BY <2>3, PlacesAreSlots
  <2>4. QED
    BY <2>1, <2>2, <2>3
<1>6. QED
  BY <1>4, <1>5

(* Every slot is some entry's: there are as many of both.                  *)
LEMMA SlotsArePlaces ==
  ASSUME NEW c, NEW path, c[path] \in Seq(Names), NEW i \in 1 .. Len(c[path])
  PROVE  \E j \in 1 .. Len(c[path]) : Place(c, path, j) = i
<1> DEFINE n == Len(c[path])
           f == [j \in 1 .. n |-> Place(c, path, j)]
<1>0. n \in Nat
  OBVIOUS
<1>1. f \in [1 .. n -> 1 .. n]
  BY PlacesAreSlots
<1>2. ASSUME NEW j \in 1 .. n, NEW l \in 1 .. n, f[j] = f[l] PROVE j = l
  <2>1. ~(j < l) /\ ~(l < j)
    BY <1>2, PlacesDiffer
  <2>2. QED
    BY <1>0, <2>1
<1>3. f \in Injection(1 .. n, 1 .. n)
  <2>1. DOMAIN f = 1 .. n
    OBVIOUS
  <2> HIDE DEF f
  <2>2. IsInjective(f)
    BY <1>2, <2>1 DEF IsInjective
  <2>3. QED
    BY <1>1, <2>2 DEF Injection
<1>4. IsFiniteSet(1 .. n)
  BY <1>0, FS_Interval
<1>5. f \in Surjection(1 .. n, 1 .. n)
  <2> HIDE DEF f
  <2>1. QED
    BY <1>3, <1>4, FS_Injection
<1>6. PICK j \in 1 .. n : f[j] = i
  <2> HIDE DEF f
  <2>1. QED
    BY <1>5 DEF Surjection
<1>7. QED
  BY <1>6

-----------------------------------------------------------------------------
(* The second pass counts what the first has counted, so that every name   *)
(* fits.                                                                   *)
Second(c, path) == SecondPass(c, path, FirstPass(c, path)[Len(c[path])])

LEMMA SecondSteps ==
  ASSUME NEW c, NEW path, c[path] \in Seq(Names)
  PROVE  /\ Second(c, path)[0] = [slot |-> <<>>, text |-> <<>>, used |-> 0, over |-> FALSE,
                                  cdirs |-> 0, cfiles |-> 0]
         /\ \A k \in 1 .. Len(c[path]) :
              Second(c, path)[k] =
                Filled(Second(c, path)[k - 1], c[path][k], DirAt(c, path, k),
                       Dirs(c, path, Len(c[path])), Long(c, path, Len(c[path])))
<1> DEFINE n == Len(c[path])
           S == Second(c, path)
           Empty == [slot |-> <<>>, text |-> <<>>, used |-> 0, over |-> FALSE,
                     cdirs |-> 0, cfiles |-> 0]
           Step(k) == Filled(S[k - 1], c[path][k], DirAt(c, path, k), Dirs(c, path, n), Long(c, path, n))
<1>0. n \in Nat
  OBVIOUS
<1>1. S = [k \in 0 .. n |-> IF k = 0 THEN Empty ELSE Step(k)]
  <2> DEFINE total == FirstPass(c, path)[n]
             R == SecondPass(c, path, total)
  <2>0. Len(c[path]) \in Nat
    OBVIOUS
  <2>6. R = S
    BY DEF Second
  <2> HIDE DEF total
  <2>1. R = [k \in 0 .. n |->
               IF k = 0 THEN Empty
               ELSE Filled(R[k - 1], c[path][k], IsDir(c, path, c[path][k]), total.ndirs, total.length)]
    BY <2>0, SecondExists
  <2>3. total.ndirs = Dirs(c, path, n) /\ total.length = Long(c, path, n)
    BY DEF Dirs, Long, total
  <2>4. \A k : IsDir(c, path, c[path][k]) = DirAt(c, path, k)
    BY DEF DirAt
  <2> HIDE DEF R, S, total, Empty
  <2>5. QED
    BY <2>1, <2>6, <2>3, <2>4
<1> HIDE DEF S, Empty, Step
<1>2. S[0] = Empty
  BY <1>0, <1>1
<1>3. ASSUME NEW k \in 1 .. n PROVE S[k] = Step(k)
  <2>1. k \in 0 .. n /\ k # 0
    BY <1>0
  <2>2. QED
    BY <1>1, <2>1
<1>4. QED
  BY <1>2, <1>3 DEF S, Empty, Step

LEMMA SecondCounts ==
  ASSUME NEW c, NEW path, c[path] \in Seq(Names)
  PROVE  \A k \in 0 .. Len(c[path]) :
           /\ Second(c, path)[k].used = Long(c, path, k)
           /\ Second(c, path)[k].over = FALSE
           /\ Second(c, path)[k].cdirs = Dirs(c, path, k)
           /\ Second(c, path)[k].cfiles = k - Dirs(c, path, k)
<1> DEFINE n == Len(c[path])
           S == Second(c, path)
           Agree(k) == /\ S[k].used = Long(c, path, k)
                       /\ S[k].over = FALSE
                       /\ S[k].cdirs = Dirs(c, path, k)
                       /\ S[k].cfiles = k - Dirs(c, path, k)
           T == {k \in 0 .. n : Agree(k)}
<1>0. n \in Nat
  OBVIOUS
<1>1. 0 \in T
  <2>1. S[0].used = 0 /\ S[0].over = FALSE /\ S[0].cdirs = 0 /\ S[0].cfiles = 0
    BY SecondSteps
  <2>2. Long(c, path, 0) = 0 /\ Dirs(c, path, 0) = 0
    BY FirstSteps
  <2> HIDE DEF S
  <2>3. QED
    BY <1>0, <2>1, <2>2
<1>2. ASSUME NEW k \in 0 .. n - 1, k \in T PROVE k + 1 \in T
  <2>1. k + 1 \in 1 .. n /\ (k + 1) - 1 = k /\ k \in Nat /\ k + 1 \in 0 .. n /\ k \in 0 .. n /\ n \in (k + 1) .. n
    OBVIOUS
  <2>2. S[k + 1] = Filled(S[k], c[path][k + 1], DirAt(c, path, k + 1), Dirs(c, path, n), Long(c, path, n))
    BY <2>1, SecondSteps
  <2>3. Agree(k)
    BY <1>2
  <2>4. /\ Long(c, path, k) \in Nat /\ Dirs(c, path, k) \in Nat
        /\ Long(c, path, k + 1) \in Nat /\ Long(c, path, n) \in Nat
    BY <1>0, <2>1, FirstTypes
  <2>5. Long(c, path, k + 1) = Long(c, path, k) + NameLen[c[path][k + 1]]
    BY <2>1, FirstSteps
  <2>6. NameLen[c[path][k + 1]] \in Nat
    BY <2>1, NamesTakeRoom
  <2>7. Long(c, path, k + 1) <= Long(c, path, n)
    BY <2>1, FirstGrows
  <2> HIDE DEF S
  <2>8. S[k + 1].used = Long(c, path, k + 1) /\ S[k + 1].over = FALSE
    <3>1. /\ S[k + 1].used = IF S[k].used + NameLen[c[path][k + 1]] <= Long(c, path, n)
                               THEN S[k].used + NameLen[c[path][k + 1]] ELSE S[k].used
          /\ S[k + 1].over = (S[k].over \/ S[k].used + NameLen[c[path][k + 1]] > Long(c, path, n))
      BY <2>2 DEF Filled
    <3>2. S[k].used + NameLen[c[path][k + 1]] = Long(c, path, k + 1)
      BY <2>3, <2>5
    <3>3. ~(Long(c, path, k + 1) > Long(c, path, n))
      BY <2>4, <2>7
    <3>4. QED
      BY <2>3, <2>7, <3>1, <3>2, <3>3
  <2>9. /\ S[k + 1].cdirs = IF DirAt(c, path, k + 1) THEN S[k].cdirs + 1 ELSE S[k].cdirs
        /\ S[k + 1].cfiles = IF DirAt(c, path, k + 1) THEN S[k].cfiles ELSE S[k].cfiles + 1
    BY <2>2 DEF Filled
  <2>10. CASE DirAt(c, path, k + 1)
    <3>1. Dirs(c, path, k + 1) = Dirs(c, path, k) + 1
      BY <2>1, <2>10, FirstSteps
    <3>2. S[k + 1].cdirs = S[k].cdirs + 1 /\ S[k + 1].cfiles = S[k].cfiles
      BY <2>9, <2>10
    <3>3. QED
      BY <2>1, <2>3, <2>4, <2>8, <3>1, <3>2
  <2>11. CASE ~DirAt(c, path, k + 1)
    <3>1. Dirs(c, path, k + 1) = Dirs(c, path, k) + 0
      BY <2>1, <2>11, FirstSteps
    <3>2. S[k + 1].cdirs = S[k].cdirs /\ S[k + 1].cfiles = S[k].cfiles + 1
      BY <2>9, <2>11
    <3>3. QED
      BY <2>1, <2>3, <2>4, <2>8, <3>1, <3>2
  <2>12. QED
    BY <2>10, <2>11
<1> HIDE DEF T
<1>3. 0 .. n \subseteq T
  BY <1>0, <1>1, <1>2, AlongEntries
<1>4. QED
  BY <1>3 DEF T

(* After k entries each has its slot, which points at its name.            *)
LEMMA SecondWrites ==
  ASSUME NEW c, NEW path, c[path] \in Seq(Names)
  PROVE  \A k \in 0 .. Len(c[path]) : \A j \in 1 .. k :
           LET r == Second(c, path)[k]
           IN  /\ Place(c, path, j) \in DOMAIN r.slot
               /\ r.slot[Place(c, path, j)] = [at |-> Long(c, path, j - 1), dir |-> DirAt(c, path, j)]
               /\ Long(c, path, j - 1) \in DOMAIN r.text
               /\ r.text[Long(c, path, j - 1)] = c[path][j]
<1> DEFINE n == Len(c[path])
           S == Second(c, path)
           Points(k, j) ==
             /\ Place(c, path, j) \in DOMAIN S[k].slot
             /\ S[k].slot[Place(c, path, j)] = [at |-> Long(c, path, j - 1), dir |-> DirAt(c, path, j)]
             /\ Long(c, path, j - 1) \in DOMAIN S[k].text
             /\ S[k].text[Long(c, path, j - 1)] = c[path][j]
           T == {k \in 0 .. n : \A j \in 1 .. k : Points(k, j)}
<1>0. n \in Nat
  OBVIOUS
<1>1. 0 \in T
  BY <1>0
<1>2. ASSUME NEW k \in 0 .. n - 1, k \in T PROVE k + 1 \in T
  <2> DEFINE p == Place(c, path, k + 1)
             v == [at |-> Long(c, path, k), dir |-> DirAt(c, path, k + 1)]
  <2>1. k + 1 \in 1 .. n /\ (k + 1) - 1 = k /\ k \in Nat /\ k + 1 \in 0 .. n /\ k \in 0 .. n
    OBVIOUS
  <2>2. S[k + 1] = Filled(S[k], c[path][k + 1], DirAt(c, path, k + 1), Dirs(c, path, n), Long(c, path, n))
    BY <2>1, SecondSteps
  <2>3. S[k].used = Long(c, path, k) /\ S[k].cdirs = Dirs(c, path, k) /\ S[k].cfiles = k - Dirs(c, path, k)
    BY <2>1, SecondCounts
  <2>4. Dirs(c, path, k) \in Nat /\ Dirs(c, path, n) \in Nat
    <3>1. n \in 0 .. n
      BY <1>0
    <3>2. QED
      BY <2>1, <3>1, FirstTypes
  <2> HIDE DEF S, n
  <2>5. SlotOf(S[k], DirAt(c, path, k + 1), Dirs(c, path, n)) = p
    <3>1. CASE DirAt(c, path, k + 1)
      <4>1. Dirs(c, path, k + 1) = Dirs(c, path, k) + 1
        BY <2>1, <3>1, FirstSteps DEF n
      <4>2. p = Dirs(c, path, k + 1)
        BY <3>1 DEF Place
      <4>3. QED
        BY <2>3, <3>1, <4>1, <4>2 DEF SlotOf
    <3>2. CASE ~DirAt(c, path, k + 1)
      <4>1. Dirs(c, path, k + 1) = Dirs(c, path, k) + 0
        BY <2>1, <3>2, FirstSteps DEF n
      <4>2. p = Dirs(c, path, n) + (k + 1) - Dirs(c, path, k + 1)
        BY <3>2 DEF Place, n
      <4>3. SlotOf(S[k], DirAt(c, path, k + 1), Dirs(c, path, n)) = Dirs(c, path, n) + S[k].cfiles + 1
        BY <3>2 DEF SlotOf
      <4>4. QED
        BY <2>1, <2>3, <2>4, <4>1, <4>2, <4>3
    <3>3. QED
      BY <3>1, <3>2
  <2>6. S[k + 1].slot = Put(S[k].slot, p, v) /\ S[k + 1].text = Put(S[k].text, Long(c, path, k), c[path][k + 1])
    BY <2>2, <2>3, <2>5 DEF Filled
  <2>7. Points(k + 1, k + 1)
    BY <2>1, <2>6 DEF Put
  <2>8. ASSUME NEW j \in 1 .. k PROVE Points(k + 1, j)
    <3>1. Points(k, j)
      BY <1>2, <2>8 DEF n
    <3>2. j \in 1 .. n /\ j < k + 1
      BY <1>0, <2>1, <2>8
    <3>3. Place(c, path, j) # p /\ Long(c, path, j - 1) < Long(c, path, k)
      BY <2>1, <3>2, PlacesDiffer DEF n
    <3>4. Long(c, path, j - 1) # Long(c, path, k)
      <4>1. Long(c, path, j - 1) \in Nat /\ Long(c, path, k) \in Nat
        <5>1. j - 1 \in 0 .. n
          BY <1>0, <3>2
        <5>2. QED
          BY <2>1, <5>1, FirstTypes DEF n
      <4>2. QED
        BY <3>3, <4>1
    <3> HIDE DEF p, v
    <3>5. /\ Place(c, path, j) \in DOMAIN S[k + 1].slot
          /\ S[k + 1].slot[Place(c, path, j)] = S[k].slot[Place(c, path, j)]
      BY <2>6, <3>1, <3>3 DEF Put
    <3>6. /\ Long(c, path, j - 1) \in DOMAIN S[k + 1].text
          /\ S[k + 1].text[Long(c, path, j - 1)] = S[k].text[Long(c, path, j - 1)]
      BY <2>6, <3>1, <3>4 DEF Put
    <3>7. QED
      BY <3>1, <3>5, <3>6
  <2>9. ASSUME NEW j \in 1 .. k + 1 PROVE Points(k + 1, j)
    <3>1. j \in 1 .. k \/ j = k + 1
      BY <2>1
    <3> HIDE DEF Points
    <3>2. QED
      BY <2>7, <2>8, <3>1
  <2>10. QED
    BY <2>1, <2>9
<1> HIDE DEF T
<1>3. 0 .. n \subseteq T
  BY <1>0, <1>1, <1>2, AlongEntries
<1>4. QED
  BY <1>3 DEF T

(* When the second pass has ended, the slots are the entries.              *)
LEMMA SlotsAreEntries ==
  ASSUME NEW c, NEW path, c[path] \in Seq(Names)
  PROVE  LET n   == Len(c[path])
             all == Entries(n, Second(c, path)[n])
         IN  /\ \A j \in 1 .. n : all[Place(c, path, j)] = [name |-> c[path][j], dir |-> DirAt(c, path, j)]
             /\ \A i \in 1 .. n : all[i] \in Entry
<1> DEFINE n == Len(c[path])
           r == Second(c, path)[n]
           all == Entries(n, r)
<1>0. n \in Nat /\ n \in 0 .. n
  OBVIOUS
<1>1. ASSUME NEW j \in 1 .. n
      PROVE  all[Place(c, path, j)] = [name |-> c[path][j], dir |-> DirAt(c, path, j)]
  <2>1. /\ Place(c, path, j) \in DOMAIN r.slot
        /\ r.slot[Place(c, path, j)] = [at |-> Long(c, path, j - 1), dir |-> DirAt(c, path, j)]
        /\ r.text[Long(c, path, j - 1)] = c[path][j]
    BY <1>0, SecondWrites
  <2>2. Place(c, path, j) \in 1 .. n
    BY PlacesAreSlots
  <2> HIDE DEF r, n
  <2>3. all[Place(c, path, j)] = [name |-> r.text[r.slot[Place(c, path, j)].at],
                                  dir |-> r.slot[Place(c, path, j)].dir]
    BY <2>1, <2>2 DEF Entries
  <2>4. QED
    BY <2>1, <2>3
<1>2. ASSUME NEW i \in 1 .. n PROVE all[i] \in Entry
  <2>1. PICK j \in 1 .. n : Place(c, path, j) = i
    BY SlotsArePlaces
  <2>2. c[path][j] \in Names /\ DirAt(c, path, j) \in BOOLEAN
    BY DEF DirAt, IsDir
  <2>3. [name |-> c[path][j], dir |-> DirAt(c, path, j)] \in Entry
    BY <2>2 DEF Entry
  <2>4. all[i] = [name |-> c[path][j], dir |-> DirAt(c, path, j)]
    BY <1>1, <2>1
  <2> HIDE DEF all
  <2>5. QED
    BY <2>3, <2>4
<1>3. QED
  BY <1>1, <1>2

-----------------------------------------------------------------------------
LEMMA EntriesHaveNames ==
  ASSUME NEW e \in Seq(Entry)
  PROVE  \A i \in 1 .. Len(e) : e[i].name \in Names /\ e[i].name \in Nat
<1> SUFFICES ASSUME NEW i \in 1 .. Len(e) PROVE e[i].name \in Names /\ e[i].name \in Nat
  OBVIOUS
<1>1. e[i] \in Entry
  OBVIOUS
<1>2. e[i].name \in Names
  BY <1>1 DEF Entry
<1>3. Names \subseteq Nat
  BY BrowserAssumption
<1>4. QED
  BY <1>2, <1>3

(* Sorting: the entry that precedes another has the lower rank, so that    *)
(* every rank is some entry's.                                             *)
LEMMA RanksAreOrdered ==
  ASSUME NEW e \in Seq(Entry), NEW i \in 1 .. Len(e)
  PROVE  /\ Rank(e, i) \in 0 .. Len(e) - 1
         /\ \A l \in 1 .. Len(e) : Precedes(e, i, l) => Rank(e, i) < Rank(e, l)
<1> DEFINE m == Len(e)
           Ahead(l) == {j \in 1 .. m : Precedes(e, j, l)}
<1>0. m \in Nat /\ IsFiniteSet(1 .. m) /\ Cardinality(1 .. m) = m
  BY FS_Interval
<1>1. \A l \in 1 .. m : e[l].name \in Nat
  BY EntriesHaveNames
<1>2. \A l \in 1 .. m : /\ Rank(e, l) = Cardinality(Ahead(l))
                       /\ IsFiniteSet(Ahead(l)) /\ Cardinality(Ahead(l)) \in Nat
  BY <1>0, FS_Subset, FS_CardinalityType DEF Rank
<1>3. Rank(e, i) \in 0 .. m - 1
  <2>1. i \in 1 .. m /\ i \notin Ahead(i)
    BY <1>1 DEF Precedes
  <2>2. Ahead(i) \in SUBSET (1 .. m) /\ Ahead(i) # 1 .. m
    BY <2>1
  <2>3. Cardinality(Ahead(i)) <= m /\ Cardinality(Ahead(i)) # m
    BY <1>0, <2>2, FS_Subset
  <2> HIDE DEF Ahead
  <2>4. QED
    BY <1>0, <1>2, <2>3
<1>4. ASSUME NEW l \in 1 .. m, Precedes(e, i, l) PROVE Rank(e, i) < Rank(e, l)
  <2>1. Ahead(i) \subseteq Ahead(l)
    BY <1>1, <1>4 DEF Precedes
  <2>2. i \in Ahead(l) /\ i \notin Ahead(i)
    BY <1>1, <1>4 DEF Precedes
  <2> HIDE DEF Ahead
  <2>3. Cardinality(Ahead(i)) <= Cardinality(Ahead(l)) /\ Cardinality(Ahead(i)) # Cardinality(Ahead(l))
    BY <1>2, <2>1, <2>2, FS_Subset
  <2>4. QED
    BY <1>2, <2>3
<1>5. QED
  BY <1>3, <1>4

LEMMA EveryRank ==
  ASSUME NEW e \in Seq(Entry), NEW k \in 1 .. Len(e)
  PROVE  \E i \in 1 .. Len(e) : Rank(e, i) = k - 1
<1> DEFINE m == Len(e)
           f == [i \in 1 .. m |-> Rank(e, i)]
<1>0. m \in Nat
  OBVIOUS
<1>1. f \in [1 .. m -> 0 .. m - 1]
  BY RanksAreOrdered
<1>2. ASSUME NEW i \in 1 .. m, NEW l \in 1 .. m, i # l PROVE f[i] # f[l]
  <2>1. Precedes(e, i, l) \/ Precedes(e, l, i)
    <3>1. e[i].name \in Nat /\ e[l].name \in Nat
      BY EntriesHaveNames
    <3>2. QED
      BY <1>2, <3>1 DEF Precedes
  <2>2. Rank(e, i) < Rank(e, l) \/ Rank(e, l) < Rank(e, i)
    BY <2>1, RanksAreOrdered
  <2>3. Rank(e, i) \in Nat /\ Rank(e, l) \in Nat
    BY <1>0, RanksAreOrdered
  <2>4. QED
    BY <2>2, <2>3
<1> HIDE DEF f
<1>3. f \in Injection(1 .. m, 0 .. m - 1)
  <2>1. DOMAIN f = 1 .. m
    BY <1>1
  <2>2. IsInjective(f)
    BY <1>2, <2>1 DEF IsInjective
  <2>3. QED
    BY <1>1, <2>2 DEF Injection
<1>4. /\ IsFiniteSet(1 .. m) /\ IsFiniteSet(0 .. m - 1)
      /\ Cardinality(1 .. m) = m /\ Cardinality(0 .. m - 1) = m
  <2>1. /\ IsFiniteSet(1 .. m)
        /\ Cardinality(1 .. m) = IF 1 > m THEN 0 ELSE m - 1 + 1
    BY <1>0, FS_Interval
  <2>2. /\ IsFiniteSet(0 .. m - 1)
        /\ Cardinality(0 .. m - 1) = IF 0 > m - 1 THEN 0 ELSE (m - 1) - 0 + 1
    <3> DEFINE b == m - 1
    <3>1. b \in Int /\ 0 \in Int
      BY <1>0
    <3> HIDE DEF b
    <3>2. IsFiniteSet(0 .. b) /\ Cardinality(0 .. b) = IF 0 > b THEN 0 ELSE b - 0 + 1
      BY <3>1, FS_Interval
    <3>3. QED
      BY <3>2 DEF b
  <2>3. QED
    BY <1>0, <2>1, <2>2
<1>5. f \in Surjection(1 .. m, 0 .. m - 1)
  BY <1>3, <1>4, FS_Injection
<1>6. PICK i \in 1 .. m : f[i] = k - 1
  <2>1. k - 1 \in 0 .. m - 1
    BY <1>0
  <2>2. QED
    BY <1>5, <2>1 DEF Surjection
<1>7. QED
  BY <1>6 DEF f

(* Sorting keeps the entries and puts them in order.                       *)
LEMMA SortedIsInOrder ==
  ASSUME NEW e \in Seq(Entry),
         \A i, l \in 1 .. Len(e) : e[i].name = e[l].name => i = l
  PROVE  /\ \A k \in 1 .. Len(e) : \E i \in 1 .. Len(e) : Sorted(e)[k] = e[i]
         /\ \A i \in 1 .. Len(e) : \E k \in 1 .. Len(e) : Sorted(e)[k] = e[i]
         /\ \A k, l \in 1 .. Len(e) : k < l => Sorted(e)[k].name < Sorted(e)[l].name
<1> DEFINE m == Len(e)
           who(k) == CHOOSE i \in 1 .. m : Rank(e, i) = k - 1
<1>0. m \in Nat
  OBVIOUS
<1>1. \A k \in 1 .. m : who(k) \in 1 .. m /\ Rank(e, who(k)) = k - 1
  BY EveryRank
<1>2. \A k \in 1 .. m : Sorted(e)[k] = e[who(k)]
  BY DEF Sorted
<1>3. ASSUME NEW i \in 1 .. m, NEW l \in 1 .. m, Rank(e, i) <= Rank(e, l) PROVE e[i].name <= e[l].name
  <2>1. ~Precedes(e, l, i)
    <3>1. Rank(e, i) \in Nat /\ Rank(e, l) \in Nat
      BY <1>0, RanksAreOrdered
    <3>2. ~(Rank(e, l) < Rank(e, i))
      BY <1>3, <3>1
    <3>3. QED
      BY <3>2, RanksAreOrdered
  <2>2. e[i].name \in Nat /\ e[l].name \in Nat
    BY EntriesHaveNames
  <2>3. QED
    BY <2>1, <2>2 DEF Precedes
<1> HIDE DEF who
<1>4. ASSUME NEW i \in 1 .. m PROVE \E k \in 1 .. m : Sorted(e)[k] = e[i]
  <2> DEFINE k == Rank(e, i) + 1
  <2>1. k \in 1 .. m /\ k - 1 = Rank(e, i)
    BY <1>0, RanksAreOrdered
  <2>2. who(k) \in 1 .. m /\ Rank(e, who(k)) = Rank(e, i)
    BY <1>1, <2>1
  <2>3. Rank(e, i) \in Nat
    BY <1>0, RanksAreOrdered
  <2>4. e[who(k)].name <= e[i].name /\ e[i].name <= e[who(k)].name
    BY <1>3, <2>2, <2>3
  <2>5. e[i].name \in Nat /\ e[who(k)].name \in Nat
    BY <2>2, EntriesHaveNames
  <2>6. who(k) = i
    BY <2>2, <2>4, <2>5
  <2>7. QED
    BY <1>2, <2>1, <2>6
<1>5. ASSUME NEW k \in 1 .. m, NEW l \in 1 .. m, k < l PROVE Sorted(e)[k].name < Sorted(e)[l].name
  <2>1. /\ who(k) \in 1 .. m /\ Rank(e, who(k)) = k - 1
        /\ who(l) \in 1 .. m /\ Rank(e, who(l)) = l - 1
    BY <1>1
  <2>2. e[who(k)].name <= e[who(l)].name /\ who(k) # who(l)
    BY <1>3, <1>5, <2>1
  <2>3. e[who(k)].name \in Nat /\ e[who(l)].name \in Nat
    BY <2>1, EntriesHaveNames
  <2>4. QED
    BY <1>2, <2>1, <2>2, <2>3
<1>6. QED
  BY <1>1, <1>2, <1>4, <1>5

-----------------------------------------------------------------------------
(* What the two passes and the sorting make of a directory whose names     *)
(* differ: every entry once, under its own name, in order; and no name is  *)
(* written behind the room for them.                                       *)
LEMMA DirectoryIsListed ==
  ASSUME NEW c, NEW path \in DOMAIN c, c[path] \in Seq(Names), IsInjective(c[path])
  PROVE  LET r  == read_directory(c, path)
             in == ToSet(c[path])
         IN  /\ r.over = FALSE /\ r.entries \in Seq(Entry)
             /\ ToSet(r.entries) = [name : {n \in in : IsDir(c, path, n)}, dir : {TRUE}]
                                     \union [name : {n \in in : ~IsDir(c, path, n)}, dir : {FALSE}]
             /\ \A i, j \in 1 .. Len(r.entries) : i < j => Above(r.entries[i], r.entries[j])
<1> DEFINE names == c[path]
           n     == Len(c[path])
           nd    == Dirs(c, path, Len(c[path]))
           fill  == Second(c, path)[Len(c[path])]
           all   == Entries(Len(c[path]), Second(c, path)[Len(c[path])])
           dirs  == [i \in 1 .. nd |-> all[i]]
           files == [i \in 1 .. n - nd |-> all[nd + i]]
           D     == Sorted(dirs)
           F     == Sorted(files)
           out   == [i \in 1 .. n |-> IF i <= nd THEN D[i] ELSE F[i - nd]]
<1>0. n \in Nat /\ n \in 0 .. n
  OBVIOUS
<1>1. nd \in 0 .. n
  BY <1>0, FirstTypes
<1>2. fill.over = FALSE
  BY <1>0, SecondCounts
<1>3. read_directory(c, path) = [entries |-> out, over |-> fill.over]
  BY DEF read_directory, Second, Dirs
<1>4. \A j \in 1 .. n : all[Place(c, path, j)] = [name |-> names[j], dir |-> DirAt(c, path, j)]
  BY SlotsAreEntries
<1>5. \A i \in 1 .. n : all[i] \in Entry
  BY SlotsAreEntries
<1>6. \A i \in 1 .. n : \E j \in 1 .. n : Place(c, path, j) = i
  BY SlotsArePlaces
<1>7. \A j \in 1 .. n : /\ Place(c, path, j) \in 1 .. n
                       /\ (Place(c, path, j) <= nd) <=> DirAt(c, path, j)
  BY PlacesAreSlots
<1>30. \A j \in 1 .. n : Place(c, path, j) \in 1 .. n
  BY PlacesAreSlots
<1>8. \A j, l \in 1 .. n : names[j] = names[l] => j = l
  BY DEF IsInjective
<1>9. \A j \in 1 .. n : names[j] \in Names
  OBVIOUS
<1>10. ToSet(names) = {names[j] : j \in 1 .. n}
  BY DEF ToSet
<1>11. \A j : DirAt(c, path, j) <=> IsDir(c, path, names[j])
  BY DEF DirAt
<1> HIDE DEF all, nd, n, names, fill
<1>12. ASSUME NEW i \in 1 .. n PROVE all[i].dir <=> i <= nd
  <2>1. PICK j \in 1 .. n : Place(c, path, j) = i
    BY <1>6
  <2>2. all[i] = [name |-> names[j], dir |-> DirAt(c, path, j)]
    BY <1>4, <2>1
  <2>4. all[i].dir = DirAt(c, path, j)
    BY <2>2
  <2>3. QED
    BY <1>7, <2>1, <2>4
<1>13. ASSUME NEW i \in 1 .. n, NEW l \in 1 .. n, all[i].name = all[l].name PROVE i = l
  <2>1. PICK j \in 1 .. n : Place(c, path, j) = i
    BY <1>6
  <2>2. PICK k \in 1 .. n : Place(c, path, k) = l
    BY <1>6
  <2>6. /\ all[i] = [name |-> names[j], dir |-> DirAt(c, path, j)]
        /\ all[l] = [name |-> names[k], dir |-> DirAt(c, path, k)]
    BY <1>4, <2>1, <2>2
  <2>3. all[i].name = names[j] /\ all[l].name = names[k]
    BY <2>6
  <2>4. j = k
    BY <1>8, <1>13, <2>3
  <2>5. QED
    BY <2>1, <2>2, <2>4
<1>14. dirs \in Seq(Entry) /\ Len(dirs) = nd
  <2>1. \A i \in 1 .. nd : all[i] \in Entry
    BY <1>0, <1>1, <1>5
  <2>2. nd \in Nat
    BY <1>0, <1>1
  <2>3. QED
    BY <2>1, <2>2
<1>15. files \in Seq(Entry) /\ Len(files) = n - nd
  <2>1. \A i \in 1 .. n - nd : all[nd + i] \in Entry
    BY <1>0, <1>1, <1>5
  <2>2. n - nd \in Nat
    BY <1>0, <1>1
  <2>3. QED
    BY <2>1, <2>2
<1>16. \A i, l \in 1 .. Len(dirs) : dirs[i].name = dirs[l].name => i = l
  BY <1>0, <1>1, <1>13, <1>14
<1>17. \A i, l \in 1 .. Len(files) : files[i].name = files[l].name => i = l
  <2>1. ASSUME NEW i \in 1 .. n - nd, NEW l \in 1 .. n - nd, files[i].name = files[l].name PROVE i = l
    <3>1. nd + i \in 1 .. n /\ nd + l \in 1 .. n
      BY <1>0, <1>1
    <3>2. nd + i = nd + l
      BY <1>13, <2>1, <3>1
    <3>3. QED
      BY <1>0, <1>1, <3>2
  <2>2. QED
    BY <1>15, <2>1
<1>18. /\ \A k \in 1 .. nd : \E i \in 1 .. nd : D[k] = dirs[i]
       /\ \A i \in 1 .. nd : \E k \in 1 .. nd : D[k] = dirs[i]
       /\ \A k, l \in 1 .. nd : k < l => D[k].name < D[l].name
  <2> HIDE DEF dirs
  <2>1. QED
    BY <1>14, <1>16, SortedIsInOrder
<1>19. /\ \A k \in 1 .. n - nd : \E i \in 1 .. n - nd : F[k] = files[i]
       /\ \A i \in 1 .. n - nd : \E k \in 1 .. n - nd : F[k] = files[i]
       /\ \A k, l \in 1 .. n - nd : k < l => F[k].name < F[l].name
  <2> HIDE DEF files
  <2>1. QED
    BY <1>15, <1>17, SortedIsInOrder
<1>20. \A i \in 1 .. nd : dirs[i] = all[i]
  OBVIOUS
<1>21. \A i \in 1 .. n - nd : files[i] = all[nd + i]
  OBVIOUS
<1> HIDE DEF dirs, files, D, F
<1>22. ASSUME NEW i \in 1 .. n PROVE \E l \in 1 .. n : out[i] = all[l] /\ (i <= nd <=> l <= nd)
  <2>1. CASE i <= nd
    <3>1. i \in 1 .. nd /\ out[i] = D[i]
      BY <1>0, <1>1, <2>1
    <3>2. PICK l \in 1 .. nd : D[i] = dirs[l]
      BY <1>18, <3>1
    <3>3. l \in 1 .. n /\ l <= nd
      BY <1>0, <1>1
    <3>4. QED
      BY <1>20, <2>1, <3>1, <3>2, <3>3
  <2>2. CASE ~(i <= nd)
    <3>1. i - nd \in 1 .. n - nd /\ out[i] = F[i - nd]
      BY <1>0, <1>1, <2>2
    <3>2. PICK l \in 1 .. n - nd : F[i - nd] = files[l]
      BY <1>19, <3>1
    <3>3. nd + l \in 1 .. n /\ ~(nd + l <= nd)
      BY <1>0, <1>1
    <3>4. QED
      BY <1>21, <2>2, <3>1, <3>2, <3>3
  <2>3. QED
    BY <2>1, <2>2
<1>23. ASSUME NEW l \in 1 .. n PROVE \E i \in 1 .. n : out[i] = all[l]
  <2>1. CASE l <= nd
    <3>1. l \in 1 .. nd
      BY <1>0, <1>1, <2>1
    <3>2. PICK k \in 1 .. nd : D[k] = dirs[l]
      BY <1>18, <3>1
    <3>3. k \in 1 .. n /\ out[k] = D[k]
      BY <1>0, <1>1
    <3>4. QED
      BY <1>20, <3>1, <3>2, <3>3
  <2>2. CASE ~(l <= nd)
    <3>1. l - nd \in 1 .. n - nd /\ nd + (l - nd) = l
      BY <1>0, <1>1, <2>2
    <3>2. PICK k \in 1 .. n - nd : F[k] = files[l - nd]
      BY <1>19, <3>1
    <3>3. nd + k \in 1 .. n /\ ~(nd + k <= nd) /\ (nd + k) - nd = k
      BY <1>0, <1>1
    <3>4. out[nd + k] = F[k]
      BY <3>3
    <3>5. QED
      BY <1>21, <3>1, <3>2, <3>3, <3>4
  <2>3. QED
    BY <2>1, <2>2
<1>24. out \in Seq(Entry) /\ Len(out) = n
  <2>1. \A i \in 1 .. n : out[i] \in Entry
    BY <1>5, <1>22
  <2>2. out = [i \in 1 .. n |-> out[i]]
    OBVIOUS
  <2> HIDE DEF out
  <2>3. QED
    BY <1>0, <2>1, <2>2
<1>25. ASSUME NEW i \in 1 .. n, NEW j \in 1 .. n, i < j PROVE Above(out[i], out[j])
  <2>1. /\ out[i].dir <=> i <= nd
        /\ out[j].dir <=> j <= nd
    BY <1>12, <1>22
  <2>2. out[i].dir \in BOOLEAN /\ out[j].dir \in BOOLEAN
    <3>1. out[i] \in Entry /\ out[j] \in Entry
      BY <1>5, <1>22
    <3> HIDE DEF out
    <3>2. QED
      BY <3>1 DEF Entry
  <2>3. CASE i <= nd /\ ~(j <= nd)
    <3> HIDE DEF out
    <3>1. out[i].dir /\ ~out[j].dir
      BY <2>1, <2>3
    <3>2. QED
      BY <3>1 DEF Above
  <2>4. CASE i <= nd /\ j <= nd
    <3>1. i \in 1 .. nd /\ j \in 1 .. nd /\ out[i] = D[i] /\ out[j] = D[j]
      BY <1>0, <1>1, <2>4
    <3>2. out[i].name < out[j].name
      BY <1>18, <1>25, <3>1
    <3> HIDE DEF out
    <3>3. out[i].dir = out[j].dir
      BY <2>1, <2>2, <2>4
    <3>4. QED
      BY <3>2, <3>3 DEF Above
  <2>5. CASE ~(i <= nd) /\ ~(j <= nd)
    <3>1. /\ i - nd \in 1 .. n - nd /\ j - nd \in 1 .. n - nd /\ i - nd < j - nd
          /\ out[i] = F[i - nd] /\ out[j] = F[j - nd]
      BY <1>0, <1>1, <1>25, <2>5
    <3>2. out[i].name < out[j].name
      BY <1>19, <3>1
    <3> HIDE DEF out
    <3>3. out[i].dir = out[j].dir
      BY <2>1, <2>2, <2>5
    <3>4. QED
      BY <3>2, <3>3 DEF Above
  <2>6. CASE ~(i <= nd) /\ j <= nd
    BY <1>0, <1>1, <1>25, <2>6
  <2>7. QED
    BY <2>3, <2>4, <2>5, <2>6
<1> HIDE DEF out
<1>26. ToSet(out) = [name : {x \in ToSet(names) : IsDir(c, path, x)}, dir : {TRUE}]
                     \union [name : {x \in ToSet(names) : ~IsDir(c, path, x)}, dir : {FALSE}]
  <2> DEFINE Rec(j) == [name |-> names[j], dir |-> DirAt(c, path, j)]
             both == [name : {x \in ToSet(names) : IsDir(c, path, x)}, dir : {TRUE}]
                      \union [name : {x \in ToSet(names) : ~IsDir(c, path, x)}, dir : {FALSE}]
  <2>1. ToSet(out) = {out[i] : i \in 1 .. n}
    BY <1>24 DEF ToSet
  <2>2. ASSUME NEW i \in 1 .. n PROVE \E j \in 1 .. n : out[i] = Rec(j)
    <3>1. PICK l \in 1 .. n : out[i] = all[l]
      BY <1>22
    <3>2. PICK j \in 1 .. n : Place(c, path, j) = l
      BY <1>6
    <3>3. QED
      BY <1>4, <3>1, <3>2
  <2>3. ASSUME NEW j \in 1 .. n PROVE \E i \in 1 .. n : out[i] = Rec(j)
    <3>1. Place(c, path, j) \in 1 .. n
      BY <1>30
    <3>2. PICK i \in 1 .. n : out[i] = all[Place(c, path, j)]
      BY <1>23, <3>1
    <3>3. QED
      BY <1>4, <3>2
  <2>4. ToSet(out) = {Rec(j) : j \in 1 .. n}
    <3> HIDE DEF Rec
    <3>1. QED
      BY <2>1, <2>2, <2>3
  <2>5. ASSUME NEW j \in 1 .. n PROVE Rec(j) \in both
    <3>1. names[j] \in ToSet(names)
      BY <1>10
    <3>2. CASE DirAt(c, path, j)
      <4>1. DirAt(c, path, j) = TRUE
        BY <3>2 DEF DirAt, IsDir
      <4>2. QED
        BY <1>11, <3>1, <3>2, <4>1
    <3>3. CASE ~DirAt(c, path, j)
      <4>1. DirAt(c, path, j) = FALSE
        BY <3>3 DEF DirAt, IsDir
      <4>2. QED
        BY <1>11, <3>1, <3>3, <4>1
    <3>4. QED
      BY <3>2, <3>3
  <2>6. ASSUME NEW x \in both PROVE \E j \in 1 .. n : x = Rec(j)
    <3>1. /\ x.name \in ToSet(names) /\ x = [name |-> x.name, dir |-> x.dir]
          /\ \/ x.dir = TRUE /\ IsDir(c, path, x.name)
             \/ x.dir = FALSE /\ ~IsDir(c, path, x.name)
      OBVIOUS
    <3>2. PICK j \in 1 .. n : x.name = names[j]
      BY <1>10, <3>1
    <3>3. IsDir(c, path, x.name) = DirAt(c, path, j)
      BY <3>2 DEF DirAt, names
    <3>5. DirAt(c, path, j) \in BOOLEAN
      BY DEF DirAt, IsDir
    <3>6. x.dir = DirAt(c, path, j)
      <4> HIDE DEF both, Rec
      <4>1. QED
        BY <3>1, <3>3, <3>5
    <3>4. QED
      BY <3>1, <3>2, <3>6
  <2> HIDE DEF Rec, both
  <2>7. {Rec(j) : j \in 1 .. n} = both
    BY <2>5, <2>6
  <2>8. QED
    BY <2>4, <2>7 DEF both
<1>27. read_directory(c, path).over = FALSE /\ read_directory(c, path).entries = out
  BY <1>2, <1>3
<1>28. \A i, j \in 1 .. Len(out) : i < j => Above(out[i], out[j])
  BY <1>24, <1>25
<1>29. QED
  BY <1>24, <1>26, <1>27, <1>28 DEF names

-----------------------------------------------------------------------------
LEMMA Screens == LineN \in Nat /\ LineN > 0
BY BrowserAssumption

LEMMA Sliced ==
  ASSUME NEW names \in Seq(Names), NEW a \in 1 .. Len(names) + 1, NEW b \in a - 1 .. Len(names)
  PROVE  /\ SubSeq(names, a, b) \in Seq(Names) /\ Len(SubSeq(names, a, b)) = b - a + 1
         /\ \A i \in 1 .. b - a + 1 : SubSeq(names, a, b)[i] = names[a + i - 1]
<1>1. a \in Int /\ b \in Int /\ \A i \in a .. b : names[i] \in Names
  OBVIOUS
<1>2. /\ SubSeq(names, a, b) \in Seq(Names)
      /\ Len(SubSeq(names, a, b)) = IF a <= b THEN b - a + 1 ELSE 0
      /\ \A i \in 1 .. b - a + 1 : SubSeq(names, a, b)[i] = names[a + i - 1]
  BY <1>1, SubSeqProperties
<1>3. (IF a <= b THEN b - a + 1 ELSE 0) = b - a + 1
  BY <1>1
<1>4. QED
  BY <1>2, <1>3

LEMMA Inserted ==
  ASSUME NEW names \in Seq(Names), IsInjective(names),
         NEW n \in Names, n \notin ToSet(names), NEW k \in 1 .. Len(names) + 1
  PROVE  InsertAt(names, k, n) \in Seq(Names) /\ IsInjective(InsertAt(names, k, n))
<1> DEFINE new == InsertAt(names, k, n)
           m   == Len(names)
           p   == SubSeq(names, 1, k - 1)
           q   == SubSeq(names, k, Len(names))
<1>9. m \in Nat /\ k \in 1 .. m + 1
  OBVIOUS
<1>10. /\ p \in Seq(Names) /\ Len(p) = k - 1
       /\ \A i \in 1 .. k - 1 : p[i] = names[i]
  <2>1. /\ p \in Seq(Names) /\ Len(p) = (k - 1) - 1 + 1
        /\ \A i \in 1 .. (k - 1) - 1 + 1 : p[i] = names[1 + i - 1]
    <3>1. k - 1 \in 1 - 1 .. Len(names) /\ 1 \in 1 .. Len(names) + 1
      BY <1>9
    <3>2. QED
      BY <3>1, Sliced
  <2> HIDE DEF p
  <2>2. QED
    BY <1>9, <2>1
<1>11. /\ q \in Seq(Names) /\ Len(q) = m - k + 1
       /\ \A i \in 1 .. m - k + 1 : q[i] = names[k + i - 1]
  BY <1>9, Sliced
<1>12. new = (p \o <<n>>) \o q
  BY DEF InsertAt
<1> HIDE DEF p, q
<1>13. /\ p \o <<n>> \in Seq(Names) /\ Len(p \o <<n>>) = k
       /\ \A i \in 1 .. k : (p \o <<n>>)[i] = IF i < k THEN names[i] ELSE n
  <2>1. <<n>> \in Seq(Names) /\ Len(<<n>>) = 1 /\ <<n>>[1] = n
    OBVIOUS
  <2>2. /\ p \o <<n>> \in Seq(Names) /\ Len(p \o <<n>>) = Len(p) + Len(<<n>>)
        /\ \A i \in 1 .. Len(p) + Len(<<n>>) :
             (p \o <<n>>)[i] = IF i <= Len(p) THEN p[i] ELSE <<n>>[i - Len(p)]
    BY <1>10, <2>1, ConcatProperties
  <2> DEFINE one == <<n>>
  <2> HIDE DEF one
  <2>3. Len(p) + Len(one) = k
    BY <1>9, <1>10, <2>1 DEF one
  <2>4. ASSUME NEW i \in 1 .. k PROVE (p \o one)[i] = IF i < k THEN names[i] ELSE n
    <3>1. (p \o one)[i] = IF i <= k - 1 THEN p[i] ELSE one[i - (k - 1)]
      BY <1>10, <2>2, <2>3 DEF one
    <3>2. CASE i < k
      BY <1>9, <1>10, <3>1, <3>2
    <3>3. CASE i = k
      <4>1. i - (k - 1) = 1 /\ ~(i <= k - 1)
        BY <1>9, <3>3
      <4>2. one[1] = n
        BY <2>1 DEF one
      <4>3. QED
        BY <3>1, <3>3, <4>1, <4>2
    <3>4. i < k \/ i = k
      BY <1>9
    <3>5. QED
      BY <3>2, <3>3, <3>4
  <2>5. QED
    BY <2>2, <2>3, <2>4 DEF one
<1>14. /\ (p \o <<n>>) \o q \in Seq(Names) /\ Len((p \o <<n>>) \o q) = m + 1
       /\ \A i \in 1 .. m + 1 : ((p \o <<n>>) \o q)[i] =
            IF i < k THEN names[i] ELSE IF i = k THEN n ELSE names[i - 1]
  <2> DEFINE pn == p \o <<n>>
  <2> HIDE DEF pn
  <2>1. pn \in Seq(Names) /\ Len(pn) = k /\ \A i \in 1 .. k : pn[i] = IF i < k THEN names[i] ELSE n
    BY <1>13 DEF pn
  <2>2. /\ pn \o q \in Seq(Names) /\ Len(pn \o q) = Len(pn) + Len(q)
        /\ \A i \in 1 .. Len(pn) + Len(q) :
             (pn \o q)[i] = IF i <= Len(pn) THEN pn[i] ELSE q[i - Len(pn)]
    BY <1>11, <2>1, ConcatProperties
  <2>3. Len(pn) + Len(q) = m + 1
    BY <1>9, <1>11, <2>1
  <2>4. ASSUME NEW i \in 1 .. m + 1
        PROVE  (pn \o q)[i] = IF i < k THEN names[i] ELSE IF i = k THEN n ELSE names[i - 1]
    <3>1. (pn \o q)[i] = IF i <= k THEN pn[i] ELSE q[i - k]
      BY <2>1, <2>2, <2>3
    <3>2. i <= k => pn[i] = IF i < k THEN names[i] ELSE n
      BY <1>9, <2>1
    <3>3. ~(i <= k) => q[i - k] = names[i - 1]
      <4>1. ASSUME ~(i <= k) PROVE i - k \in 1 .. m - k + 1 /\ k + (i - k) - 1 = i - 1
        BY <1>9, <4>1
      <4>2. QED
        BY <1>11, <4>1
    <3>4. QED
      BY <1>9, <3>1, <3>2, <3>3
  <2>5. QED
    BY <2>2, <2>3, <2>4 DEF pn
<1> HIDE DEF new
<1>1. new \in Seq(Names) /\ Len(new) = Len(names) + 1
  BY <1>12, <1>14
<1>2. ASSUME NEW i \in 1 .. Len(names) + 1
      PROVE  new[i] = IF i < k THEN names[i] ELSE IF i = k THEN n ELSE names[i - 1]
  BY <1>12, <1>14
<1>3. \A i \in 1 .. Len(names) : names[i] # n
  BY DEF ToSet
<1>4. \A i, j \in 1 .. Len(names) : names[i] = names[j] => i = j
  BY DEF IsInjective
<1>5. DOMAIN new = 1 .. Len(names) + 1 /\ Len(names) \in Nat
  BY <1>1
<1> HIDE DEF new
<1>6. ASSUME NEW i \in 1 .. Len(names) + 1, NEW j \in 1 .. Len(names) + 1, i < j
      PROVE  new[i] # new[j]
  <2>1. CASE j < k
    BY <1>2, <1>4, <1>5, <1>6, <2>1
  <2>2. CASE j = k
    BY <1>2, <1>3, <1>5, <1>6, <2>2
  <2>3. CASE j > k
    <3>1. new[j] = names[j - 1] /\ j - 1 \in 1 .. Len(names)
      BY <1>2, <1>5, <1>6, <2>3
    <3>2. CASE i < k
      BY <1>2, <1>4, <1>5, <1>6, <2>3, <3>1, <3>2
    <3>3. CASE i = k
      BY <1>2, <1>3, <1>5, <1>6, <3>1, <3>3
    <3>4. CASE i > k
      <4>1. new[i] = names[i - 1] /\ i - 1 \in 1 .. Len(names) /\ i - 1 # j - 1
        BY <1>2, <1>5, <1>6, <3>4
      <4>2. QED
        BY <1>4, <3>1, <4>1
    <3>5. QED
      BY <1>5, <3>2, <3>3, <3>4
  <2>4. QED
    BY <1>5, <2>1, <2>2, <2>3
<1>7. IsInjective(new)
  <2>1. ASSUME NEW i \in DOMAIN new, NEW j \in DOMAIN new, new[i] = new[j] PROVE i = j
    <3>1. ~(i < j) /\ ~(j < i)
      BY <1>5, <1>6, <2>1
    <3>2. QED
      BY <1>5, <3>1
  <2>2. QED
    BY <2>1 DEF IsInjective
<1>8. QED
  BY <1>1, <1>7 DEF new

LEMMA Shortened ==
  ASSUME NEW names \in Seq(Names), IsInjective(names), NEW k \in 1 .. Len(names)
  PROVE  RemoveAt(names, k) \in Seq(Names) /\ IsInjective(RemoveAt(names, k))
<1> DEFINE new == RemoveAt(names, k)
           m   == Len(names)
           p   == SubSeq(names, 1, k - 1)
           q   == SubSeq(names, k + 1, Len(names))
<1>9. m \in Nat /\ k \in 1 .. m
  OBVIOUS
<1>10. /\ p \in Seq(Names) /\ Len(p) = k - 1
       /\ \A i \in 1 .. k - 1 : p[i] = names[i]
  <2>1. /\ p \in Seq(Names) /\ Len(p) = (k - 1) - 1 + 1
        /\ \A i \in 1 .. (k - 1) - 1 + 1 : p[i] = names[1 + i - 1]
    <3>1. k - 1 \in 1 - 1 .. Len(names) /\ 1 \in 1 .. Len(names) + 1
      BY <1>9
    <3>2. QED
      BY <3>1, Sliced
  <2> HIDE DEF p
  <2>2. QED
    BY <1>9, <2>1
<1>11. /\ q \in Seq(Names) /\ Len(q) = m - k
       /\ \A i \in 1 .. m - k : q[i] = names[k + i]
  <2>1. /\ q \in Seq(Names) /\ Len(q) = m - (k + 1) + 1
        /\ \A i \in 1 .. m - (k + 1) + 1 : q[i] = names[(k + 1) + i - 1]
    <3>1. k + 1 \in 1 .. Len(names) + 1 /\ Len(names) \in (k + 1) - 1 .. Len(names)
      BY <1>9
    <3>2. QED
      BY <3>1, Sliced
  <2> HIDE DEF q
  <2>2. QED
    BY <1>9, <2>1
<1>12. new = p \o q
  BY DEF RemoveAt
<1> HIDE DEF p, q, new
<1>13. /\ p \o q \in Seq(Names) /\ Len(p \o q) = Len(p) + Len(q)
       /\ \A i \in 1 .. Len(p) + Len(q) : (p \o q)[i] = IF i <= Len(p) THEN p[i] ELSE q[i - Len(p)]
  BY <1>10, <1>11, ConcatProperties
<1>14. Len(p) + Len(q) = m - 1
  BY <1>9, <1>10, <1>11
<1>1. new \in Seq(Names) /\ Len(new) = Len(names) - 1
  BY <1>12, <1>13, <1>14
<1>2. ASSUME NEW i \in 1 .. Len(names) - 1
      PROVE  new[i] = names[IF i < k THEN i ELSE i + 1]
  <2>1. new[i] = IF i <= k - 1 THEN p[i] ELSE q[i - (k - 1)]
    BY <1>10, <1>12, <1>13, <1>14
  <2>2. CASE i < k
    BY <1>9, <1>10, <2>1, <2>2
  <2>3. CASE ~(i < k)
    <3>1. i - (k - 1) \in 1 .. m - k /\ k + (i - (k - 1)) = i + 1
      BY <1>9, <2>3
    <3>2. ~(i <= k - 1)
      BY <1>9, <2>3
    <3>3. QED
      BY <1>11, <2>1, <2>3, <3>1, <3>2
  <2>4. QED
    BY <2>2, <2>3
<1>3. \A i, j \in 1 .. Len(names) : names[i] = names[j] => i = j
  BY DEF IsInjective
<1>4. DOMAIN new = 1 .. Len(names) - 1 /\ Len(names) \in Nat
  BY <1>1
<1> HIDE DEF new
<1>5. ASSUME NEW i \in DOMAIN new, NEW j \in DOMAIN new, new[i] = new[j] PROVE i = j
  <2> DEFINE at(l) == IF l < k THEN l ELSE l + 1
  <2>1. /\ at(i) \in 1 .. Len(names) /\ at(j) \in 1 .. Len(names)
        /\ new[i] = names[at(i)] /\ new[j] = names[at(j)]
    BY <1>2, <1>4
  <2>2. at(i) = at(j)
    <3> HIDE DEF at
    <3>1. QED
      BY <1>3, <1>5, <2>1
  <2>3. QED
    BY <1>4, <2>2
<1>6. QED
  BY <1>1, <1>5 DEF new, IsInjective

LEMMA Removed ==
  ASSUME NEW names \in Seq(Names), IsInjective(names), NEW n \in ToSet(names)
  PROVE  Without(names, n) \in Seq(Names) /\ IsInjective(Without(names, n))
<1>1. \E k \in DOMAIN names : names[k] = n
  BY DEF ToSet
<1> DEFINE k == CHOOSE i \in DOMAIN names : names[i] = n
<1>2. k \in 1 .. Len(names)
  BY <1>1
<1>3. Without(names, n) = RemoveAt(names, k)
  BY DEF Without
<1>4. QED
  BY <1>2, <1>3, Shortened

(* Whatever a directory is read from, cursor and screen begin anew, or     *)
(* everything stays.                                                       *)
LEMMA MountKeeps ==
  ASSUME PlaceInv, ScreenIsTrue, ListedInv, NEW c, NEW path, NEW old,
         Proper(c), old \in {screen, COVERED},
         mount_read_directory(c, path, old)
  PROVE  PlaceInv' /\ ScreenIsTrue' /\ ListedInv'
<1> DEFINE r  == read_directory(c, path)
           in == IF path \in DOMAIN c THEN ToSet(c[path]) ELSE {}
<1>1. CASE UNCHANGED browser /\ screen' = old
  <2>1. PlaceInv' /\ ScreenIsTrue'
    BY <1>1 DEF PlaceInv, CursorInView, ScreenIsTrue, browser, DirN
  <2>2. ListedInv'
    BY <1>1 DEF ListedInv, ListingIsDirectory, browser, DirN
  <2>3. QED
    BY <2>1, <2>2
<1>2. CASE /\ listing' = r.entries /\ overrun' = r.over
           /\ cursor' = 0 /\ topitem' = 0
           /\ screen' = show_directory(r.entries, 0, 0)
           /\ listed' = [path |-> path, dirs |-> {n \in in : IsDir(c, path, n)},
                         files |-> {n \in in : ~IsDir(c, path, n)}]
  <2>0. /\ r.over = FALSE /\ r.entries \in Seq(Entry)
        /\ ToSet(r.entries) = [name : {n \in in : IsDir(c, path, n)}, dir : {TRUE}]
                                \union [name : {n \in in : ~IsDir(c, path, n)}, dir : {FALSE}]
        /\ \A i, j \in 1 .. Len(r.entries) : i < j => Above(r.entries[i], r.entries[j])
    <3>1. CASE path \in DOMAIN c
      <4>1. c[path] \in Seq(Names) /\ IsInjective(c[path])
        BY <3>1 DEF Proper
      <4>2. in = ToSet(c[path])
        BY <3>1
      <4> HIDE DEF in, r
      <4>3. QED
        BY <3>1, <4>1, <4>2, DirectoryIsListed DEF r
    <3>2. CASE path \notin DOMAIN c
      <4>1. r = [entries |-> <<>>, over |-> FALSE] /\ in = {}
        BY <3>2 DEF read_directory
      <4>2. r.entries = <<>> /\ r.over = FALSE /\ Len(r.entries) = 0 /\ ToSet(r.entries) = {}
        BY <4>1 DEF ToSet
      <4> HIDE DEF in, r
      <4>3. [name : {n \in in : IsDir(c, path, n)}, dir : {TRUE}]
              \union [name : {n \in in : ~IsDir(c, path, n)}, dir : {FALSE}] = {}
        BY <4>1
      <4>4. \A i, j \in 1 .. Len(r.entries) : i < j => Above(r.entries[i], r.entries[j])
        BY <4>2
      <4>5. r.entries \in Seq(Entry) /\ r.over = FALSE
        BY <4>2
      <4>6. QED
        BY <4>2, <4>3, <4>4, <4>5
    <3>3. QED
      BY <3>1, <3>2
  <2> HIDE DEF r, in
  <2>1. DirN' \in Nat
    BY <1>2, <2>0 DEF DirN
  <2>2. PlaceInv'
    BY <1>2, <2>1, Screens DEF PlaceInv, CursorInView
  <2>3. ScreenIsTrue'
    BY <1>2 DEF ScreenIsTrue
  <2>4. ListedInv'
    BY <1>2, <2>0 DEF ListedInv, ListingIsDirectory, DirN
  <2>5. QED
    BY <2>2, <2>3, <2>4
<1>3. QED
  BY <1>1, <1>2 DEF mount_read_directory

-----------------------------------------------------------------------------
(* Where the cursor goes: by one entry at most, and never off the listing. *)
LEMMA Targets ==
  ASSUME PlaceInv, NEW h
  PROVE  /\ Target(h) \in {cursor - 1, cursor, cursor + 1} /\ Target(h) \in Nat
         /\ DirN > 0 => Target(h) < DirN
         /\ DirN = 0 => Target(h) = cursor
<1> DEFINE down == IF Acts(h["BTN_DOWN"]) /\ cursor < DirN - 1 THEN cursor + 1 ELSE cursor
<1>1. /\ down \in {cursor, cursor + 1}
      /\ DirN > 0 => down < DirN
      /\ DirN = 0 => down = 0
  BY DEF PlaceInv, CursorInView
<1>2. Target(h) \in {down, down - 1} /\ (down = 0 => Target(h) = 0)
      /\ (Target(h) = down - 1 => down > 0)
      /\ (down = cursor + 1 /\ down > 0 => Target(h) \in {cursor, cursor + 1})
      /\ Target(h) \in Nat
  BY <1>1 DEF Target, PlaceInv
<1>3. QED
  BY <1>1, <1>2 DEF PlaceInv, CursorInView

(* The window follows, so that the cursor is in it again.                  *)
LEMMA WindowFollows ==
  ASSUME PlaceInv, NEW to \in Nat, to \in {cursor - 1, cursor, cursor + 1}, to < DirN
  PROVE  /\ Top(to) \in Nat /\ to - Top(to) \in 0 .. LineN - 1
         /\ to - topitem \in 0 .. LineN - 1 => Top(to) = topitem
         /\ to - topitem \notin 0 .. LineN - 1 => Top(to) # topitem
BY Screens DEF PlaceInv, CursorInView, Top

(* The two lines that are drawn make the screen what a redrawing would.    *)
LEMMA RedrawingsAgree ==
  ASSUME PlaceInv, ScreenIsTrue, screen # COVERED, DirN > 0,
         NEW to \in Nat, to < DirN, to - topitem \in 0 .. LineN - 1
  PROVE  Refreshed(to) = show_directory(listing, to, topitem)
<1> DEFINE window == {j \in 0 .. LineN - 1 : j + topitem < Len(listing)}
<1>1. /\ LineN \in Nat /\ topitem \in Nat /\ cursor \in Nat /\ Len(listing) \in Nat
      /\ cursor < Len(listing) /\ cursor - topitem \in 0 .. LineN - 1
  BY Screens DEF PlaceInv, CursorInView, DirN
<1>2. to - topitem \in window /\ cursor - topitem \in window
  BY <1>1 DEF DirN
<1>3. /\ screen.lines = [i \in window |-> listing[i + topitem + 1]]
      /\ screen.lit = {cursor - topitem} \intersect window
  BY DEF ScreenIsTrue, show_directory
<1>4. Redrawn(to - topitem) = [i \in window |-> listing[i + topitem + 1]]
  <2>1. DOMAIN screen.lines \union {to - topitem} = window
    BY <1>2, <1>3
  <2>2. ASSUME NEW i \in window
        PROVE  listing[i + topitem + 1] =
                 IF i = to - topitem THEN listing[to - topitem + topitem + 1] ELSE screen.lines[i]
    BY <1>3
  <2>3. QED
    BY <2>1, <2>2 DEF Redrawn
<1>5. (screen.lit \ {cursor - topitem}) \union {to - topitem} = {to - topitem} \intersect window
  BY <1>2, <1>3
<1>6. QED
  BY <1>4, <1>5 DEF Refreshed, show_directory

LEMMA MovesKeep ==
  ASSUME PlaceInv, ScreenIsTrue, NEW h, Moves(Target(h))
  PROVE  PlaceInv' /\ ScreenIsTrue'
<1> DEFINE to == Target(h)
<1>0. listing' = listing /\ cursor' = to /\ topitem' = Top(to)
  BY DEF Moves
<1>1. CASE DirN = 0
  <2>1. to = cursor /\ cursor = 0
    BY <1>1, Targets DEF PlaceInv
  <2>2. Top(to) = topitem
    BY <1>1, <2>1, Screens DEF Top, PlaceInv
  <2>3. screen' = screen
    BY <2>1 DEF Moves
  <2>4. QED
    BY <1>0, <1>1, <2>1, <2>2, <2>3 DEF PlaceInv, CursorInView, ScreenIsTrue, DirN
<1>2. CASE DirN > 0
  <2>1. to \in Nat /\ to \in {cursor - 1, cursor, cursor + 1} /\ to < DirN
    BY <1>2, Targets
  <2>2. /\ Top(to) \in Nat /\ to - Top(to) \in 0 .. LineN - 1
        /\ to - topitem \in 0 .. LineN - 1 => Top(to) = topitem
        /\ to - topitem \notin 0 .. LineN - 1 => Top(to) # topitem
    BY <2>1, WindowFollows
  <2>3. PlaceInv'
    BY <1>0, <1>2, <2>1, <2>2 DEF PlaceInv, CursorInView, DirN
  <2>4. CASE to = cursor
    <3>1. Top(to) = topitem
      BY <1>2, <2>2, <2>4 DEF PlaceInv, CursorInView
    <3>2. screen' = screen
      BY <2>4 DEF Moves
    <3>3. QED
      BY <1>0, <2>3, <2>4, <3>1, <3>2 DEF ScreenIsTrue
  <2>5. CASE to # cursor /\ to - topitem \notin 0 .. LineN - 1
    <3>1. screen' = show_directory(listing, to, topitem')
      BY <1>0, <2>2, <2>5 DEF Moves
    <3>2. QED
      BY <1>0, <2>3, <3>1 DEF ScreenIsTrue
  <2>6. CASE to # cursor /\ to - topitem \in 0 .. LineN - 1
    <3>1. screen' = IF screen = COVERED THEN COVERED ELSE Refreshed(to)
      BY <2>6 DEF Moves
    <3>2. screen # COVERED => screen' = show_directory(listing, to, topitem)
      BY <1>2, <2>1, <2>6, <3>1, RedrawingsAgree
    <3>3. QED
      BY <1>0, <2>2, <2>3, <2>6, <3>1, <3>2 DEF ScreenIsTrue
  <2>7. QED
    BY <2>4, <2>5, <2>6
<1>3. QED
  BY <1>1, <1>2 DEF PlaceInv

-----------------------------------------------------------------------------
LEMMA KeysKeep ==
  ASSUME BrowserInv, NEW keys \in KeySets, file_browser(keys)
  PROVE  BrowserInv'
<1>1. card' = card
  BY DEF file_browser
<1>2. ASSUME NEW path, mount_read_directory(card, path, screen)
      PROVE  PlaceInv' /\ ScreenIsTrue' /\ ListedInv'
  BY <1>2, MountKeeps DEF BrowserInv, CardInv
<1>3. ASSUME Moves(Target(hold')) PROVE PlaceInv' /\ ScreenIsTrue' /\ ListedInv'
  <2>1. PlaceInv' /\ ScreenIsTrue'
    BY <1>3, MovesKeep DEF BrowserInv
  <2>2. UNCHANGED <<listing, listed, overrun>>
    BY <1>3 DEF Moves
  <2>3. ListedInv'
    BY <2>2 DEF BrowserInv, ListedInv, ListingIsDirectory, DirN
  <2>4. QED
    BY <2>1, <2>3
<1>4. PlaceInv' /\ ScreenIsTrue' /\ ListedInv'
  BY <1>2, <1>3 DEF file_browser
<1>5. QED
  BY <1>1, <1>4 DEF BrowserInv, CardInv

(* A change of the card keeps its directories sequences of names that      *)
(* differ.                                                                 *)
LEMMA ChangesKeepCard ==
  ASSUME CardInv, NEW path \in DOMAIN card
  PROVE  /\ \A n \in NewNames : Save(path, n) \/ handle_mkdir(path, n) => CardInv'
         /\ \A n \in Names : handle_rm(path, n) \/ handle_rmdir(path, n) => CardInv'
<1>0. card[path] \in Seq(Names) /\ IsInjective(card[path]) /\ NewNames \subseteq Names
  BY BrowserAssumption DEF CardInv, Proper
<1>1. ASSUME NEW n \in NewNames, Save(path, n) PROVE CardInv'
  <2>1. PICK k \in 1 .. Len(card[path]) + 1 : card' = [card EXCEPT ![path] = InsertAt(@, k, n)]
    BY <1>1 DEF Save
  <2>2. n \in Names /\ n \notin ToSet(card[path])
    BY <1>0, <1>1 DEF Save
  <2>3. InsertAt(card[path], k, n) \in Seq(Names) /\ IsInjective(InsertAt(card[path], k, n))
    BY <1>0, <2>2, Inserted
  <2>4. QED
    BY <2>1, <2>3 DEF CardInv, Proper
<1>2. ASSUME NEW n \in NewNames, handle_mkdir(path, n) PROVE CardInv'
  <2>1. PICK k \in 1 .. Len(card[path]) + 1 :
          card' = [p \in DOMAIN card \union {Append(path, n)} |->
                     IF p = path THEN InsertAt(card[p], k, n)
                     ELSE IF p \in DOMAIN card THEN card[p] ELSE <<>>]
    BY <1>2 DEF handle_mkdir, Reread
  <2>2. n \in Names /\ n \notin ToSet(card[path])
    BY <1>0, <1>2 DEF handle_mkdir
  <2>3. InsertAt(card[path], k, n) \in Seq(Names) /\ IsInjective(InsertAt(card[path], k, n))
    BY <1>0, <2>2, Inserted
  <2>4. <<>> \in Seq(Names) /\ IsInjective(<<>>)
    BY DEF IsInjective
  <2>5. QED
    BY <2>1, <2>3, <2>4 DEF CardInv, Proper
<1>3. ASSUME NEW n \in Names, handle_rm(path, n) PROVE CardInv'
  <2>1. card' = [card EXCEPT ![path] = Without(@, n)] /\ n \in ToSet(card[path])
    BY <1>3 DEF handle_rm, Reread
  <2>2. Without(card[path], n) \in Seq(Names) /\ IsInjective(Without(card[path], n))
    BY <1>0, <2>1, Removed
  <2>3. QED
    BY <2>1, <2>2 DEF CardInv, Proper
<1>4. ASSUME NEW n \in Names, handle_rmdir(path, n) PROVE CardInv'
  <2>1. /\ card' = [p \in DOMAIN card \ {Append(path, n)} |->
                      IF p = path THEN Without(card[p], n) ELSE card[p]]
        /\ n \in ToSet(card[path])
    BY <1>4 DEF handle_rmdir, Reread
  <2>2. Without(card[path], n) \in Seq(Names) /\ IsInjective(Without(card[path], n))
    BY <1>0, <2>1, Removed
  <2>3. QED
    BY <2>1, <2>2 DEF CardInv, Proper
<1>5. QED
  BY <1>1, <1>2, <1>3, <1>4

(* The directory is read again from the card as it is then.                *)
LEMMA RereadKeeps ==
  ASSUME BrowserInv, CardInv', NEW c, Reread(c)
  PROVE  PlaceInv' /\ ScreenIsTrue' /\ ListedInv'
<1>1. Proper(c)
  BY DEF CardInv, Reread
<1>2. QED
  BY <1>1, MountKeeps DEF BrowserInv, Reread

LEMMA BrowserStep == BrowserInv /\ [BrowserNext]_browser_vars => BrowserInv'
<1> SUFFICES ASSUME BrowserInv, [BrowserNext]_browser_vars PROVE BrowserInv'
  OBVIOUS
<1>1. ASSUME NEW keys \in KeySets, file_browser(keys) PROVE BrowserInv'
  BY <1>1, KeysKeep
<1>2. ASSUME UNCHANGED <<card, browser>>, screen' \in {screen, COVERED} PROVE BrowserInv'
  BY <1>2 DEF BrowserInv, CardInv, PlaceInv, CursorInView, ScreenIsTrue, ListedInv, ListingIsDirectory,
              browser, DirN
<1>3. CASE Program
  BY <1>2, <1>3 DEF Program
<1>4. CASE Attach
  BY <1>2, <1>4 DEF Attach
<1>5. ASSUME NEW path, NEW old, old \in {screen, COVERED}, card' = card,
             mount_read_directory(card, path, old)
      PROVE  BrowserInv'
  BY <1>5, MountKeeps DEF BrowserInv, CardInv
<1>6. CASE ProgramPassthru
  BY <1>5, <1>6 DEF ProgramPassthru
<1>7. ASSUME NEW path \in WebPaths, handle_dir(path) PROVE BrowserInv'
  BY <1>5, <1>7 DEF handle_dir
<1>8. ASSUME NEW path \in DOMAIN card, NEW n \in NewNames, Save(path, n) PROVE BrowserInv'
  <2>1. CardInv'
    BY <1>8, ChangesKeepCard DEF BrowserInv
  <2>2. QED
    BY <1>8, <2>1 DEF Save, BrowserInv, PlaceInv, CursorInView, ScreenIsTrue, ListedInv, ListingIsDirectory,
                      browser, DirN
<1>9. ASSUME NEW path \in DOMAIN card, NEW n \in NewNames, handle_mkdir(path, n) PROVE BrowserInv'
  <2>1. CardInv'
    BY <1>9, ChangesKeepCard DEF BrowserInv
  <2>2. QED
    BY <1>9, <2>1, RereadKeeps DEF handle_mkdir, BrowserInv
<1>10. ASSUME NEW path \in DOMAIN card, NEW n \in Names, handle_rm(path, n) \/ handle_rmdir(path, n)
       PROVE  BrowserInv'
  <2>1. CardInv'
    BY <1>10, ChangesKeepCard DEF BrowserInv
  <2>2. QED
    BY <1>10, <2>1, RereadKeeps DEF handle_rm, handle_rmdir, BrowserInv
<1>11. CASE UNCHANGED browser_vars
  BY <1>2, <1>11 DEF browser_vars
<1>12. QED
  BY <1>1, <1>3, <1>4, <1>6, <1>7, <1>8, <1>9, <1>10, <1>11 DEF BrowserNext

LEMMA BrowserBegins == BrowserInit => BrowserInv
<1> SUFFICES ASSUME BrowserInit PROVE BrowserInv
  OBVIOUS
<1>1. CardInv
  BY BrowserAssumption DEF BrowserInit, CardInv, Proper
<1>2. Len(listing) = 0 /\ listing \in Seq(Entry) /\ ToSet(listing) = {}
  BY DEF BrowserInit, ToSet
<1>3. PlaceInv /\ ScreenIsTrue
  BY <1>2, Screens DEF BrowserInit, PlaceInv, CursorInView, ScreenIsTrue, DirN
<1>4. [name : listed.dirs, dir : {TRUE}] \union [name : listed.files, dir : {FALSE}] = {}
  <2>1. listed.dirs = {} /\ listed.files = {}
    BY DEF BrowserInit
  <2>2. QED
    BY <2>1
<1>5. ListedInv
  BY <1>2, <1>4 DEF BrowserInit, ListedInv, ListingIsDirectory, DirN
<1>6. QED
  BY <1>1, <1>3, <1>5 DEF BrowserInv

THEOREM BrowserInvHolds == BrowserSpec => []BrowserInv
BY BrowserBegins, BrowserStep, PTL DEF BrowserSpec

-----------------------------------------------------------------------------
(* The lines redrawn one at a time (storage.cpp, refresh_dir_line) always  *)
(* make up the screen that a redrawing would give.                         *)
THEOREM ScreenIsTrueAlways == BrowserSpec => []ScreenIsTrue
BY BrowserInvHolds, PTL DEF BrowserInv

(* The cursor is on an entry, and in the window, whenever there is one.    *)
THEOREM CursorInViewAlways == BrowserSpec => []CursorInView
BY BrowserInvHolds, PTL DEF BrowserInv, PlaceInv

(* After any change of the card and any key the listing is what was read,  *)
(* every entry once and in order, however often the counts and lengths of  *)
(* the first pass (storage.cpp, read_directory) are used in the second.    *)
THEOREM ListingIsDirectoryAlways == BrowserSpec => []ListingIsDirectory
BY BrowserInvHolds, PTL DEF BrowserInv, ListedInv

-----------------------------------------------------------------------------
(* The rest of what CursorInv says: paths are names that were listed or    *)
(* asked for, and the hold counters stop.                                  *)
KeysInv == DirPath \in Seq(Names) /\ hold \in [Buttons -> 0 .. HoldMax] /\ sd_detach \in BOOLEAN

LEMMA HeldStops ==
  ASSUME KeysInv, NEW keys
  PROVE  Held(keys) \in [Buttons -> 0 .. HoldMax]
<1>1. HoldMax \in Nat
  BY BrowserAssumption
<1>2. ASSUME NEW b \in Buttons
      PROVE  (IF b \notin keys THEN 0 ELSE IF hold[b] < HoldMax THEN hold[b] + 1 ELSE hold[b]) \in 0 .. HoldMax
  <2>1. hold[b] \in 0 .. HoldMax
    BY DEF KeysInv
  <2>2. QED
    BY <1>1, <2>1
<1>3. QED
  BY <1>2 DEF Held

LEMMA UpIsPath ==
  ASSUME NEW path \in Seq(Names)
  PROVE  Up(path) \in Seq(Names)
<1>1. CASE path = <<>>
  BY <1>1 DEF Up
<1>2. CASE path # <<>>
  <2>1. Len(path) \in Nat /\ Len(path) > 0
    BY <1>2, EmptySeq
  <2>2. SubSeq(path, 1, Len(path) - 1) \in Seq(Names)
    BY <2>1, Sliced
  <2>3. QED
    BY <1>2, <2>2 DEF Up, Front
<1>3. QED
  BY <1>1, <1>2

LEMMA PathsKept == BrowserInv /\ KeysInv /\ [BrowserNext]_browser_vars => KeysInv'
<1> SUFFICES ASSUME BrowserInv, KeysInv, [BrowserNext]_browser_vars PROVE KeysInv'
  OBVIOUS
<1>1. ASSUME NEW c, NEW path \in Seq(Names), NEW old, mount_read_directory(c, path, old),
             UNCHANGED <<hold, sd_detach>>
      PROVE  KeysInv'
  BY <1>1 DEF mount_read_directory, KeysInv
<1>2. ASSUME UNCHANGED <<DirPath, hold>>, sd_detach' \in BOOLEAN PROVE KeysInv'
  BY <1>2 DEF KeysInv
<1>3. ASSUME NEW keys \in KeySets, file_browser(keys) PROVE KeysInv'
  <2>1. hold' \in [Buttons -> 0 .. HoldMax] /\ sd_detach' = sd_detach
    BY <1>3, HeldStops DEF file_browser
  <2>2. CASE mount_read_directory(card, Up(DirPath), screen)
    <3>1. DirPath' = Up(DirPath)
      BY <2>2 DEF mount_read_directory
    <3>2. QED
      BY <2>1, <3>1, UpIsPath DEF KeysInv
  <2>3. CASE cursor < DirN /\ mount_read_directory(card, Append(DirPath, Pointed.name), screen)
    <3>1. cursor + 1 \in 1 .. Len(listing) /\ listing \in Seq(Entry)
      BY <2>3 DEF BrowserInv, PlaceInv, ListedInv, DirN
    <3>2. Pointed.name \in Names
      BY <3>1, EntriesHaveNames DEF Pointed
    <3>3. DirPath' = Append(DirPath, Pointed.name)
      BY <2>3 DEF mount_read_directory
    <3>4. QED
      BY <2>1, <3>2, <3>3 DEF KeysInv
  <2>4. CASE Moves(Target(hold'))
    BY <2>1, <2>4 DEF Moves, KeysInv
  <2>5. QED
    BY <1>3, <2>2, <2>3, <2>4 DEF file_browser
<1>4. CASE Program
  BY <1>2, <1>4 DEF Program, KeysInv
<1>5. CASE ProgramPassthru
  BY <1>1, <1>5 DEF ProgramPassthru, KeysInv
<1>6. CASE Attach
  BY <1>2, <1>6 DEF Attach
<1>7. ASSUME NEW path \in WebPaths, handle_dir(path) PROVE KeysInv'
  BY <1>1, <1>7, BrowserAssumption DEF handle_dir
<1>8. ASSUME NEW path \in DOMAIN card, NEW n, Save(path, n) PROVE KeysInv'
  BY <1>2, <1>8 DEF Save, KeysInv
<1>9. ASSUME NEW c, Reread(c) PROVE KeysInv'
  BY <1>1, <1>9 DEF Reread, KeysInv
<1>10. ASSUME NEW path \in DOMAIN card, NEW n,
              handle_mkdir(path, n) \/ handle_rm(path, n) \/ handle_rmdir(path, n)
       PROVE  KeysInv'
  BY <1>9, <1>10 DEF handle_mkdir, handle_rm, handle_rmdir
<1>11. CASE UNCHANGED browser_vars
  BY <1>2, <1>11 DEF browser_vars, KeysInv
<1>12. QED
  BY <1>3, <1>4, <1>5, <1>6, <1>7, <1>8, <1>10, <1>11 DEF BrowserNext

LEMMA KeysBegin == BrowserInit => KeysInv
<1> SUFFICES ASSUME BrowserInit PROVE KeysInv
  OBVIOUS
<1>1. HoldMax \in Nat
  BY BrowserAssumption
<1>2. QED
  BY <1>1 DEF BrowserInit, KeysInv

LEMMA CursorFollows == BrowserInv /\ KeysInv => CursorInv
<1> SUFFICES ASSUME BrowserInv, KeysInv PROVE CursorInv
  OBVIOUS
<1>1. \A i \in 1 .. DirN : listing[i].name \in Names
  BY EntriesHaveNames DEF BrowserInv, ListedInv, DirN
<1>2. BrowserTypeOK
  BY <1>1 DEF BrowserInv, PlaceInv, ListedInv, KeysInv, BrowserTypeOK
<1>3. QED
  BY <1>2 DEF BrowserInv, PlaceInv, CursorInv

(* Every variable of the browser keeps its type: what the keys make a path *)
(* of is listed, and no hold counter runs over; and the cursor is in view. *)
THEOREM CursorInvAlways == BrowserSpec => []CursorInv
<1>1. BrowserInit => BrowserInv /\ KeysInv
  BY BrowserBegins, KeysBegin
<1>2. (BrowserInv /\ KeysInv) /\ [BrowserNext]_browser_vars => (BrowserInv /\ KeysInv)'
  BY BrowserStep, PathsKept
<1>3. QED
  BY <1>1, <1>2, CursorFollows, PTL DEF BrowserSpec

-----------------------------------------------------------------------------
(* The action property that ChosenWasLit asserts of every step.            *)
ChoiceStep ==
  request = NONE /\ request' # NONE /\ screen # COVERED /\ DirPath = listed.path =>
    \E line \in screen.lit :
      /\ screen.lit = {line}
      /\ request'.file = Append(listed.path, screen.lines[line].name)

LEMMA ChoiceIsLit == BrowserInv /\ [BrowserNext]_browser_vars => ChoiceStep
<1> SUFFICES ASSUME BrowserInv, [BrowserNext]_browser_vars, request = NONE, request' # NONE,
                    screen # COVERED, DirPath = listed.path
             PROVE  \E line \in screen.lit :
                      /\ screen.lit = {line}
                      /\ request'.file = Append(listed.path, screen.lines[line].name)
  BY DEF ChoiceStep
<1>1. PICK keys \in KeySets : file_browser(keys)
  BY DEF BrowserNext, browser_vars, Program, ProgramPassthru, Attach, handle_dir, Save, handle_mkdir,
         handle_rm, handle_rmdir, Reread
<1>2. request'.file = Append(DirPath, Pointed.name) /\ cursor < DirN
  BY <1>1 DEF file_browser
<1> DEFINE window == {j \in 0 .. LineN - 1 : j + topitem < Len(listing)}
           line == cursor - topitem
<1>3. line \in window /\ line + topitem + 1 = cursor + 1
  BY <1>2, Screens DEF BrowserInv, PlaceInv, CursorInView, DirN
<1>4. /\ screen.lines = [i \in window |-> listing[i + topitem + 1]]
      /\ screen.lit = {line} \intersect window
  BY DEF BrowserInv, ScreenIsTrue, show_directory
<1>5. screen.lit = {line} /\ screen.lines[line] = listing[cursor + 1]
  BY <1>3, <1>4
<1>6. QED
  BY <1>2, <1>5 DEF Pointed

(* The file that a key programs is the one that was lit, if the screen     *)
(* shows the listing and the path is the listing's (storage.cpp, line 351).*)
THEOREM ChosenWasLitAlways == BrowserSpec => ChosenWasLit
<1>1. BrowserInv /\ [BrowserNext]_browser_vars => [ChoiceStep]_browser_vars
  BY ChoiceIsLit
<1>2. QED
  BY <1>1, BrowserInvHolds, PTL DEF BrowserSpec, ChosenWasLit, ChoiceStep

-----------------------------------------------------------------------------
(* The parts that may lie in the line: a reply sent since the block in     *)
(* hand was sent last is half of the checksum that the core holds.         *)
Sincere == {p \in Part : p.fresh => p.sum = held_sum}

(* Where the core's checksum comes from, as long as no empty block was     *)
(* sent: from before the upload, from garbage, or from a block up to the   *)
(* one in hand, which is then in memory.                                   *)
HeldInv ==
  ~empty => \/ held_sum \in {before, BAD}
            \/ held \in Block /\ held <= block /\ held_sum = Sum[held] /\ memory[held] = "good"

(* What JumpIsSafe says of all blocks, of the blocks accepted so far.      *)
Safe(b) == trust[b] # "none" /\ (trust[b] = "fresh" /\ Unmistakable(b) => memory[b] = "good")
AcceptedInv == \A b \in Block : b < block => Safe(b)

ControlInv ==
  /\ empty => cut
  /\ jumped => block = Blocks + 1
  /\ pc \in {"prompt", "block", "checksum"} => block \in Block /\ retry_block > 0
  /\ pc = "checksum" => retry_crc > 0

UploadInv == TypeOK /\ rx \in Seq(Sincere) /\ HeldInv /\ AcceptedInv /\ ControlInv

-----------------------------------------------------------------------------
(* The checksums of the file's blocks, and the parts of replies.           *)
LEMMA Types ==
  /\ Blocks \in Nat \ {0} /\ Retry_block \in Nat \ {0} /\ Retry_crc \in Nat \ {0}
  /\ \A b \in Block : b \in Nat /\ Sum[b] \in Checksums /\ Sum[b] # BAD
  /\ ZERO \in Checksums /\ BAD \in Checksums /\ BAD # ZERO
BY UploadAssumption DEF Block, Checksums

(* The first state has nothing in the line and no block accepted.          *)
LEMMA UploadInit == Init => UploadInv
<1> SUFFICES ASSUME Init PROVE UploadInv
  OBVIOUS
<1>1. TypeOK
  <2>1. rx \in Seq(Part)
    BY DEF Init
  <2>2. held_sum \in Checksums /\ before \in Checksums
    BY DEF Init
  <2>3. /\ memory \in [Block -> {"none", "good", "garbled"}]
        /\ trust \in [Block -> {"none", "fresh", "stale", "unread"}]
    BY DEF Init
  <2>4. fault \in BOOLEAN /\ jumped \in BOOLEAN /\ empty \in BOOLEAN /\ cut \in BOOLEAN
    BY DEF Init
  <2>5. QED
    BY <2>1, <2>2, <2>3, <2>4, Types DEF Init, TypeOK
<1>2. HeldInv /\ AcceptedInv /\ ControlInv
  BY Types DEF Init, HeldInv, AcceptedInv, ControlInv, Block
<1>3. rx \in Seq(Sincere)
  BY DEF Init
<1>4. QED
  BY <1>1, <1>2, <1>3 DEF UploadInv

(* A block is read: an empty one only if the card was taken away, and then *)
(* all that follow are empty.                                              *)
LEMMA ReadBlockKeeps == ASSUME UploadInv, ReadBlock PROVE UploadInv'
<1> USE Types DEF UploadInv
<1>1. TypeOK'
  BY DEF ReadBlock, TypeOK, core
<1>2. (rx \in Seq(Sincere))'
  BY DEF ReadBlock, core, Sincere
<1>3. HeldInv'
  BY DEF ReadBlock, HeldInv, ControlInv, core
<1>4. AcceptedInv'
  BY DEF ReadBlock, AcceptedInv, Safe, Unmistakable, core
<1>5. ControlInv'
  BY DEF ReadBlock, ControlInv, TypeOK, Block
<1>6. QED
  BY <1>1, <1>2, <1>3, <1>4, <1>5

(* The prompt leaves the line as it was, empty, or with text in it.        *)
LEMMA PromptKeeps == ASSUME UploadInv, Prompt PROVE UploadInv'
<1> USE Types DEF UploadInv
<1>1. Junk \in Sincere /\ Junk \in Part
  BY DEF Junk, Sincere, Part
<1>2. Sincere' = Sincere
  BY DEF Prompt, core, Sincere
<1>3. rx' \in Seq(Sincere) /\ rx' \in Seq(Part)
  <2>1. <<Junk>> \in Seq(Sincere) /\ <<Junk>> \in Seq(Part)
    BY <1>1
  <2>2. rx' = <<>> \/ rx' = <<Junk>> \/ rx' = rx
    BY DEF Prompt
  <2>3. <<>> \in Seq(Sincere) /\ <<>> \in Seq(Part)
    OBVIOUS
  <2>4. rx \in Seq(Sincere) /\ rx \in Seq(Part)
    BY DEF TypeOK
  <2>5. QED
    BY <2>1, <2>2, <2>3, <2>4, Zenon
<1>4. TypeOK'
  <2>1. fault' \in BOOLEAN
    BY DEF Prompt
  <2>2. QED
    BY <1>3, <2>1 DEF Prompt, TypeOK, core
<1>5. HeldInv' /\ AcceptedInv' /\ ControlInv'
  BY DEF Prompt, HeldInv, AcceptedInv, ControlInv, Safe, Unmistakable, core
<1>6. QED
  BY <1>2, <1>3, <1>4, <1>5

(* A block is sent: what lies in the line is no answer to it, and if it    *)
(* arrives it is in memory and its checksum held.                          *)
LEMMA SendBlockKeeps == ASSUME UploadInv, SendBlock PROVE UploadInv'
<1> USE Types DEF UploadInv
<1>1. block \in Block
  BY DEF SendBlock, ControlInv
<1>2. \A i \in DOMAIN rx : rx'[i] \in Part /\ rx'[i].fresh = FALSE
  <2> SUFFICES ASSUME NEW i \in DOMAIN rx PROVE rx'[i] \in Part /\ rx'[i].fresh = FALSE
    OBVIOUS
  <2>1. rx'[i] = [rx[i] EXCEPT !.fresh = FALSE]
    BY DEF SendBlock
  <2>2. rx[i] \in Part
    BY DEF TypeOK
  <2>3. QED
    BY <2>1, <2>2 DEF Part
<1>3. rx' \in Seq(Part) /\ rx' \in Seq(Sincere')
  <2>1. DOMAIN rx' = 1 .. Len(rx) /\ Len(rx) \in Nat
    BY DEF SendBlock, TypeOK
  <2>2. \A i \in DOMAIN rx : rx'[i] \in Sincere'
    BY <1>2 DEF Sincere, Part
  <2>3. rx' = [i \in 1 .. Len(rx) |-> rx'[i]]
    BY <2>1 DEF SendBlock
  <2>4. QED
    BY <1>2, <2>1, <2>2, <2>3
<1>4. TypeOK'
  <2>1. held' \in 0 .. Blocks /\ held_sum' \in Checksums
    BY <1>1 DEF SendBlock, TypeOK, core, Block
  <2>2. memory' \in [Block -> {"none", "good", "garbled"}]
    BY <1>1 DEF SendBlock, TypeOK, core
  <2>3. fault' \in BOOLEAN
    BY DEF SendBlock, TypeOK
  <2>4. QED
    BY <1>3, <2>1, <2>2, <2>3 DEF SendBlock, TypeOK
<1>5. HeldInv'
  BY <1>1 DEF SendBlock, HeldInv, TypeOK, core, Block
<1>6. AcceptedInv'
  BY <1>1 DEF SendBlock, AcceptedInv, Safe, Unmistakable, TypeOK, core, Block
<1>7. ControlInv'
  BY DEF SendBlock, ControlInv
<1>8. QED
  BY <1>3, <1>4, <1>5, <1>6, <1>7

-----------------------------------------------------------------------------
(* A block that is accepted on fresh parts that fit, and that nothing      *)
(* before it can be mistaken for, is in memory.                            *)
LEMMA FreshIsGood ==
  ASSUME UploadInv, block \in Block, ~empty, held_sum = Sum[block], Unmistakable(block)
  PROVE  memory[block] = "good"
<1>1. held_sum \notin {before, BAD}
  BY Types DEF Unmistakable
<1>2. held \in Block /\ held <= block /\ held_sum = Sum[held] /\ memory[held] = "good"
  BY <1>1 DEF UploadInv, HeldInv
<1>3. ~(held \in 1 .. block - 1)
  BY <1>2 DEF Unmistakable
<1>4. held = block
  BY <1>2, <1>3, Types DEF Block
<1>5. QED
  BY <1>2, <1>4

(* Refusing a block changes nothing that was accepted.                     *)
LEMMA RefusedKeeps ==
  ASSUME UploadInv, pc = "checksum", Refused, UNCHANGED <<empty, cut, core, before>>
  PROVE  HeldInv' /\ AcceptedInv' /\ ControlInv'
         /\ pc' \in {"file", "prompt", "block"} /\ retry_block' \in 0 .. Retry_block
         /\ block' = block /\ block_retval' \in {0, 1} /\ trust' = trust /\ jumped' = jumped
<1> USE Types DEF UploadInv
<1>1. HeldInv' /\ AcceptedInv'
  BY DEF Refused, HeldInv, AcceptedInv, Safe, Unmistakable, core
<1>2. block \in Block /\ retry_block \in 1 .. Retry_block
  BY DEF ControlInv, TypeOK
<1>3. QED
  BY <1>1, <1>2 DEF Refused, ControlInv, TypeOK

(* Accepting one keeps the invariant if the reason for it is sound.        *)
LEMMA AcceptedKeeps ==
  ASSUME UploadInv, pc = "checksum", NEW why \in {"fresh", "stale", "unread"}, Accepted(why),
         why = "fresh" => empty \/ held_sum = Sum[block],
         UNCHANGED <<empty, cut, core, before>>
  PROVE  HeldInv' /\ AcceptedInv' /\ ControlInv'
         /\ pc' = "file" /\ retry_block' \in 0 .. Retry_block /\ block' \in 1 .. Blocks + 1
         /\ block_retval' \in {0, 1} /\ jumped' \in BOOLEAN
         /\ trust' \in [Block -> {"none", "fresh", "stale", "unread"}]
<1> USE Types DEF UploadInv
<1>1. block \in Block /\ pc' = "file" /\ retry_block' = 0 /\ block_retval' = block_retval
  BY DEF Accepted, ControlInv
<1>2. CASE empty
  BY <1>1, <1>2 DEF Accepted, HeldInv, AcceptedInv, ControlInv, Safe, Unmistakable, core, TypeOK
<1>3. CASE ~empty
  <2>1. /\ block' = block + 1 /\ trust' = [trust EXCEPT ![block] = why]
        /\ jumped' = (jumped \/ block = Blocks)
    BY <1>3 DEF Accepted, LastBlock
  <2>2. HeldInv'
    BY <1>1, <2>1 DEF HeldInv, core, Block
  <2>3. why = "fresh" /\ Unmistakable(block) => memory[block] = "good"
    BY <1>1, <1>3, FreshIsGood
  <2>4. AcceptedInv'
    <3> SUFFICES ASSUME NEW b \in Block, b < block + 1 PROVE Safe(b)'
      BY <2>1 DEF AcceptedInv
    <3>1. (Unmistakable(b) <=> Unmistakable(b)') /\ memory' = memory
      BY DEF Unmistakable, core
    <3>2. CASE b = block
      <4>1. trust'[b] = why
        BY <1>1, <2>1, <3>2 DEF TypeOK
      <4>2. QED
        BY <2>3, <3>1, <3>2, <4>1 DEF Safe
    <3>3. CASE b # block
      <4>1. b < block /\ trust'[b] = trust[b]
        BY <1>1, <2>1, <3>3 DEF TypeOK, Block
      <4>2. QED
        BY <3>1, <4>1 DEF Safe, AcceptedInv
    <3>4. QED
      BY <3>2, <3>3
  <2>5. ControlInv'
    <3>1. jumped => block = Blocks + 1
      BY DEF ControlInv
    <3>2. ~jumped
      BY <1>1, <3>1 DEF Block
    <3>3. jumped' => block' = Blocks + 1
      BY <2>1, <3>2
    <3>4. QED
      BY <1>1, <3>3 DEF ControlInv
  <2>6. jumped' \in BOOLEAN
    BY <2>1
  <2>7. QED
    BY <1>1, <2>1, <2>2, <2>4, <2>5, <2>6 DEF TypeOK, Block
<1>4. QED
  BY <1>2, <1>3

(* What comes before the timeout is compared; a value made of two fresh    *)
(* parts is the core's checksum.                                           *)
LEMMA ReceiveCrcKeeps == ASSUME UploadInv, ReceiveCrc PROVE UploadInv'
<1> USE Types DEF UploadInv
<1>1. UNCHANGED <<empty, cut, core, before>> /\ pc = "checksum" /\ block \in Block
  BY DEF ReceiveCrc, ControlInv
<1>2. PICK reply \in Replies, taken \in 0 .. 2 :
        LET line == rx \o reply
        IN  /\ Len(line) <= MaxRx /\ taken <= Len(line)
            /\ rx' = SubSeq(line, taken + 1, Len(line))
            /\ fault' = (fault \/ Len(reply) < 2 \/ taken < 2)
            /\ IF taken = 2
                 THEN /\ Compared(SumOf(line[1], line[2]),
                                  IF line[1].fresh /\ line[2].fresh THEN "fresh" ELSE "stale")
                      /\ retry_crc' = 0
               ELSE IF retry_crc > 1
                 THEN /\ retry_crc' = retry_crc - 1
                      /\ UNCHANGED <<pc, block, retry_block, block_retval, trust, jumped>>
               ELSE /\ (Accepted("unread") \/ Refused)
                    /\ retry_crc' = 0
  BY DEF ReceiveCrc
<1> DEFINE line == rx \o reply
<1>3. reply \in Seq(Sincere) /\ reply \in Seq(Part)
  <2>1. \A h \in {1, 2} : Halves[h] \in Part /\ Halves[h] \in Sincere
    BY DEF Halves, Part, Sincere, TypeOK
  <2> HIDE DEF UploadInv
  <2>2. \/ reply = <<>> \/ reply = <<Halves[1]>> \/ reply = <<Halves[2]>>
        \/ reply = <<Halves[1], Halves[2]>>
    BY DEF Replies
  <2>3. /\ <<>> \in Seq(Sincere) /\ <<>> \in Seq(Part)
        /\ \A h \in {1, 2} : <<Halves[h]>> \in Seq(Sincere) /\ <<Halves[h]>> \in Seq(Part)
        /\ <<Halves[1], Halves[2]>> \in Seq(Sincere) /\ <<Halves[1], Halves[2]>> \in Seq(Part)
    BY <2>1
  <2>4. QED
    BY <2>2, <2>3, Zenon
<1>4. line \in Seq(Sincere) /\ line \in Seq(Part) /\ Len(line) \in Nat
  BY <1>3 DEF TypeOK
<1>5. rx' \in Seq(Sincere) /\ rx' \in Seq(Part)
  <2>1. rx' = SubSeq(line, taken + 1, Len(line)) /\ taken + 1 \in Nat
    BY <1>2
  <2> HIDE DEF line
  <2>2. QED
    BY <1>4, <2>1
<1>6. (rx \in Seq(Sincere))'
  BY <1>1, <1>5 DEF core, Sincere
<1>7. fault' \in BOOLEAN /\ retry_crc' \in 0 .. Retry_crc
  <2>1. fault' \in BOOLEAN
    BY <1>2
  <2>2. retry_crc \in 0 .. Retry_crc
    BY DEF TypeOK
  <2>3. retry_crc' = 0 \/ (retry_crc > 1 /\ retry_crc' = retry_crc - 1)
    BY <1>2
  <2>4. QED
    BY <2>1, <2>2, <2>3
<1> DEFINE Kept ==
      /\ HeldInv' /\ AcceptedInv' /\ ControlInv'
      /\ pc' \in {"file", "prompt", "block", "checksum"} /\ retry_block' \in 0 .. Retry_block
      /\ block' \in 1 .. Blocks + 1 /\ block_retval' \in {0, 1} /\ jumped' \in BOOLEAN
      /\ trust' \in [Block -> {"none", "fresh", "stale", "unread"}]
<1>8. Refused => Kept
  BY <1>1, RefusedKeeps DEF TypeOK
<1>9. ASSUME taken = 2 PROVE Kept
  <2> DEFINE why == IF line[1].fresh /\ line[2].fresh THEN "fresh" ELSE "stale"
  <2>1. Compared(SumOf(line[1], line[2]), why)
    BY <1>2, <1>9
  <2>2. line[1] \in Sincere /\ line[2] \in Sincere
    BY <1>2, <1>4, <1>9
  <2>3. CASE SumOf(line[1], line[2]) = Expected
    <3>1. Accepted(why)
      BY <2>1, <2>3 DEF Compared
    <3>2. why = "fresh" => empty \/ held_sum = Sum[block]
      BY <1>1, <2>2, <2>3 DEF SumOf, Expected, Sincere
    <3>3. why \in {"fresh", "stale", "unread"}
      OBVIOUS
    <3> HIDE DEF why
    <3>4. Kept
      BY <1>1, <3>1, <3>2, <3>3, AcceptedKeeps
    <3>5. QED
      BY <3>4
  <2>4. CASE SumOf(line[1], line[2]) # Expected
    BY <1>8, <2>1, <2>4 DEF Compared
  <2>5. QED
    BY <2>3, <2>4
<1>10. ASSUME taken # 2, retry_crc > 1 PROVE Kept
  BY <1>1, <1>2, <1>10
     DEF TypeOK, HeldInv, AcceptedInv, ControlInv, Safe, Unmistakable, core
<1>11. ASSUME taken # 2, ~(retry_crc > 1) PROVE Kept
  <2>1. Accepted("unread") => Kept
    BY <1>1, AcceptedKeeps
  <2>2. QED
    BY <1>2, <1>8, <1>11, <2>1
<1>12. Kept
  BY <1>9, <1>10, <1>11
<1>13. TypeOK'
  BY <1>1, <1>5, <1>7, <1>12 DEF TypeOK, core
<1>14. QED
  BY <1>6, <1>12, <1>13

(* Every step keeps the invariant.                                         *)
LEMMA UploadNext == UploadInv /\ [Next]_vars => UploadInv'
<1> SUFFICES ASSUME UploadInv, [Next]_vars PROVE UploadInv'
  OBVIOUS
<1> USE DEF UploadInv
<1>1. CASE Upload
  BY <1>1, ReadBlockKeeps, PromptKeeps, SendBlockKeeps, ReceiveCrcKeeps DEF Upload
<1>2. CASE Cut
  BY <1>2 DEF Cut, TypeOK, Sincere, HeldInv, AcceptedInv, ControlInv, Safe, Unmistakable, core
<1>3. CASE Again
  <2>1. TypeOK'
    <3>1. /\ memory' \in [Block -> {"none", "good", "garbled"}]
          /\ trust' \in [Block -> {"none", "fresh", "stale", "unread"}]
      BY <1>3 DEF Again
    <3>2. fault' \in BOOLEAN /\ jumped' \in BOOLEAN /\ empty' \in BOOLEAN /\ cut' \in BOOLEAN
      BY <1>3 DEF Again
    <3>3. QED
      BY <1>3, <3>1, <3>2, Types DEF Again, TypeOK
  <2>2. (rx \in Seq(Sincere))'
    BY <1>3 DEF Again, Sincere
  <2>3. HeldInv' /\ AcceptedInv' /\ ControlInv'
    BY <1>3, Types DEF Again, HeldInv, AcceptedInv, ControlInv, Block
  <2>4. QED
    BY <2>1, <2>2, <2>3
<1>4. CASE UNCHANGED vars
  BY <1>4 DEF vars, control, core, TypeOK, Sincere, HeldInv, AcceptedInv, ControlInv, Safe,
              Unmistakable
<1>5. QED
  BY <1>1, <1>2, <1>3, <1>4 DEF Next

THEOREM UploadInvHolds == Spec => []UploadInv
BY UploadInit, UploadNext, PTL DEF Spec

(* The core jumps only into a binary of which every block was accepted,    *)
(* and is in memory unless it was accepted on an answer to an earlier      *)
(* request, on a value never read, or could be mistaken for another.       *)
THEOREM JumpIsSafeAlways == Spec => []JumpIsSafe
<1>1. UploadInv => JumpIsSafe
  <2> SUFFICES ASSUME UploadInv, jumped, NEW b \in Block PROVE Safe(b)
    BY DEF JumpIsSafe, Safe
  <2>1. b < block
    BY Types DEF UploadInv, ControlInv, Block
  <2>2. QED
    BY <2>1 DEF UploadInv, AcceptedInv
<1>2. QED
  BY <1>1, UploadInvHolds, PTL

-----------------------------------------------------------------------------
(* On a line without faults nothing lies in the line between two requests, *)
(* and the core holds the checksum of the block that was sent.             *)
FaultlessInv ==
  ~fault => rx = <<>> /\ (pc = "checksum" /\ ~empty => held_sum = Sum[block])

VerdictInv ==
  /\ jumped <=> block = Blocks + 1
  /\ pc = "done" => block_retval = 0 \/ jumped
  /\ block_retval = 0 => pc \in {"file", "done"} /\ ~jumped /\ (fault \/ cut)

HonestInv == UploadInv /\ FaultlessInv /\ VerdictInv

(* A block is given up only after a fault, or when it has no bytes.        *)
LEMMA ReceiveCrcHonest == ASSUME HonestInv, ReceiveCrc PROVE FaultlessInv' /\ VerdictInv'
<1>1. /\ block \in Block /\ pc = "checksum" /\ ~jumped /\ block_retval = 1
      /\ empty' = empty /\ held_sum' = held_sum /\ cut' = cut /\ (empty => cut)
  BY Types DEF ReceiveCrc, HonestInv, UploadInv, ControlInv, VerdictInv, TypeOK, Block, core
<1>2. PICK reply \in Replies, taken \in 0 .. 2 :
        LET line == rx \o reply
        IN  /\ rx' = SubSeq(line, taken + 1, Len(line))
            /\ fault' = (fault \/ Len(reply) < 2 \/ taken < 2)
            /\ taken = 2 => \E why \in {"fresh", "stale"} :
                                 Compared(SumOf(line[1], line[2]), why)
            /\ \/ UNCHANGED <<pc, block, block_retval, jumped>>
               \/ (\E why \in {"fresh", "stale", "unread"} : Accepted(why)) \/ Refused
  BY DEF ReceiveCrc, Compared
<1>3. ASSUME ~fault'
      PROVE  rx = <<>> /\ taken = 2 /\ reply = <<Halves[1], Halves[2]>>
  <2>1. ~fault /\ ~(Len(reply) < 2) /\ ~(taken < 2)
    BY <1>2, <1>3
  <2>2. reply = <<Halves[1], Halves[2]>>
    BY <2>1 DEF Replies
  <2>3. QED
    BY <2>1, <2>2 DEF HonestInv, FaultlessInv
<1>4. ASSUME ~fault'
      PROVE  rx' = <<>> /\ (empty \/ \E why \in {"fresh", "stale"} : Accepted(why))
  <2> DEFINE line == rx \o reply
  <2>1. line = <<Halves[1], Halves[2]>>
    BY <1>3, <1>4
  <2>2. rx' = <<>>
    BY <1>2, <1>3, <1>4, <2>1
  <2>3. SumOf(line[1], line[2]) = held_sum
    BY <2>1 DEF SumOf, Halves
  <2>4. ~fault
    BY <1>2, <1>4
  <2>5. empty \/ held_sum = Expected
    BY <1>1, <2>4 DEF HonestInv, FaultlessInv, Expected
  <2>6. PICK why \in {"fresh", "stale"} : Compared(SumOf(line[1], line[2]), why)
    BY <1>2, <1>3, <1>4
  <2>7. QED
    BY <2>2, <2>3, <2>5, <2>6 DEF Compared
<1>5. ASSUME NEW why, Accepted(why) PROVE FaultlessInv' /\ VerdictInv'
  <2>1. pc' = "file" /\ block_retval' = 1
    BY <1>1, <1>5 DEF Accepted
  <2>2. ~fault' => rx' = <<>>
    BY <1>4
  <2>3. jumped' <=> block' = Blocks + 1
    <3>1. CASE empty
      BY <1>5, <3>1 DEF Accepted, HonestInv, VerdictInv
    <3>2. CASE ~empty
      <4>1. block' = block + 1 /\ (jumped' <=> jumped \/ block = Blocks)
        BY <1>5, <3>2 DEF Accepted, LastBlock
      <4>2. (block + 1 = Blocks + 1) <=> block = Blocks
        BY <1>1, Types DEF Block
      <4>3. QED
        BY <1>1, <4>1, <4>2
    <3>3. QED
      BY <3>1, <3>2
  <2>4. QED
    BY <2>1, <2>2, <2>3 DEF FaultlessInv, VerdictInv
<1>6. ASSUME fault' \/ empty, Refused PROVE FaultlessInv' /\ VerdictInv'
  <2>1. block' = block /\ jumped' = jumped /\ pc' # "checksum" /\ pc' # "done"
    BY <1>1, <1>6 DEF Refused
  <2>2. block_retval' = 1 \/ (block_retval' = 0 /\ pc' = "file")
    BY <1>1, <1>6 DEF Refused
  <2>3. fault' \/ cut'
    BY <1>1, <1>6
  <2>4. ~fault' => rx' = <<>>
    BY <1>4
  <2>5. QED
    BY <1>1, <2>1, <2>2, <2>3, <2>4 DEF FaultlessInv, VerdictInv, HonestInv
<1>7. ASSUME fault', UNCHANGED <<pc, block, block_retval, jumped>> PROVE FaultlessInv' /\ VerdictInv'
  BY <1>1, <1>7 DEF FaultlessInv, VerdictInv, HonestInv
<1>8. ~fault' => (\E why \in {"fresh", "stale"} : Accepted(why)) \/ Refused
  BY <1>2, <1>3 DEF Compared
<1>9. CASE fault'
  BY <1>2, <1>5, <1>6, <1>7, <1>9
<1>10. CASE ~fault'
  BY <1>4, <1>5, <1>6, <1>8, <1>10
<1>11. QED
  BY <1>9, <1>10

(* The other steps.                                                        *)
LEMMA HonestNext == HonestInv /\ [Next]_vars => HonestInv'
<1> SUFFICES ASSUME HonestInv, [Next]_vars PROVE FaultlessInv' /\ VerdictInv'
  BY UploadNext DEF HonestInv
<1> USE Types DEF HonestInv
<1>1. CASE ReadBlock
  BY <1>1 DEF ReadBlock, FaultlessInv, VerdictInv, UploadInv, TypeOK, core
<1>2. CASE Prompt
  <2>1. ~fault' => rx' = <<>>
    BY <1>2 DEF Prompt
  <2>2. VerdictInv'
    BY <1>2 DEF Prompt, VerdictInv
  <2>3. QED
    BY <1>2, <2>1, <2>2 DEF Prompt, FaultlessInv
<1>3. CASE SendBlock
  <2>1. ~fault' => rx' = <<>>
    <3>1. ~fault' => rx = <<>>
      BY <1>3 DEF SendBlock, FaultlessInv
    <3>2. rx = <<>> => rx' = <<>>
      BY <1>3 DEF SendBlock
    <3>3. QED
      BY <3>1, <3>2
  <2>2. ~fault' /\ ~empty' => held_sum' = Sum[block']
    BY <1>3 DEF SendBlock
  <2>3. VerdictInv'
    BY <1>3 DEF SendBlock, VerdictInv
  <2>4. QED
    BY <2>1, <2>2, <2>3 DEF FaultlessInv
<1>4. CASE ReceiveCrc
  BY <1>4, ReceiveCrcHonest
<1>5. CASE Cut
  BY <1>5 DEF Cut, FaultlessInv, VerdictInv, core
<1>6. CASE Again
  <2>1. ~fault' => rx' = <<>>
    BY <1>6 DEF Again
  <2>2. VerdictInv'
    BY <1>6 DEF Again, VerdictInv
  <2>3. QED
    BY <1>6, <2>1, <2>2 DEF Again, FaultlessInv
<1>7. CASE UNCHANGED vars
  BY <1>7 DEF vars, control, core, FaultlessInv, VerdictInv
<1>8. QED
  BY <1>1, <1>2, <1>3, <1>4, <1>5, <1>6, <1>7 DEF Next, Upload

(* f32c_exec_binary returns 1 if and only if it has made the core jump,    *)
(* and on a line without faults, with the card in place, it does.          *)
THEOREM VerdictIsHonestAlways == Spec => []VerdictIsHonest
<1>1. Init => HonestInv
  <2> SUFFICES ASSUME Init PROVE FaultlessInv /\ VerdictInv
    BY UploadInit DEF HonestInv
  <2>1. QED
    BY Types DEF Init, FaultlessInv, VerdictInv
<1>2. HonestInv => VerdictIsHonest
  BY DEF HonestInv, UploadInv, TypeOK, VerdictInv, VerdictIsHonest
<1>3. QED
  BY <1>1, <1>2, HonestNext, PTL DEF Spec
=============================================================================
