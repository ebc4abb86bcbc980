------------------------------ MODULE SvfText -------------------------------
(***************************************************************************)
(* What an SVF text is: the reference that the reader of svf.c is checked  *)
(* against. A text is a sequence of character classes; its commands are    *)
(* found by removing the comments of the whole text, cutting it at the     *)
(* semicolons and normalising the blanks of each piece.                    *)
(***************************************************************************)
EXTENDS Integers, SequencesExt

(* The classes of characters read_command tells apart: a lower-case        *)
(* letter, any other word character, a blank or tab, an end of line, and   *)
(* the characters with a meaning of their own.                             *)
Char == {"lower", "upper", "blank", "eol", "bang", "slash", "semi", "open", "close"}

Upper(ch) == IF ch = "lower" THEN "upper" ELSE ch

(* What t has at the positions K, in their order.                          *)
Kept(t, K) == FlattenSeq([k \in 1 .. Len(t) |-> IF k \in K THEN <<t[k]>> ELSE <<>>])

-----------------------------------------------------------------------------
(* A comment runs from '!' or '//' to the end of the line.                 *)
OpensComment(t, c) == t[c] = "bang" \/ (t[c] = "slash" /\ c < Len(t) /\ t[c + 1] = "slash")

InComment(t, k) ==
  \E c \in 1 .. k : OpensComment(t, c) /\ \A m \in c .. k : t[m] # "eol"

WithoutComments(t) == Kept(t, {k \in 1 .. Len(t) : ~InComment(t, k)})

(* The pieces between semicolons, counted from 1; the last one is not      *)
(* complete.                                                               *)
SemisBefore(t, k) == Cardinality({m \in 1 .. k - 1 : t[m] = "semi"})

Semis(t) == SemisBefore(t, Len(t) + 1)

Piece(t, n) == Kept(t, {k \in 1 .. Len(t) : t[k] # "semi" /\ SemisBefore(t, k) = n - 1})

(* How many brackets are open before position k.                           *)
DepthAt(t, k) ==
  Cardinality({m \in 1 .. k - 1 : t[m] = "open"}) - Cardinality({m \in 1 .. k - 1 : t[m] = "close"})

Depth(t) == DepthAt(t, Len(t) + 1)

(* Outer brackets stand apart from their neighbours, blanks within them    *)
(* vanish, other runs of blanks become one.                                *)
SpacedChar(ch, depth) ==
  CASE ch \in {"blank", "eol"} -> IF depth = 0 THEN <<"blank">> ELSE <<>>
    [] ch = "open"             -> IF depth = 0 THEN <<"blank", "open">> ELSE <<"open">>
    [] ch = "close"            -> IF depth = 1 THEN <<"close", "blank">> ELSE <<"close">>
    [] OTHER                   -> <<Upper(ch)>>

Spaced(t) == FlattenSeq([k \in 1 .. Len(t) |-> SpacedChar(t[k], DepthAt(t, k))])

Collapsed(t) == Kept(t, {k \in 1 .. Len(t) : t[k] = "blank" => k > 1 /\ t[k - 1] # "blank"})

(* A blank at the very end means nothing: the interpreter skips it.        *)
Trimmed(t) == IF t # <<>> /\ Last(t) = "blank" THEN Front(t) ELSE t

Normal(piece) == Trimmed(Collapsed(Spaced(piece)))

CommandsOf(t) ==
  LET u == WithoutComments(t) IN [n \in 1 .. Semis(u) |-> Normal(Piece(u, n))]

(* What is left after the last semicolon.                                  *)
Unfinished(t) == LET u == WithoutComments(t) IN Piece(u, Semis(u) + 1)

RestOf(t) == Normal(Unfinished(t))

-----------------------------------------------------------------------------
(* SVF as the tools write it: brackets balanced within each command, a     *)
(* slash only in a pair that opens a comment, and a comment that comes     *)
(* after a blank, a bracket, a semicolon or nothing, never right behind a  *)
(* word. Outside these texts the code differs from the reference: the end  *)
(* of a comment is not a blank, so that a word, a comment and a word are   *)
(* read as one word.                                                       *)
Commented(t) == t # <<>> /\ InComment(t, Len(t))

EndsQuietly(t) == t = <<>> \/ t[Len(t)] \in {"blank", "eol", "semi", "close"}

EndsInSlash(t) == t # <<>> /\ t[Len(t)] = "slash"

Balanced(t, ch) ==
  /\ ch = "close" => Depth(Unfinished(t)) > 0
  /\ ch \in {"semi", "slash"} => Depth(Unfinished(t)) = 0

WellPlacedComment(t, ch) ==
  IF EndsInSlash(t) THEN ch = "slash" ELSE ch \in {"bang", "slash"} => EndsQuietly(t)

(* The characters that such a text may have behind t.                      *)
UsualText(t) ==
  {ch \in Char : Commented(t) \/ (WellPlacedComment(t, ch) /\ Balanced(t, ch))}
=============================================================================
