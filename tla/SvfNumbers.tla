----------------------------- MODULE SvfNumbers -----------------------------
(***************************************************************************)
(* What svf.c makes of the numbers in a command: bitdata_parse and         *)
(* bitdata_play turn hex digits into the bits of a scan, RUNTEST turns     *)
(* decimal numbers into clocks and microseconds. SvfPlayer knows arrays by *)
(* their sizes only; here are the bits in them.                            *)
(*                                                                         *)
(* A hex or decimal number is the sequence of its digits.                  *)
(***************************************************************************)
EXTENDS Integers, Sequences

CONSTANTS
  Width,   \* bits of an int: 32 in the code
  Micro,   \* digits of a second's fraction that are kept: 6 in the code
  Lens, HexNumbers, OtherNumbers, Given,   \* scans that are looked at, with the arrays given
  Decimals, Exponents                      \* delays that are looked at

ASSUME NumbersAssumption ==
  /\ Width \in Nat \ {0} /\ Micro \in Nat
  /\ Lens \subseteq Nat \ {0} /\ HexNumbers \union OtherNumbers \subseteq Seq(0 .. 15)
  /\ Decimals \subseteq Seq(0 .. 9)
  /\ \A exp \in Exponents : exp = <<>> \/ exp[1] \in Int

Power(b, n) ==
  LET power[k \in Nat] == IF k = 0 THEN 1 ELSE b * power[k - 1]
  IN  power[n]

(* Bit k of the number n.                                                  *)
Bit(n, k) ==
  LET halved[i \in Nat] == IF i = 0 THEN n ELSE halved[i - 1] \div 2
  IN  halved[k] % 2

Quotient(n, d) == IF n >= 0 THEN n \div d ELSE -((-n) \div d)   \* C's n/d

-----------------------------------------------------------------------------
alloced_bytes(len) == (len + 7) \div 8

(* Mutant: the digits are stored from the left end of the array.           *)
IndexLeft(len, digits, j) == j - 1

(* The index i under which digit j is stored.                              *)
Index(len, digits, j) == alloced_bytes(len) * 2 - Len(digits) + j - 1

(* The bytes that storing the digits changes. In C -1/2 is 0.              *)
Touched(len, digits) ==
  {Quotient(Index(len, digits, j), 2) : j \in DOMAIN digits}

(* The bit n of the array: of every digit that was or-ed into its byte.    *)
getbit(len, digits, n) ==
  \E j \in DOMAIN digits :
    LET i == Index(len, digits, j)
        k == IF i % 2 = 0 THEN 3 - (n % 8) ELSE 7 - (n % 8)
    IN  /\ Quotient(i, 2) = n \div 8
        /\ k \in 0 .. 3 /\ Bit(digits[j], k) = 1

(* The pulses of a scan of len bits with the arrays given, a function from *)
(* their names to their digits; -1 is a bit that is not set, or not        *)
(* compared.                                                               *)
bitdata_play(len, given, leaves) ==
  LET left_padding == (8 - (len % 8)) % 8
      bit(p, i) == IF getbit(len, given[p], i) THEN 1 ELSE 0
      masked(p, i) == p \in DOMAIN given => getbit(len, given[p], i)
  IN  [k \in 1 .. len |->
        LET i == len + left_padding - k
        IN  [tms   |-> i = left_padding /\ leaves,
             tdi   |-> IF "TDI" \in DOMAIN given /\ masked("SMASK", i) THEN bit("TDI", i) ELSE -1,
             tdo   |-> IF "TDO" \in DOMAIN given /\ masked("MASK", i) THEN bit("TDO", i) ELSE -1,
             rmask |-> "RMASK" \in DOMAIN given /\ getbit(len, given["RMASK"], i)]]

-----------------------------------------------------------------------------
Narrow(n) == ((n + Power(2, Width - 1)) % Power(2, Width)) - Power(2, Width - 1)
IntMax == Power(2, Width - 1) - 1

(* A number with its fraction and exponent, an empty sequence when no E    *)
(* follows; the digits behind the point are read and dropped.              *)
Whole(t) ==
  LET read[i \in 0 .. Len(t.whole)] == IF i = 0 THEN 0 ELSE Narrow(read[i - 1] * 10 + t.whole[i])
  IN  read[Len(t.whole)]

Scaled(n, e) ==
  LET scaled[i \in Nat] ==
        IF i = 0 THEN n
        ELSE IF e < 0 THEN Quotient(scaled[i - 1], 10) ELSE Narrow(scaled[i - 1] * 10)
  IN  scaled[IF e < 0 THEN -e ELSE e]

number(t) == IF t.exp = <<>> THEN Whole(t) ELSE Scaled(Whole(t), t.exp[1])
number_e6(t) ==
  IF t.exp = <<>> THEN Narrow(Whole(t) * Power(10, Micro)) ELSE Scaled(Whole(t), t.exp[1] + Micro)

-----------------------------------------------------------------------------
(* The reference: the value of a digit sequence, and n * 10^e rounded down.*)
Value(base, digits) ==
  LET value[i \in 0 .. Len(digits)] == IF i = 0 THEN 0 ELSE base * value[i - 1] + digits[i]
  IN  value[Len(digits)]

Floor(n, e) == IF e < 0 THEN n \div Power(10, -e) ELSE n * Power(10, e)

(* The k-th clock of a scan carries bit k of the hex numbers, counted from *)
(* the lowest; masked bits carry nothing.                                  *)
CarriesNumbers(len, params, given) ==
  LET wanted(p, k) == Bit(Value(16, given[p]), k)
      chosen(p, mask, k) ==
        IF p \in params /\ (mask \in params => wanted(mask, k) = 1) THEN wanted(p, k) ELSE -1
  IN  bitdata_play(len, given, TRUE) =
        [k \in 1 .. len |->
           [tms   |-> k = len,
            tdi   |-> chosen("TDI", "SMASK", k - 1),
            tdo   |-> chosen("TDO", "MASK", k - 1),
            rmask |-> "RMASK" \in params /\ wanted("RMASK", k - 1) = 1]]

(* One digit more than the bytes hold is harmless if it is a zero.         *)
Fits(len, d) ==
  Len(d) <= 2 * alloced_bytes(len) \/ (Len(d) = 2 * alloced_bytes(len) + 1 /\ d[1] = 0)

(* A scan carries its numbers, whatever the length and however many        *)
(* leading digits are left out. With one digit too many no store leaves    *)
(* the array by then, while every further digit (svf.c does not count      *)
(* them) is stored in front.                                               *)
BitsAreNumbers(lens, numbers, others, named) ==
  \A len \in lens, a \in numbers, b \in others, params \in named :
    /\ Touched(len, a) \subseteq 0 .. alloced_bytes(len) - 1 <=> Len(a) <= 2 * alloced_bytes(len) + 1
    /\ Fits(len, a) /\ Fits(len, b) =>
         CarriesNumbers(len, params, [p \in params |-> IF p \in {"TDI", "MASK"} THEN a ELSE b])

(* RUNTEST's clocks and microseconds are the number given, rounded down,   *)
(* as long as they fit in an int; a fraction is lost (svf.c's FIXME), so   *)
(* the wait is never longer, and shorter by less than one unit's worth.    *)
DelaysAreNumbers(decimals, exps) ==
  \A whole \in decimals, fraction \in decimals, exp \in exps :
    LET t == [whole |-> whole, fraction |-> fraction, exp |-> exp]
        e == IF exp = <<>> THEN 0 ELSE exp[1]
        n == Value(10, whole)
    IN  /\ n <= IntMax /\ Floor(n, e) <= IntMax => number(t) = Floor(n, e)
        /\ n <= IntMax /\ Floor(n, e + Micro) <= IntMax => number_e6(t) = Floor(n, e + Micro)
=============================================================================
