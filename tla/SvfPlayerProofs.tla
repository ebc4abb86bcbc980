-------------------------- MODULE SvfPlayerProofs ---------------------------
(***************************************************************************)
(* Proofs about SvfPlayer, for registers of any lengths, any parameters,   *)
(* end states and errors, through broken uploads and arrays that outlive   *)
(* them: TDO is only compared with data of this upload and this length     *)
(* (AskedInv); types (TypeInv); what commands do to the device (OnWireInv) *)
(* and that only scans shift (RestInv). Then SvfNumbers, for numbers of    *)
(* any length: scans and delays are the numbers in the file.               *)
(***************************************************************************)
EXTENDS SvfPlayer, TapPathProofs

Fields == {"len", "has_tdo_data", "array"}

(* An array that a comparison may look into is this upload's, and was      *)
(* written at the register's present length.                               *)
Asked(b) ==
  /\ DOMAIN b = Fields
  /\ b.has_tdo_data /\ b.array["TDO"] # NULL =>
       b.array["TDO"].own /\ b.array["TDO"].for = b.len

AskedInv == DOMAIN bd = Register /\ \A r \in Register : Asked(bd[r])

ComparedInv == AskedInv /\ ComparisonIsAsked

-----------------------------------------------------------------------------
LEMMA ParsedIsAsked ==
  ASSUME NEW b, NEW n, NEW ps
  PROVE  Asked(Parsed(b, n, ps)) /\ Parsed(b, n, ps).len = n
<1>1. /\ DOMAIN Parsed(b, n, ps) = Fields /\ Parsed(b, n, ps).len = n
      /\ Parsed(b, n, ps).has_tdo_data = ("TDO" \in ps)
      /\ "TDO" \in ps => Parsed(b, n, ps).array["TDO"] = Written(n)
  BY DEF Parsed, Fields, Param
<1>2. Written(n).own /\ Written(n).for = n
  BY DEF Written
<1>3. QED
  BY <1>1, <1>2 DEF Asked

(* What a command reads is what the registers hold when it ends.           *)
LEMMA ReadsAreAsked ==
  ASSUME AskedInv', NEW regs \in SUBSET Register, NEW x \in Reads(regs), x.param = "TDO"
  PROVE  x.array.own /\ x.array.for = x.len
<1>1. PICK r \in regs : \E p \in Consulted(bd'[r]) :
        x = [reg |-> r, param |-> p, need |-> ByteLength(bd'[r].len), len |-> bd'[r].len,
             array |-> bd'[r].array[p]]
  BY DEF Reads
<1>2. "TDO" \in Consulted(bd'[r]) /\ x.len = bd'[r].len /\ x.array = bd'[r].array["TDO"]
  BY <1>1
<1>3. bd'[r].has_tdo_data /\ bd'[r].array["TDO"] # NULL
  BY <1>2 DEF Consulted
<1>4. QED
  BY <1>2, <1>3 DEF AskedInv, Asked

LEMMA QuietReads == Quiet.reads = {}
BY DEF Quiet

-----------------------------------------------------------------------------
LEMMA ComparedInit == Init => ComparedInv
<1> SUFFICES ASSUME Init PROVE ComparedInv
  OBVIOUS
<1>1. bd = [r \in Register |-> Empty] /\ last = Quiet
  BY DEF Init
<1>2. Asked(Empty)
  BY DEF Asked, Empty, Fields
<1>3. AskedInv
  BY <1>1, <1>2 DEF AskedInv
<1>4. QED
  BY <1>1, <1>3, QuietReads DEF ComparedInv, ComparisonIsAsked

(* One register is parsed anew, the others stay.                           *)
LEMMA ParseKeeps ==
  ASSUME AskedInv, NEW r, NEW new, Asked(new), bd' = [bd EXCEPT ![r] = new]
  PROVE  AskedInv'
BY DEF AskedInv

(* A command that leaves the wire alone reads nothing.                     *)
LEMMA UnwiredKeeps == ASSUME AskedInv', last' = Quiet PROVE ComparedInv'
BY QuietReads DEF ComparedInv, ComparisonIsAsked

(* A command on the wire compares what its registers hold.                 *)
LEMMA WiredKeeps ==
  ASSUME AskedInv', NEW op, NEW w, NEW before, NEW bits, NEW regs \in SUBSET Register,
         Wired(op, w, before, bits, regs)
  PROVE  ComparedInv'
<1>1. last'.reads = Reads(regs)
  BY DEF Wired
<1>2. QED
  BY <1>1, ReadsAreAsked DEF ComparedInv, ComparisonIsAsked

(* Every step keeps the invariant.                                         *)
LEMMA ComparedNext == ComparedInv /\ [Next]_vars => ComparedInv'
<1> SUFFICES ASSUME ComparedInv, [Next]_vars PROVE ComparedInv'
  OBVIOUS
<1> USE DEF ComparedInv
<1> Regs \subseteq Register
  BY CommandsAssumption
<1>1. ASSUME UNCHANGED bd, last' = Quiet PROVE ComparedInv'
  BY <1>1, UnwiredKeeps DEF AskedInv
<1>2. ASSUME NEW op, NEW w, UNCHANGED bd, Wired(op, w, 0, 0, {}) PROVE ComparedInv'
  BY <1>2, WiredKeeps DEF AskedInv
<1>3. CASE EndIrFails \/ CommandError \/ \E s \in EndStates : EndIr(s) \/ EndDr(s)
  BY <1>1, <1>3 DEF EndIrFails, CommandError, EndIr, EndDr, Unwired
<1>4. CASE \E s \in GoStates : State(s)
  BY <1>2, <1>4 DEF State
<1>5. ASSUME NEW run, NEW endrun, NEW k, Runtest(run, endrun, k) PROVE ComparedInv'
  BY <1>2, <1>5 DEF Runtest
<1>6. ASSUME NEW r, NEW n, NEW ps, SetPadding(r, n, ps) PROVE ComparedInv'
  BY <1>6, ParsedIsAsked, ParseKeeps, UnwiredKeeps DEF SetPadding, Unwired
<1>7. ASSUME NEW r, NEW n, NEW ps, ParseFails(r, n, ps) PROVE ComparedInv'
  <2>1. PICK lost : bd' = [bd EXCEPT ![r] = Without(Parsed(bd[r], n, ps), lost)]
    BY <1>7 DEF ParseFails
  <2>2. PICK b : b = Parsed(bd[r], n, ps)
    OBVIOUS
  <2>3. Asked(b)
    BY <2>2, ParsedIsAsked
  <2>4. Asked(Without(b, lost))
    <3>1. /\ DOMAIN Without(b, lost) = DOMAIN b /\ Without(b, lost).len = b.len
          /\ Without(b, lost).has_tdo_data = b.has_tdo_data
          /\ Without(b, lost).array["TDO"] \in {NULL, b.array["TDO"]}
      BY <2>3 DEF Asked, Fields, Param, Without
    <3>2. QED
      BY <2>3, <3>1 DEF Asked
  <2>5. AskedInv'
    BY <2>1, <2>2, <2>4, ParseKeeps
  <2>6. QED
    BY <1>7, <2>5, UnwiredKeeps DEF ParseFails, Unwired
<1>8. ASSUME NEW data \in Register, NEW head \in Register, NEW tail \in Register,
             NEW shift, NEW end, NEW n, NEW ps, Scan(data, head, tail, shift, end, n, ps)
      PROVE  ComparedInv'
  <2>1. bd' = [bd EXCEPT ![data] = Parsed(bd[data], n, ps)]
    BY <1>8 DEF Scan
  <2>2. AskedInv'
    BY <2>1, ParsedIsAsked, ParseKeeps
  <2>3. \E w, before, bits : Wired(data, w, before, bits, {head, data, tail})
    BY <1>8 DEF Scan
  <2>4. QED
    BY <2>2, <2>3, WiredKeeps
<1>9. ASSUME NEW n, NEW ps, Sdr(n, ps) \/ Sir(n, ps) PROVE ComparedInv'
  BY <1>8, <1>9 DEF Sdr, Sir, Register
<1>10. CASE Start
  <2>1. ASSUME NEW r \in Register PROVE Asked(bd'[r])
    <3>1. DOMAIN bd[r] = Fields
      BY DEF AskedInv, Asked
    <3>2. DOMAIN bd'[r] = Fields /\ bd'[r].has_tdo_data = FALSE
      BY <1>10, <3>1 DEF Start, Fields
    <3>3. QED
      BY <3>2 DEF Asked
  <2>2. DOMAIN bd' = Register /\ last' = Quiet
    BY <1>10 DEF Start
  <2>3. QED
    BY <2>1, <2>2, UnwiredKeeps DEF AskedInv
<1>11. CASE Finish
  <2>1. ASSUME NEW r \in Register PROVE Asked(bd'[r])
    <3>1. DOMAIN bd[r] = Fields
      BY DEF AskedInv, Asked
    <3>2. DOMAIN bd'[r] = Fields /\ bd'[r].array["TDO"] = NULL
      BY <1>11, <3>1 DEF Finish, Fields, Empty, Param
    <3>3. QED
      BY <3>2 DEF Asked
  <2>2. DOMAIN bd' = Register /\ last' = Quiet
    BY <1>11 DEF Finish
  <2>3. QED
    BY <2>1, <2>2, UnwiredKeeps DEF AskedInv
<1>12. CASE UNCHANGED vars
  BY <1>12 DEF vars, AskedInv, ComparisonIsAsked
<1>13. QED
  BY <1>3, <1>4, <1>5, <1>6, <1>7, <1>9, <1>10, <1>11, <1>12 DEF Next

(* TDO is only compared with data given for this scan's register in this   *)
(* upload and at this length.                                              *)
THEOREM ComparisonIsAskedAlways == Spec => []ComparisonIsAsked
<1>1. ComparedInv => ComparisonIsAsked
  BY DEF ComparedInv
<1>2. QED
  BY <1>1, ComparedInit, ComparedNext, PTL DEF Spec

-----------------------------------------------------------------------------
(* The types. Play increments tap_state, so it matters that this happens   *)
(* in a shift state only, and once a scan.                                 *)
Arrays == {NULL} \union [bytes : Int, for : Lengths, own : BOOLEAN]
BitData == [len : Lengths \union {0}, has_tdo_data : BOOLEAN, array : [Param -> Arrays]]

TypeInv == TypeOK /\ bd \in [Register -> BitData]

(* What the bits of a scan have done to a wire w that the walk has left in *)
(* the shift state: m of them are out, and without an error the host       *)
(* believes in the state t.                                                *)
Out(w, x, shift, m, t) ==
  /\ x \in Wires /\ x.tap \in {shift, shift + 1}
  /\ x.rc = 0 => x.tap = t
  /\ w.dev = shift =>
       /\ x.dev = x.tap
       /\ x.rc = 0 => x.shifts = w.shifts + m
       /\ w.seen \subseteq x.seen /\ x.seen \subseteq w.seen \union {shift, shift + 1}

(* What a shift does to the device, without the rest.                      *)
LEMMA Shifts ==
  \A w \in Wires, n \in Nat \ {0}, v \in BOOLEAN :
    w.rc = 0 /\ w.dev \in ShiftState =>
      /\ Shifted(w, n, v).dev = IF v THEN w.dev + 1 ELSE w.dev
      /\ Shifted(w, n, v).shifts = w.shifts + n
      /\ w.seen \subseteq Shifted(w, n, v).seen
      /\ Shifted(w, n, v).seen \subseteq w.seen \union {w.dev, w.dev + 1}
BY ShiftedFacts

LEMMA PlayStep ==
  ASSUME NEW w \in Wires, NEW x, NEW shift \in ShiftState, NEW m \in Nat, Out(w, x, shift, m, shift),
         NEW n \in Nat, NEW e, NEW mismatch \in BOOLEAN
  PROVE  Out(w, Play(x, n, e, mismatch), shift, m + n, IF n > 0 /\ shift # e THEN shift + 1 ELSE shift)
<1> DEFINE y == Play(x, n, e, mismatch)
           t == IF n > 0 /\ shift # e THEN shift + 1 ELSE shift
<1>0. w.shifts \in Nat /\ x \in Wires /\ x.shifts \in Nat
  BY DEF Wires, Out
<1>1. CASE x.rc < 0
  <2>1. y = x /\ x.rc # 0
    BY <1>1 DEF Play
  <2>2. QED
    BY <2>1 DEF Out
<1>2. CASE ~(x.rc < 0) /\ n = 0
  <2>1. y = x /\ t = shift
    BY <1>2 DEF Play
  <2>2. QED
    BY <1>0, <1>2, <2>1 DEF Out
<1>3. CASE ~(x.rc < 0) /\ n # 0
  <2>1. x.rc = 0
    BY <1>0, <1>3 DEF Wires
  <2>2. x.tap = shift
    BY <2>1 DEF Out
  <2> DEFINE leaves == shift # e
             z == Shifted(x, n, leaves)
             c == IF mismatch THEN -1 ELSE 0
  <2>3. y = [z EXCEPT !.tap = IF leaves THEN z.tap + 1 ELSE z.tap, !.rc = c]
    BY <1>3, <2>2 DEF Play
  <2>4. leaves \in BOOLEAN /\ n \in Nat \ {0} /\ c \in {0, -1}
    BY <1>3
  <2>5. t = IF leaves THEN shift + 1 ELSE shift
    BY <1>3
  <2>6. t \in TapState /\ t \in {shift, shift + 1}
    BY <2>5 DEF ShiftState, TapState, INIT, DRSHIFT, IRSHIFT, IRUPDATE
  <2>7. w.dev = shift => x.dev = shift
    BY <2>2 DEF Out
  <2> HIDE DEF leaves, c, t
  <2>8. z \in Wires /\ z.tap = shift
    BY <1>0, <2>2, <2>4, ShiftedType
  <2>9. ASSUME w.dev = shift
        PROVE  /\ z.dev = t /\ z.shifts = x.shifts + n
               /\ x.seen \subseteq z.seen /\ z.seen \subseteq x.seen \union {shift, shift + 1}
    <3>1. x.dev \in ShiftState /\ x.dev = shift
      BY <2>7, <2>9
    <3>2. /\ z.dev = IF leaves THEN x.dev + 1 ELSE x.dev
          /\ z.shifts = x.shifts + n
          /\ x.seen \subseteq z.seen /\ z.seen \subseteq x.seen \union {x.dev, x.dev + 1}
      BY <1>0, <2>1, <2>4, <3>1, Shifts
    <3>3. QED
      BY <2>4, <2>5, <3>1, <3>2
  <2> HIDE DEF z
  <2>10. y = [z EXCEPT !.tap = t, !.rc = c]
    BY <2>3, <2>5, <2>8
  <2> HIDE DEF y
  <2>11. /\ y \in Wires /\ y.tap = t /\ y.dev = z.dev /\ y.shifts = z.shifts /\ y.seen = z.seen
    BY <2>4, <2>6, <2>8, <2>10 DEF Wires
  <2>12. w.dev = shift => /\ x.shifts = w.shifts + m /\ w.seen \subseteq x.seen
                          /\ x.seen \subseteq w.seen \union {shift, shift + 1}
    BY <2>1 DEF Out
  <2>13. w.dev = shift => y.dev = y.tap /\ y.shifts = w.shifts + (m + n)
    BY <1>0, <2>9, <2>11, <2>12
  <2>14. w.dev = shift => w.seen \subseteq y.seen /\ y.seen \subseteq w.seen \union {shift, shift + 1}
    BY <2>9, <2>11, <2>12
  <2>15. Out(w, y, shift, m + n, t)
    BY <2>6, <2>11, <2>13, <2>14 DEF Out
  <2>16. QED
    BY <2>15 DEF y, t
<1>4. QED
  BY <1>1, <1>2, <1>3

LEMMA PlayNothing ==
  ASSUME NEW x, NEW e, NEW mismatch
  PROVE  Play(x, 0, e, mismatch) = x
BY DEF Play

(* Header, data and trailer: of the three calls the last one with bits     *)
(* leaves the shift state, unless the scan ends in it.                     *)
Three(w, shift, end, h, n, t, a, b, c) ==
  Play(Play(Play(w, h, IF n + t > 0 THEN shift ELSE end, a), n, IF t > 0 THEN shift ELSE end, b), t, end, c)

Left(shift, end, m) == IF m > 0 /\ shift # end THEN shift + 1 ELSE shift

LEMMA PlayThree ==
  ASSUME NEW w \in Wires, NEW shift \in ShiftState, w.tap = shift, NEW end,
         NEW h \in Nat, NEW n \in Nat, NEW t \in Nat,
         NEW a \in BOOLEAN, NEW b \in BOOLEAN, NEW c \in BOOLEAN
  PROVE  Out(w, Three(w, shift, end, h, n, t, a, b, c), shift, h + n + t, Left(shift, end, h + n + t))
<1> DEFINE e2 == IF n + t > 0 THEN shift ELSE end
           e3 == IF t > 0 THEN shift ELSE end
           w2 == Play(w, h, e2, a)
           w3 == Play(w2, n, e3, b)
           w4 == Play(w3, t, end, c)
           u == IF h + n + t > 0 /\ shift # end THEN shift + 1 ELSE shift
<1> SUFFICES Out(w, w4, shift, h + n + t, u)
  BY DEF Three, Left
<1>0. Out(w, w, shift, 0, shift)
  BY DEF Out, Wires
<1>1. Out(w, w2, shift, 0 + h, IF h > 0 /\ shift # e2 THEN shift + 1 ELSE shift)
  BY <1>0, PlayStep
<1>2. ASSUME Out(w, w2, shift, h, shift)
      PROVE  Out(w, w3, shift, h + n, IF n > 0 /\ shift # e3 THEN shift + 1 ELSE shift)
  BY <1>2, PlayStep
<1>3. ASSUME Out(w, w3, shift, h + n, shift)
      PROVE  Out(w, w4, shift, h + n + t, IF t > 0 /\ shift # end THEN shift + 1 ELSE shift)
  BY <1>3, PlayStep
<1>4. /\ n = 0 => w3 = w2
      /\ t = 0 => w4 = w3
  BY PlayNothing
<1> HIDE DEF w2, w3, w4
<1>5. CASE t > 0
  <2>1. e2 = shift /\ e3 = shift /\ u = IF t > 0 /\ shift # end THEN shift + 1 ELSE shift
    BY <1>5
  <2>2. QED
    BY <1>1, <1>2, <1>3, <2>1 DEF w2, w3, w4
<1>6. CASE t = 0 /\ n > 0
  <2>1. e2 = shift /\ e3 = end /\ h + n + t = h + n
        /\ u = IF n > 0 /\ shift # end THEN shift + 1 ELSE shift
    BY <1>6
  <2>2. QED
    BY <1>1, <1>2, <1>4, <1>6, <2>1 DEF w2, w3, w4
<1>7. CASE t = 0 /\ n = 0
  <2>1. e2 = end /\ h + n + t = 0 + h /\ u = IF h > 0 /\ shift # end THEN shift + 1 ELSE shift
    BY <1>7
  <2>2. QED
    BY <1>1, <1>4, <1>7, <2>1 DEF w2, w3, w4
<1>8. QED
  BY <1>5, <1>6, <1>7

-----------------------------------------------------------------------------
LEMMA Targets ==
  ASSUME TypeInv
  PROVE  /\ Wire \in Wires /\ Wire.tap = tap_state /\ Wire.dev = dev /\ Wire.rc = 0
         /\ Wire.seen = {} /\ Wire.shifts = 0
         /\ BeliefIsDevice => Wire \in Tracked
         /\ {state_endir, state_enddr, state_run, state_endrun, RESET} \subseteq WalkTarget
         /\ RunStates \union GoStates \union ShiftState \subseteq WalkTarget
<1>1. tap_state \in TapState /\ dev \in DevState
  BY DEF TypeInv, TypeOK
<1>2. /\ Wire \in Wires /\ Wire.tap = tap_state /\ Wire.dev = dev /\ Wire.rc = 0
      /\ Wire.seen = {} /\ Wire.shifts = 0
  BY <1>1, WireAtType DEF Wire
<1>3. /\ EndStates \subseteq RESET .. BADSTATE
      /\ RunStates \subseteq DevState /\ GoStates \subseteq DevState
  BY CommandsAssumption
<1>4. /\ RESET .. BADSTATE \subseteq WalkTarget /\ DevState \subseteq WalkTarget
      /\ {IDLE, RESET} \union ShiftState \subseteq WalkTarget
  BY DEF DevState, WalkTarget, ShiftState, INIT, RESET, IDLE, DRSHIFT, IRSHIFT, IRUPDATE, BADSTATE
<1>5. /\ {state_endir, state_enddr} \subseteq EndStates \union {IDLE}
      /\ {state_run, state_endrun} \subseteq RunStates \union {IDLE}
  BY DEF TypeInv, TypeOK
<1>6. QED
  BY <1>2, <1>3, <1>4, <1>5 DEF Tracked, BeliefIsDevice

(* What a scan does on the wire.                                           *)
ScanDone(shift, end, w, before, bits) ==
  /\ w \in Tracked
  /\ w.rc = 0 => /\ w.tap = end
                 /\ bits > 0 => w.shifts - before = bits
  /\ shift = DRSHIFT /\ {tap_state, end} \subseteq DrColumn => w.seen \subseteq DrColumn \union {IRSELECT}
  /\ shift = IRSHIFT /\ {tap_state, end} \subseteq IrColumn => w.seen \subseteq IrColumn \union {DRSELECT}

(* The state a scan comes from, the column of its shift state and the end. *)
LEMMA ShiftColumns ==
  /\ {DRSHIFT, DRSHIFT + 1} \subseteq DrColumn /\ {IRSHIFT, IRSHIFT + 1} \subseteq IrColumn
  /\ \A s \in ShiftState : s # INIT /\ s \in Reachable /\ s + 1 \notin ShiftState
BY DEF DrColumn, IrColumn, ShiftState, Reachable, INIT, RESET, IDLE, DRSHIFT, DREXIT2, DRUPDATE,
       IRSELECT, IRSHIFT, IREXIT2, IRUPDATE

(* The walk, the bits and the walk to the end state, of any lengths.       *)
LEMMA ScanPath ==
  ASSUME TypeInv, NEW shift \in ShiftState, NEW end \in WalkTarget,
         NEW h \in Nat, NEW n \in Nat, NEW t \in Nat,
         NEW a \in BOOLEAN, NEW b \in BOOLEAN, NEW c \in BOOLEAN
  PROVE  LET w1 == WalkTo(Wire, shift)
             w5 == WalkTo(Three(w1, shift, end, h, n, t, a, b, c), end)
         IN  /\ w5 \in Wires
             /\ BeliefIsDevice => ScanDone(shift, end, w5, w1.shifts, h + n + t)
<1> DEFINE w1 == WalkTo(Wire, shift)
           w4 == Three(w1, shift, end, h, n, t, a, b, c)
           w5 == WalkTo(w4, end)
           m  == h + n + t
           u  == Left(shift, end, m)
<1>1. w1 \in Wires /\ (w1.rc = 0 => w1.tap = shift)
  BY Targets, WalkTypes
<1>2. w1.rc < 0 => w4 = w1
  BY DEF Three, Play
<1>3. w1.tap = shift => Out(w1, w4, shift, m, u)
  BY <1>1, PlayThree
<1> HIDE DEF w4, u
<1>4. w4 \in Wires
  BY <1>1, <1>2, <1>3 DEF Out, Wires
<1>5. w5 \in Wires
  BY <1>4, WalkTypes
<1>6. ASSUME BeliefIsDevice PROVE ScanDone(shift, end, w5, w1.shifts, m)
  <2>1. w1 \in Tracked /\ w1.rc = 0 /\ w1.tap = shift /\ w1.dev = shift
    <3>1. Wire \in Tracked /\ Wire.rc = 0 /\ shift \in WalkTarget /\ shift \in Reachable /\ shift # INIT
      BY <1>6, Targets, ShiftColumns
    <3>2. w1 \in Tracked
      BY <3>1, WalkTracks
    <3>3. w1.rc = 0 /\ w1.tap = shift
      BY <3>1, WalkArrives
    <3>4. QED
      BY <3>1, <3>2, <3>3 DEF Tracked
  <2> HIDE DEF w1
  <2>2. /\ w4 \in Tracked /\ w4.tap \in {shift, shift + 1}
        /\ w4.rc = 0 => w4.tap = u /\ w4.shifts = w1.shifts + m
        /\ w4.seen \subseteq w1.seen \union {shift, shift + 1}
    BY <1>3, <2>1 DEF Out, Tracked
  <2>3. /\ w5 \in Tracked
        /\ w5.rc = 0 => w5.tap = end /\ w4.rc = 0
    BY <2>2, WalkTracks
  <2>4. ASSUME w5.rc = 0, m > 0 PROVE w5.shifts - w1.shifts = m
    <3>1. w4.tap = u /\ w4.shifts = w1.shifts + m
      BY <2>2, <2>3, <2>4
    <3>2. w4.tap # INIT /\ (w4.tap \notin ShiftState \/ w4.tap = end)
      <4>1. CASE shift = end
        BY <2>4, <3>1, <4>1, ShiftColumns DEF u, Left
      <4>2. CASE shift # end
        <5>1. w4.tap = shift + 1
          BY <2>4, <3>1, <4>2 DEF u, Left
        <5>2. QED
          BY <5>1, ShiftColumns DEF ShiftState, INIT, DRSHIFT, IRSHIFT
      <4>3. QED
        BY <4>1, <4>2
    <3>3. w5.shifts = w4.shifts
      BY <2>2, <3>2, WalkShiftsNothing
    <3>4. w1.shifts \in Nat
      BY <1>1 DEF Wires
    <3>5. QED
      BY <3>1, <3>3, <3>4
  <2>5. ASSUME shift = DRSHIFT, tap_state \in DrColumn, end \in DrColumn
        PROVE  w5.seen \subseteq DrColumn \union {IRSELECT}
    <3>1. w1.seen \subseteq DrColumn \union {IRSELECT}
      <4>1. Wire \in Tracked /\ Wire.tap \in DrColumn /\ Wire.seen = {} /\ shift \in DrColumn
        BY <1>6, <2>5, Targets, ShiftColumns
      <4>2. QED
        BY <4>1, WalkKeepsIr DEF w1
    <3>2. w4.tap \in DrColumn /\ w4.seen \subseteq DrColumn \union {IRSELECT}
      BY <2>2, <2>5, <3>1, ShiftColumns
    <3>3. w5.seen \subseteq w4.seen \union DrColumn \union {IRSELECT}
      BY <2>2, <2>5, <3>2, WalkKeepsIr
    <3>4. QED
      BY <3>2, <3>3
  <2>6. ASSUME shift = IRSHIFT, tap_state \in IrColumn, end \in IrColumn
        PROVE  w5.seen \subseteq IrColumn \union {DRSELECT}
    <3>1. w1.seen \subseteq IrColumn \union {DRSELECT}
      <4>1. Wire \in Tracked /\ Wire.tap \in IrColumn /\ Wire.seen = {} /\ shift \in IrColumn
        BY <1>6, <2>6, Targets, ShiftColumns
      <4>2. QED
        BY <4>1, WalkKeepsDr DEF w1
    <3>2. w4.tap \in IrColumn /\ w4.seen \subseteq IrColumn \union {DRSELECT}
      BY <2>2, <2>6, <3>1, ShiftColumns
    <3>3. w5.seen \subseteq w4.seen \union IrColumn \union {DRSELECT}
      BY <2>2, <2>6, <3>2, WalkKeepsDr
    <3>4. QED
      BY <3>2, <3>3
  <2> HIDE DEF w5, m
  <2>7. QED
    BY <2>3, <2>4, <2>5, <2>6 DEF ScanDone
<1>7. QED
  BY <1>5, <1>6 DEF w4

(* SDR and SIR in any registers.                                           *)
LEMMA ScanWired ==
  ASSUME TypeInv, NEW data \in Register, NEW head \in Register, NEW tail \in Register,
         NEW shift \in ShiftState, NEW end \in WalkTarget, NEW n \in Lengths, NEW ps,
         Scan(data, head, tail, shift, end, n, ps)
  PROVE  \E w \in Wires : \E before, bits, regs :
           /\ Wired(data, w, before, bits, regs)
           /\ BeliefIsDevice => ScanDone(shift, end, w, before, bits)
<1> DEFINE h == bd[head].len
           t == bd[tail].len
<1>1. h \in Nat /\ n \in Nat /\ t \in Nat
  <2>1. bd[head].len \in Lengths \union {0} /\ bd[tail].len \in Lengths \union {0}
    BY DEF TypeInv, BitData
  <2>2. \A x \in Lengths \union {0} : x \in Nat
    BY CommandsAssumption
  <2>3. QED
    BY <2>1, <2>2
<1>2. PICK bad :
        LET w1 == WalkTo(Wire, shift)
            w4 == Play(Play(Play(w1, h, IF n + t > 0 THEN shift ELSE end, head \in bad),
                            n, IF t > 0 THEN shift ELSE end, data \in bad), t, end, tail \in bad)
        IN  Wired(data, WalkTo(w4, end), w1.shifts, h + n + t, {head, data, tail})
  BY DEF Scan
<1> DEFINE a  == head \in bad
           b  == data \in bad
           c  == tail \in bad
           w1 == WalkTo(Wire, shift)
           w5 == WalkTo(Three(w1, shift, end, h, n, t, a, b, c), end)
<1>3. Wired(data, w5, w1.shifts, h + n + t, {head, data, tail})
  BY <1>2 DEF Three
<1>4. a \in BOOLEAN /\ b \in BOOLEAN /\ c \in BOOLEAN
  OBVIOUS
<1> HIDE DEF a, b, c, h, t
<1>5. w5 \in Wires /\ (BeliefIsDevice => ScanDone(shift, end, w5, w1.shifts, h + n + t))
  BY <1>1, <1>4, ScanPath
<1> HIDE DEF w5, w1
<1>6. QED
  BY <1>3, <1>5

(* RUNTEST: the clocks leave a device alone that rests in the run state.   *)
LEMMA RuntestPath ==
  ASSUME TypeInv, NEW run \in WalkTarget, NEW endrun \in WalkTarget, NEW k \in Nat
  PROVE  LET w == WalkTo(Lows(WalkTo(Wire, run), k), endrun)
         IN  /\ w \in Wires
             /\ w.rc = 0 => w.tap = endrun
             /\ BeliefIsDevice /\ OnLow(run) = run => w \in Tracked
             /\ /\ BeliefIsDevice /\ OnLow(run) = run
                /\ tap_state # INIT /\ {tap_state, run, endrun} \intersect ShiftState = {}
                => w.shifts = 0
<1> DEFINE x == WalkTo(Wire, run)
           y == Lows(x, k)
           w == WalkTo(y, endrun)
<1>1. x \in Wires
  BY Targets, WalkTypes
<1>2. y \in Wires
  BY <1>1, LowsFacts
<1>3. w \in Wires /\ (w.rc = 0 => w.tap = endrun)
  BY <1>2, WalkTypes
<1>4. ASSUME BeliefIsDevice, OnLow(run) = run
      PROVE  /\ w \in Tracked
             /\ tap_state # INIT /\ {tap_state, run, endrun} \intersect ShiftState = {} => w.shifts = 0
  <2>1. x \in Tracked /\ (x.rc = 0 => x.tap = run) /\ (tap_state # INIT => x.tap # INIT)
    BY <1>4, Targets, WalkTracks
  <2>2. x.rc = 0 /\ x.tap # INIT => OnLow(x.dev) = x.dev
    BY <1>4, <2>1 DEF Tracked
  <2>3. x.rc < 0 \/ x.rc = 0
    BY <1>1 DEF Wires
  <2> HIDE DEF x
  <2>4. y.tap = x.tap /\ y.rc = x.rc
    BY <1>1, LowsFacts
  <2>5. x.tap # INIT => y.dev = x.dev
    BY <1>1, <2>2, <2>3, LowsFacts
  <2>6. y \in Tracked
    BY <1>2, <2>1, <2>4, <2>5 DEF Tracked
  <2> HIDE DEF y
  <2>7. w \in Tracked
    BY <2>6, WalkTracks
  <2>8. ASSUME tap_state # INIT, {tap_state, run, endrun} \intersect ShiftState = {}
        PROVE  w.shifts = 0
    <3>1. Wire \in Tracked /\ Wire.tap # INIT /\ Wire.tap \notin ShiftState /\ Wire.shifts = 0
      BY <1>4, <2>8, Targets
    <3>2. x.shifts = 0 /\ (x.tap \notin ShiftState \/ x.tap = run)
      BY <3>1, WalkShiftsNothing DEF x
    <3>3. x.tap \notin ShiftState /\ x.tap # INIT
      BY <2>1, <2>8, <3>2
    <3>4. x.dev \notin ShiftState
      BY <2>1, <3>3 DEF Tracked
    <3>5. y.shifts = 0
      BY <1>1, <2>2, <2>3, <3>2, <3>3, <3>4, LowsFacts DEF y
    <3>6. QED
      BY <2>4, <2>6, <3>3, <3>5, WalkShiftsNothing
  <2> HIDE DEF w
  <2>9. QED
    BY <2>7, <2>8
<1>5. QED
  BY <1>3, <1>4

LEMMA StatePath ==
  ASSUME TypeInv, NEW s \in WalkTarget
  PROVE  LET w == WalkTo(Wire, s)
         IN  /\ w \in Wires
             /\ w.rc = 0 => w.tap = s
             /\ BeliefIsDevice => w \in Tracked
             /\ /\ BeliefIsDevice /\ tap_state # INIT /\ tap_state \notin ShiftState
                => w.shifts = 0
<1> DEFINE w == WalkTo(Wire, s)
<1>1. w \in Wires /\ (w.rc = 0 => w.tap = s)
  BY Targets, WalkTypes
<1>2. BeliefIsDevice => w \in Tracked
  BY Targets, WalkTracks
<1>3. BeliefIsDevice /\ tap_state # INIT /\ tap_state \notin ShiftState => w.shifts = 0
  BY Targets, WalkShiftsNothing
<1>4. QED
  BY <1>1, <1>2, <1>3

-----------------------------------------------------------------------------
(* The commands by what they do on the wire: nothing, walk and clock, or   *)
(* scan; and the packets that start and finish an upload.                  *)
Still == Running /\ last' = Quiet /\ UNCHANGED <<tap_state, dev, playing>>

Clocked(op, w) == Running /\ Wired(op, w, 0, 0, {}) /\ UNCHANGED <<state_endir, state_enddr>>

ScannedDr(n, ps) == Running /\ Sdr(n, ps) /\ UNCHANGED <<state_endir, state_enddr>>
ScannedIr(n, ps) == Running /\ Sir(n, ps) /\ UNCHANGED <<state_endir, state_enddr>>

RunTargets == RunStates \union {state_run, state_endrun}

LEMMA Kinds ==
  ASSUME TypeInv, [Next]_vars
  PROVE  \/ Still
         \/ \E run \in RunTargets, endrun \in RunTargets, k \in Nat :
              Clocked("RUNTEST", WalkTo(Lows(WalkTo(Wire, run), k), endrun))
         \/ \E s \in GoStates : Clocked("STATE", WalkTo(Wire, s))
         \/ \E n \in Lengths, ps \in SUBSET Params : ScannedDr(n, ps) \/ ScannedIr(n, ps)
         \/ Start \/ Finish \/ UNCHANGED vars
<1>1. CASE EndIrFails \/ CommandError \/ \E s \in EndStates : EndIr(s) \/ EndDr(s)
  BY <1>1 DEF EndIrFails, CommandError, EndIr, EndDr, Unwired, Still
<1>2. CASE \E n \in Lengths, ps \in SUBSET Params, r \in Regs : SetPadding(r, n, ps) \/ ParseFails(r, n, ps)
  BY <1>2 DEF SetPadding, ParseFails, Unwired, Still
<1>3. CASE \E s \in GoStates : State(s)
  BY <1>3 DEF State, Clocked
<1>4. CASE \E run \in RunStates \union {state_run}, endrun \in RunStates \union {state_endrun},
              k \in TckCounts : Runtest(run, endrun, k)
  <2>1. TckCounts \subseteq Nat
    BY CommandsAssumption
  <2>2. QED
    BY <1>4, <2>1 DEF Runtest, Clocked, RunTargets
<1>5. CASE \E n \in Lengths, ps \in SUBSET Params : Sdr(n, ps) \/ Sir(n, ps)
  BY <1>5 DEF Sdr, Sir, Scan, ScannedDr, ScannedIr
<1>6. QED
  BY <1>1, <1>2, <1>3, <1>4, <1>5 DEF Next

LEMMA ParsedType ==
  ASSUME NEW b \in BitData, NEW n \in Lengths, NEW ps, NEW lost
  PROVE  /\ Parsed(b, n, ps) \in BitData
         /\ Without(Parsed(b, n, ps), lost) \in BitData
<1>1. Written(n) \in Arrays /\ NULL \in Arrays
  <2>1. n \in Nat
    BY CommandsAssumption
  <2>2. (n + 7) \div 8 \in Int
    BY <2>1
  <2>3. QED
    BY <2>2 DEF Written, ByteLength, Arrays
<1>2. Parsed(b, n, ps) \in BitData
  BY <1>1 DEF Parsed, BitData
<1>3. ASSUME NEW x \in BitData PROVE Without(x, lost) \in BitData
  BY <1>1 DEF Without, BitData
<1>4. QED
  BY <1>2, <1>3

(* The registers hold arrays of registers' lengths, whatever is done.      *)
LEMMA BitsNext ==
  ASSUME TypeInv, [Next]_vars
  PROVE  bd' \in [Register -> BitData]
<1> USE DEF TypeInv
<1>1. CASE UNCHANGED bd
  BY <1>1
<1>2. ASSUME NEW n \in Lengths, NEW ps, NEW r, bd' = [bd EXCEPT ![r] = Parsed(@, n, ps)]
      PROVE  bd' \in [Register -> BitData]
  BY <1>2, ParsedType
<1>3. ASSUME NEW n \in Lengths, NEW ps, NEW r, ParseFails(r, n, ps)
      PROVE  bd' \in [Register -> BitData]
  <2>1. PICK lost : bd' = [bd EXCEPT ![r] = Without(Parsed(@, n, ps), lost)]
    BY <1>3 DEF ParseFails
  <2>2. QED
    BY <2>1, ParsedType
<1>4. CASE Start
  <2>1. ASSUME NEW a \in Arrays PROVE [a EXCEPT !.own = FALSE] \in Arrays
    <3>1. [NULL EXCEPT !.own = FALSE] = NULL
      <4>1. NULL \in [bytes : Int, for : Int, own : BOOLEAN] /\ NULL.own = FALSE
        BY DEF NULL
      <4>2. \A x \in [bytes : Int, for : Int, own : BOOLEAN] : x.own = FALSE => [x EXCEPT !.own = FALSE] = x
        OBVIOUS
      <4>3. QED
        BY <4>1, <4>2
    <3>2. CASE a = NULL
      BY <3>1, <3>2
    <3>3. CASE a \in [bytes : Int, for : Lengths, own : BOOLEAN]
      BY <3>3 DEF Arrays
    <3>4. QED
      BY <3>2, <3>3 DEF Arrays
  <2>2. ASSUME NEW b \in BitData
        PROVE  [b EXCEPT !.len = 0, !.has_tdo_data = FALSE,
                         !.array = [p \in Param |-> [@[p] EXCEPT !.own = FALSE]]] \in BitData
    BY <2>1 DEF BitData
  <2>3. QED
    BY <1>4, <2>2 DEF Start
<1>5. CASE Finish
  <2>1. ASSUME NEW b \in BitData PROVE [b EXCEPT !.array = Empty.array] \in BitData
    BY DEF BitData, Empty, Arrays
  <2>2. QED
    BY <1>5, <2>1 DEF Finish
<1>6. QED
  BY <1>1, <1>2, <1>3, <1>4, <1>5
     DEF Next, vars, EndIrFails, CommandError, EndIr, EndDr, SetPadding, Runtest, State, Sdr, Sir, Scan

LEMMA BitsAreTyped ==
  ASSUME bd \in [Register -> BitData]
  PROVE  /\ DOMAIN bd = Register
         /\ \A r \in Register :
              /\ bd[r].len \in Lengths \union {0} /\ bd[r].has_tdo_data \in BOOLEAN
              /\ \A p \in Param : bd[r].array[p] # NULL => bd[r].array[p].for \in Lengths
BY DEF BitData, Arrays

LEMMA ScannedPaths ==
  ASSUME TypeInv, NEW n \in Lengths, NEW ps
  PROVE  /\ ScannedDr(n, ps) => \E w \in Wires : \E before, bits, regs :
              /\ Wired("SDR", w, before, bits, regs)
              /\ BeliefIsDevice => ScanDone(DRSHIFT, state_enddr, w, before, bits)
         /\ ScannedIr(n, ps) => \E w \in Wires : \E before, bits, regs :
              /\ Wired("SIR", w, before, bits, regs)
              /\ BeliefIsDevice => ScanDone(IRSHIFT, state_endir, w, before, bits)
<1>1. /\ {"SDR", "HDR", "TDR", "SIR", "HIR", "TIR"} \subseteq Register
      /\ DRSHIFT \in ShiftState /\ IRSHIFT \in ShiftState
      /\ state_enddr \in WalkTarget /\ state_endir \in WalkTarget
  BY Targets DEF Register, ShiftState
<1>2. QED
  BY <1>1, ScanWired DEF ScannedDr, ScannedIr, Sdr, Sir

(* What a wire ends on, the host and the device are on.                    *)
LEMMA OnTheWire ==
  ASSUME TypeInv, [Next]_vars
  PROVE  tap_state' \in TapState /\ dev' \in DevState
<1>0. tap_state \in TapState /\ dev \in DevState
  BY DEF TypeInv, TypeOK
<1>1. ASSUME NEW op, NEW w \in Wires, NEW before, NEW bits, NEW regs, Wired(op, w, before, bits, regs)
      PROVE  tap_state' \in TapState /\ dev' \in DevState
  BY <1>1 DEF Wired, Wires
<1>2. CASE Still \/ UNCHANGED vars
  BY <1>0, <1>2 DEF Still, vars
<1>3. ASSUME NEW run \in RunTargets, NEW endrun \in RunTargets, NEW k \in Nat,
             Clocked("RUNTEST", WalkTo(Lows(WalkTo(Wire, run), k), endrun))
      PROVE  tap_state' \in TapState /\ dev' \in DevState
  <2>1. run \in WalkTarget /\ endrun \in WalkTarget
    BY Targets DEF RunTargets
  <2>2. QED
    BY <1>1, <1>3, <2>1, RuntestPath DEF Clocked
<1>4. ASSUME NEW s \in GoStates, Clocked("STATE", WalkTo(Wire, s))
      PROVE  tap_state' \in TapState /\ dev' \in DevState
  BY <1>1, <1>4, Targets, StatePath DEF Clocked
<1>5. ASSUME NEW n \in Lengths, NEW ps, ScannedDr(n, ps) \/ ScannedIr(n, ps)
      PROVE  tap_state' \in TapState /\ dev' \in DevState
  BY <1>1, <1>5, ScannedPaths
<1>6. CASE Start
  <2>1. tap_state' = INIT /\ dev' \in Found
    BY <1>6 DEF Start
  <2>2. Found \subseteq DevState /\ INIT \in TapState
    BY CommandsAssumption DEF TapState, INIT, IRUPDATE
  <2>3. QED
    BY <2>1, <2>2
<1>7. CASE Finish
  BY <1>1, <1>7, Targets, WalkTypes DEF Finish, Wires
<1>8. QED
  BY <1>2, <1>3, <1>4, <1>5, <1>6, <1>7, Kinds

Settings == /\ {state_endir, state_enddr} \subseteq EndStates \union {IDLE}
            /\ {state_run, state_endrun} \subseteq RunStates \union {IDLE}
            /\ rc \in {0, -1} /\ playing \in BOOLEAN

LEMMA SettingsNext == ASSUME TypeInv, [Next]_vars PROVE Settings'
<1>0. Settings
  BY DEF TypeInv, TypeOK, Settings
<1>1. CASE EndIrFails \/ CommandError \/ \E s \in EndStates : EndIr(s) \/ EndDr(s)
  BY <1>0, <1>1 DEF EndIrFails, CommandError, EndIr, EndDr, Unwired, Settings
<1>2. CASE \E n \in Lengths, ps \in SUBSET Params, r \in Regs : SetPadding(r, n, ps) \/ ParseFails(r, n, ps)
  BY <1>0, <1>2 DEF SetPadding, ParseFails, Unwired, Settings
<1>3. ASSUME NEW op, NEW w \in Wires, NEW before, NEW bits, NEW regs, Wired(op, w, before, bits, regs)
      PROVE  rc' \in {0, -1} /\ playing' \in BOOLEAN
  BY <1>0, <1>3 DEF Wired, Wires, Settings
<1>4. ASSUME NEW s \in GoStates, State(s) PROVE Settings'
  BY <1>0, <1>3, <1>4, Targets, StatePath DEF State, Settings
<1>5. ASSUME NEW run \in RunStates \union {state_run}, NEW endrun \in RunStates \union {state_endrun},
             NEW k \in TckCounts, Runtest(run, endrun, k)
      PROVE  Settings'
  <2>1. run \in WalkTarget /\ endrun \in WalkTarget /\ k \in Nat
    BY Targets, CommandsAssumption
  <2>2. rc' \in {0, -1} /\ playing' \in BOOLEAN
    BY <1>3, <1>5, <2>1, RuntestPath DEF Runtest
  <2>3. QED
    BY <1>0, <1>5, <2>2 DEF Runtest, Settings
<1>6. ASSUME NEW n \in Lengths, NEW ps, Sdr(n, ps) \/ Sir(n, ps) PROVE Settings'
  <2>1. /\ UNCHANGED <<state_endir, state_enddr, state_run, state_endrun>>
        /\ ScannedDr(n, ps) \/ ScannedIr(n, ps)
    BY <1>6 DEF Sdr, Sir, Scan, ScannedDr, ScannedIr
  <2>2. rc' \in {0, -1} /\ playing' \in BOOLEAN
    BY <1>3, <2>1, ScannedPaths
  <2>3. QED
    BY <1>0, <2>1, <2>2 DEF Settings
<1>7. CASE Start
  BY <1>7 DEF Start, Settings
<1>8. CASE Finish \/ UNCHANGED vars
  BY <1>0, <1>8 DEF Finish, vars, player, Settings
<1>9. QED
  BY <1>1, <1>2, <1>4, <1>5, <1>6, <1>7, <1>8 DEF Next

LEMMA TypeInit == Init => TypeInv
<1> SUFFICES ASSUME Init PROVE TypeInv
  OBVIOUS
<1>1. bd \in [Register -> BitData]
  BY DEF Init, Empty, BitData, Arrays
<1>2. tap_state \in TapState /\ dev \in DevState
  BY CommandsAssumption DEF Init, TapState, INIT, IRUPDATE
<1>3. Settings
  BY DEF Init, Settings
<1>4. QED
  BY <1>1, <1>2, <1>3, BitsAreTyped DEF TypeInv, TypeOK, Settings

LEMMA TypeNext == TypeInv /\ [Next]_vars => TypeInv'
<1> SUFFICES ASSUME TypeInv, [Next]_vars PROVE TypeInv'
  OBVIOUS
<1>1. tap_state' \in TapState /\ dev' \in DevState
  BY OnTheWire
<1>2. (bd \in [Register -> BitData])'
  BY BitsNext
<1>3. Settings'
  BY SettingsNext
<1>4. /\ DOMAIN bd' = Register
      /\ \A r \in Register :
           /\ bd'[r].len \in Lengths \union {0} /\ bd'[r].has_tdo_data \in BOOLEAN
           /\ \A p \in Param : bd'[r].array[p] # NULL => bd'[r].array[p].for \in Lengths
  BY <1>2 DEF BitData, Arrays
<1>5. QED
  BY <1>1, <1>2, <1>3, <1>4 DEF TypeInv, TypeOK, Settings

(* The player's variables keep their types, for any commands: h->tap_state *)
(* is a state of the enum also after it has been incremented.              *)
THEOREM TypeOKAlways == Spec => []TypeOK
<1>1. TypeInv => TypeOK
  BY DEF TypeInv
<1>2. QED
  BY <1>1, TypeInit, TypeNext, PTL DEF Spec

-----------------------------------------------------------------------------
(* On the wire. RUNTEST clocks TMS low in a state that the file names; the *)
(* host takes the device to stay there.                                    *)
RunStatesRest == \A s \in RunStates : OnLow(s) = s

OnWireInv ==
  TypeInv /\ BeliefIsDevice /\ ScanIsExact /\ ScansKeepTheirColumn

(* What a command did on the wire, as the history tells it.                *)
LEMMA WiredFacts ==
  ASSUME NEW op, NEW w, NEW before, NEW bits, NEW regs, Wired(op, w, before, bits, regs)
  PROVE  /\ tap_state' = w.tap /\ dev' = w.dev /\ rc' = w.rc
         /\ last'.op = op /\ last'.from = tap_state /\ last'.bits = bits
         /\ last'.shifted = w.shifts - before /\ last'.seen = w.seen
BY DEF Wired

LEMMA QuietFacts == Quiet.op = "none"
BY DEF Quiet

(* A command that does not scan.                                           *)
LEMMA OtherKeeps ==
  ASSUME TypeInv', last'.op \notin {"SDR", "SIR"}, BeliefIsDevice'
  PROVE  OnWireInv'
BY DEF OnWireInv, ScanIsExact, ScansKeepTheirColumn

LEMMA ColumnsApart ==
  /\ DrColumn = RESET .. DRUPDATE /\ IrColumn = {RESET, IDLE} \union (IRSELECT .. IRUPDATE)
  /\ (DrColumn \union {IRSELECT}) \intersect {IRCAPTURE, IRUPDATE} = {}
  /\ (IrColumn \union {DRSELECT}) \intersect {DRCAPTURE, DRUPDATE} = {}
BY DEF DrColumn, IrColumn, RESET, IDLE, DRSELECT, DRCAPTURE, DRUPDATE,
       IRSELECT, IRCAPTURE, IRUPDATE

LEMMA OnWireInit == Init => OnWireInv
<1> SUFFICES ASSUME Init PROVE OnWireInv
  OBVIOUS
<1>1. tap_state = INIT /\ last = Quiet
  BY DEF Init
<1>2. QED
  BY <1>1, TypeInit, QuietFacts DEF OnWireInv, BeliefIsDevice, ScanIsExact, ScansKeepTheirColumn

LEMMA OnWireNext == RunStatesRest /\ OnWireInv /\ [Next]_vars => OnWireInv'
<1> SUFFICES ASSUME RunStatesRest, OnWireInv, [Next]_vars PROVE OnWireInv'
  OBVIOUS
<1>0. TypeInv /\ BeliefIsDevice /\ TypeInv'
  BY TypeNext DEF OnWireInv
<1>1. ASSUME NEW op, NEW w \in Tracked, NEW before, NEW bits, NEW regs, Wired(op, w, before, bits, regs)
      PROVE  BeliefIsDevice'
  BY <1>1, WiredFacts DEF Tracked, BeliefIsDevice
<1>2. CASE Still
  <2>1. last'.op = "none" /\ BeliefIsDevice'
    BY <1>0, <1>2, QuietFacts DEF Still, BeliefIsDevice
  <2>2. QED
    BY <1>0, <2>1, OtherKeeps
<1>3. ASSUME NEW run \in RunTargets, NEW endrun \in RunTargets, NEW k \in Nat,
             Clocked("RUNTEST", WalkTo(Lows(WalkTo(Wire, run), k), endrun))
      PROVE  OnWireInv'
  <2> DEFINE w == WalkTo(Lows(WalkTo(Wire, run), k), endrun)
  <2>1. run \in WalkTarget /\ endrun \in WalkTarget
    BY <1>0, Targets DEF RunTargets
  <2>2. run \in RunStates \union {IDLE}
    BY <1>0 DEF RunTargets, TypeInv, TypeOK
  <2>3. OnLow(run) = run
    BY <2>2, RestsOnLow DEF RunStatesRest
  <2>4. w \in Tracked
    BY <1>0, <2>1, <2>3, RuntestPath
  <2>5. Wired("RUNTEST", w, 0, 0, {})
    BY <1>3 DEF Clocked
  <2> HIDE DEF w
  <2>6. last'.op = "RUNTEST" /\ BeliefIsDevice'
    BY <1>1, <2>4, <2>5, WiredFacts
  <2>7. QED
    BY <1>0, <2>6, OtherKeeps
<1>4. ASSUME NEW s \in GoStates, Clocked("STATE", WalkTo(Wire, s))
      PROVE  OnWireInv'
  <2> DEFINE w == WalkTo(Wire, s)
  <2>1. w \in Tracked
    BY <1>0, Targets, StatePath
  <2>2. Wired("STATE", w, 0, 0, {})
    BY <1>4 DEF Clocked
  <2> HIDE DEF w
  <2>3. last'.op = "STATE" /\ BeliefIsDevice'
    BY <1>1, <2>1, <2>2, WiredFacts
  <2>4. QED
    BY <1>0, <2>3, OtherKeeps
<1>5. ASSUME NEW n \in Lengths, NEW ps, ScannedDr(n, ps) PROVE OnWireInv'
  <2>a. PICK w \in Wires : \E before, bits, regs :
          /\ Wired("SDR", w, before, bits, regs)
          /\ ScanDone(DRSHIFT, state_enddr, w, before, bits)
    BY <1>0, <1>5, ScannedPaths
  <2>1. PICK before, bits, regs :
          /\ Wired("SDR", w, before, bits, regs)
          /\ ScanDone(DRSHIFT, state_enddr, w, before, bits)
    BY <2>a
  <2>2. /\ last'.op = "SDR" /\ last'.from = tap_state /\ last'.bits = bits /\ rc' = w.rc
        /\ last'.shifted = w.shifts - before /\ last'.seen = w.seen
    BY <2>1, WiredFacts
  <2>3. BeliefIsDevice'
    BY <1>1, <2>1 DEF ScanDone
  <2>4. ScanIsExact'
    BY <2>1, <2>2 DEF ScanDone, ScanIsExact
  <2>5. state_enddr' = state_enddr
    BY <1>5 DEF ScannedDr
  <2>6. {tap_state, state_enddr} \subseteq DrColumn => w.seen \intersect {IRCAPTURE, IRUPDATE} = {}
    BY <2>1, ColumnsApart DEF ScanDone
  <2>7. ScansKeepTheirColumn'
    BY <2>2, <2>5, <2>6, ColumnsApart DEF ScansKeepTheirColumn
  <2>8. QED
    BY <1>0, <2>3, <2>4, <2>7 DEF OnWireInv
<1>6. ASSUME NEW n \in Lengths, NEW ps, ScannedIr(n, ps) PROVE OnWireInv'
  <2>a. PICK w \in Wires : \E before, bits, regs :
          /\ Wired("SIR", w, before, bits, regs)
          /\ ScanDone(IRSHIFT, state_endir, w, before, bits)
    BY <1>0, <1>6, ScannedPaths
  <2>1. PICK before, bits, regs :
          /\ Wired("SIR", w, before, bits, regs)
          /\ ScanDone(IRSHIFT, state_endir, w, before, bits)
    BY <2>a
  <2>2. /\ last'.op = "SIR" /\ last'.from = tap_state /\ last'.bits = bits /\ rc' = w.rc
        /\ last'.shifted = w.shifts - before /\ last'.seen = w.seen
    BY <2>1, WiredFacts
  <2>3. BeliefIsDevice'
    BY <1>1, <2>1 DEF ScanDone
  <2>4. ScanIsExact'
    BY <2>1, <2>2 DEF ScanDone, ScanIsExact
  <2>5. state_endir' = state_endir
    BY <1>6 DEF ScannedIr
  <2>6. {tap_state, state_endir} \subseteq IrColumn => w.seen \intersect {DRCAPTURE, DRUPDATE} = {}
    BY <2>1, ColumnsApart DEF ScanDone
  <2>7. ScansKeepTheirColumn'
    BY <2>2, <2>5, <2>6, ColumnsApart DEF ScansKeepTheirColumn
  <2>8. QED
    BY <1>0, <2>3, <2>4, <2>7 DEF OnWireInv
<1>7. CASE Start
  <2>1. tap_state' = INIT /\ last' = Quiet
    BY <1>7 DEF Start
  <2>2. last'.op = "none" /\ BeliefIsDevice'
    BY <2>1, QuietFacts DEF BeliefIsDevice
  <2>3. QED
    BY <1>0, <2>2, OtherKeeps
<1>8. CASE Finish
  <2>1. WalkTo(Wire, RESET) \in Tracked
    BY <1>0, Targets, WalkTracks
  <2>2. tap_state' = WalkTo(Wire, RESET).tap /\ dev' = WalkTo(Wire, RESET).dev /\ last' = Quiet
    BY <1>8 DEF Finish
  <2>3. last'.op = "none" /\ BeliefIsDevice'
    BY <2>1, <2>2, QuietFacts DEF Tracked, BeliefIsDevice
  <2>4. QED
    BY <1>0, <2>3, OtherKeeps
<1>9. CASE UNCHANGED vars
  BY <1>0, <1>9 DEF OnWireInv, vars, player, BeliefIsDevice, ScanIsExact, ScansKeepTheirColumn
<1>10. QED
  BY <1>0, <1>2, <1>3, <1>4, <1>5, <1>6, <1>7, <1>8, <1>9, Kinds

(* h->tap_state is the device's state after every command, whatever the    *)
(* lengths, the end states and the errors, if TCK leaves the device alone  *)
(* in the states RUNTEST waits in.                                         *)
THEOREM BeliefIsDeviceAlways == ASSUME RunStatesRest PROVE Spec => []BeliefIsDevice
<1>1. OnWireInv => BeliefIsDevice
  BY DEF OnWireInv
<1>2. OnWireInv /\ [Next]_vars => OnWireInv'
  BY OnWireNext
<1>3. QED
  BY <1>1, <1>2, OnWireInit, PTL DEF Spec

(* A scan with bits shifts exactly header, data and trailer, for registers *)
(* of any lengths, whichever of them are empty.                            *)
THEOREM ScanIsExactAlways == ASSUME RunStatesRest PROVE Spec => []ScanIsExact
<1>1. OnWireInv => ScanIsExact
  BY DEF OnWireInv
<1>2. OnWireInv /\ [Next]_vars => OnWireInv'
  BY OnWireNext
<1>3. QED
  BY <1>1, <1>2, OnWireInit, PTL DEF Spec

(* A scan of one register captures and updates no other, unless it begins  *)
(* or ends in the other column.                                            *)
THEOREM ScansKeepTheirColumnAlways == ASSUME RunStatesRest PROVE Spec => []ScansKeepTheirColumn
<1>1. OnWireInv => ScansKeepTheirColumn
  BY DEF OnWireInv
<1>2. OnWireInv /\ [Next]_vars => OnWireInv'
  BY OnWireNext
<1>3. QED
  BY <1>1, <1>2, OnWireInit, PTL DEF Spec

-----------------------------------------------------------------------------
(* Between two commands the host rests outside the shift states, if no     *)
(* command names one: SVF allows only RESET, IDLE and the two Pauses.      *)
NoShiftNamed == (EndStates \union RunStates \union GoStates) \intersect ShiftState = {}

RestInv == OnWireInv /\ (Running => tap_state \notin ShiftState) /\ OnlyScansShift

LEMMA RestInit == Init => RestInv
<1> SUFFICES ASSUME Init PROVE RestInv
  OBVIOUS
<1>1. ~Running /\ last = Quiet
  BY DEF Init, Running
<1>2. QED
  BY <1>1, OnWireInit, QuietFacts DEF RestInv, OnlyScansShift

LEMMA RestNext == RunStatesRest /\ NoShiftNamed /\ RestInv /\ [Next]_vars => RestInv'
<1> SUFFICES ASSUME RunStatesRest, NoShiftNamed, RestInv, [Next]_vars PROVE RestInv'
  OBVIOUS
<1>0. TypeInv /\ BeliefIsDevice /\ OnWireInv' /\ (Running => tap_state \notin ShiftState)
  BY OnWireNext DEF RestInv, OnWireInv
<1>1. \A s \in EndStates \union RunStates \union GoStates \union {IDLE} : s \notin ShiftState
  BY DEF NoShiftNamed, ShiftState, IDLE, DRSHIFT, IRSHIFT
<1>2. CASE Still
  <2>1. tap_state' \notin ShiftState /\ last'.op = "none"
    BY <1>0, <1>2, QuietFacts DEF Still
  <2>2. QED
    BY <1>0, <2>1 DEF RestInv, OnlyScansShift
<1>3. ASSUME NEW run \in RunTargets, NEW endrun \in RunTargets, NEW k \in Nat,
             Clocked("RUNTEST", WalkTo(Lows(WalkTo(Wire, run), k), endrun))
      PROVE  RestInv'
  <2> DEFINE w == WalkTo(Lows(WalkTo(Wire, run), k), endrun)
  <2>1. run \in WalkTarget /\ endrun \in WalkTarget
    BY <1>0, Targets DEF RunTargets
  <2>2. run \in RunStates \union {IDLE} /\ endrun \in RunStates \union {IDLE}
    BY <1>0 DEF RunTargets, TypeInv, TypeOK
  <2>3. OnLow(run) = run
    BY <2>2, RestsOnLow DEF RunStatesRest
  <2>4. tap_state \notin ShiftState /\ run \notin ShiftState /\ endrun \notin ShiftState
    BY <1>0, <1>1, <1>3, <2>2 DEF Clocked
  <2>5. w.rc = 0 => w.tap = endrun
    BY <1>0, <2>1, RuntestPath
  <2>6. tap_state # INIT => w.shifts = 0
    <3>1. {tap_state, run, endrun} \intersect ShiftState = {}
      BY <2>4
    <3>2. QED
      BY <1>0, <2>1, <2>3, <3>1, RuntestPath
  <2>7. Wired("RUNTEST", w, 0, 0, {})
    BY <1>3 DEF Clocked
  <2> HIDE DEF w
  <2>8. tap_state' = w.tap /\ rc' = w.rc /\ last'.from = tap_state /\ last'.shifted = w.shifts - 0
    BY <2>7, WiredFacts
  <2>9. Running' => tap_state' \notin ShiftState
    BY <2>4, <2>5, <2>8 DEF Running
  <2>10. QED
    BY <1>0, <2>6, <2>8, <2>9 DEF RestInv, OnlyScansShift
<1>4. ASSUME NEW s \in GoStates, Clocked("STATE", WalkTo(Wire, s)) PROVE RestInv'
  <2> DEFINE w == WalkTo(Wire, s)
  <2>1. tap_state \notin ShiftState /\ s \notin ShiftState
    BY <1>0, <1>1, <1>4 DEF Clocked
  <2>2. (w.rc = 0 => w.tap = s) /\ (tap_state # INIT => w.shifts = 0)
    BY <1>0, <2>1, Targets, StatePath
  <2>3. Wired("STATE", w, 0, 0, {})
    BY <1>4 DEF Clocked
  <2> HIDE DEF w
  <2>4. tap_state' = w.tap /\ rc' = w.rc /\ last'.from = tap_state /\ last'.shifted = w.shifts - 0
    BY <2>3, WiredFacts
  <2>5. Running' => tap_state' \notin ShiftState
    BY <2>1, <2>2, <2>4 DEF Running
  <2>6. QED
    BY <1>0, <2>2, <2>4, <2>5 DEF RestInv, OnlyScansShift
<1>5. ASSUME NEW op \in {"SDR", "SIR"}, NEW shift, NEW end \in {state_enddr, state_endir},
             NEW w, NEW before, NEW bits, NEW regs,
             Wired(op, w, before, bits, regs), ScanDone(shift, end, w, before, bits)
      PROVE  RestInv'
  <2>1. end \notin ShiftState
    BY <1>0, <1>1 DEF TypeInv, TypeOK
  <2>2. tap_state' = w.tap /\ rc' = w.rc /\ last'.op = op
    BY <1>5, WiredFacts
  <2>3. Running' => tap_state' \notin ShiftState
    BY <1>5, <2>1, <2>2 DEF Running, ScanDone
  <2>4. QED
    BY <1>0, <2>2, <2>3 DEF RestInv, OnlyScansShift
<1>6. ASSUME NEW n \in Lengths, NEW ps, ScannedDr(n, ps) PROVE RestInv'
  BY <1>0, <1>5, <1>6, ScannedPaths
<1>7. ASSUME NEW n \in Lengths, NEW ps, ScannedIr(n, ps) PROVE RestInv'
  BY <1>0, <1>5, <1>7, ScannedPaths
<1>8. CASE Start
  <2>1. tap_state' = INIT /\ last'.op = "none"
    BY <1>8, QuietFacts DEF Start
  <2>2. QED
    BY <1>0, <2>1, ShiftColumns DEF RestInv, OnlyScansShift
<1>9. CASE Finish
  <2>1. playing' = FALSE /\ last'.op = "none"
    BY <1>9, QuietFacts DEF Finish
  <2>2. QED
    BY <1>0, <2>1 DEF RestInv, Running, OnlyScansShift
<1>10. CASE UNCHANGED vars
  BY <1>0, <1>10 DEF RestInv, vars, player, Running, OnlyScansShift
<1>11. QED
  BY <1>0, <1>2, <1>3, <1>4, <1>6, <1>7, <1>8, <1>9, <1>10, Kinds

(* RUNTEST and STATE clock no edge in a shift state, from wherever the     *)
(* commands before them have left the TAP.                                 *)
THEOREM OnlyScansShiftAlways ==
  ASSUME RunStatesRest, NoShiftNamed PROVE Spec => []OnlyScansShift
<1>1. RestInv => OnlyScansShift
  BY DEF RestInv
<1>2. RestInv /\ [Next]_vars => RestInv'
  BY RestNext
<1>3. QED
  BY <1>1, <1>2, RestInit, PTL DEF Spec

-----------------------------------------------------------------------------
(* Powers and bits.                                                        *)
IsPower(f, b) == f = [k \in Nat |-> IF k = 0 THEN 1 ELSE b * f[k - 1]]

LEMMA PowerSteps ==
  ASSUME NEW b \in Nat \ {0}
  PROVE  /\ Power(b, 0) = 1
         /\ \A k \in Nat : Power(b, k + 1) = b * Power(b, k) /\ Power(b, k) \in Nat \ {0}
<1> DEFINE next == [x \in (Nat \ {0}) \X Nat |-> b * x[1]]
           F == CHOOSE f : IsPower(f, b)
<1>1. next \in [(Nat \ {0}) \X Nat -> Nat \ {0}]
  <2>1. \A x \in (Nat \ {0}) \X Nat : b * x[1] \in Nat \ {0}
    <3>1. \A m \in Nat \ {0} : b * m \in Nat \ {0}
      OBVIOUS
    <3>2. QED
      BY <3>1
  <2>2. QED
    BY <2>1
<1>2. \A x \in Nat \ {0}, k \in Nat : next[<<x, k>>] = b * x
  OBVIOUS
<1> HIDE DEF next
<1> DEFINE S == Nat \ {0}
<1>s. Steps(next, S, 1)
  BY <1>1 DEF Steps
<1> HIDE DEF S
<1>p. PICK f : Iterates(f, next, S, 1)
  BY <1>s, RecursionExists
<1>3. f \in [Nat -> S] /\ f[0] = 1 /\ \A k \in Nat : f[k + 1] = next[<<f[k], k + 1>>]
  BY <1>p DEF Iterates
<1>4. ASSUME NEW k \in Nat PROVE f[k + 1] = b * f[k]
  <2>1. f[k] \in Nat \ {0} /\ k + 1 \in Nat /\ f[k + 1] = next[<<f[k], k + 1>>]
    BY <1>3 DEF S
  <2>2. QED
    BY <1>2, <2>1
<1>5. \A k \in Nat : f[k] = IF k = 0 THEN 1 ELSE b * f[k - 1]
  <2> SUFFICES ASSUME NEW k \in Nat, k # 0 PROVE f[k] = b * f[k - 1]
    BY <1>3
  <2>1. k - 1 \in Nat /\ (k - 1) + 1 = k
    OBVIOUS
  <2>2. QED
    BY <1>4, <2>1
<1>6. IsPower(f, b)
  BY <1>3, <1>5 DEF IsPower
<1>7. IsPower(F, b)
  BY <1>6
<1>8. \A k \in Nat : Power(b, k) = F[k]
  BY DEF Power, IsPower
<1> HIDE DEF F
<1>9. F[0] = 1 /\ \A k \in Nat : F[k + 1] = b * F[k]
  BY <1>7 DEF IsPower
<1>10. \A k \in Nat : F[k] \in Nat \ {0}
  <2>1. F[0] \in S /\ \A m \in S : b * m \in S
    BY <1>9 DEF S
  <2>2. \A k \in Nat : F[k] \in S => F[k + 1] \in S
    BY <1>9, <2>1
  <2>3. QED
    BY <2>1, <2>2, StaysWithin DEF S
<1>11. QED
  BY <1>8, <1>9, <1>10

IsHalving(f, n) == f = [i \in Nat |-> IF i = 0 THEN n ELSE f[i - 1] \div 2]

(* Bit k of n is that of n halved k times, for which a name is needed.     *)
Halved(n, k) == (CHOOSE f : IsHalving(f, n))[k]

LEMMA HalvedSteps ==
  ASSUME NEW n \in Nat
  PROVE  /\ Halved(n, 0) = n
         /\ \A k \in Nat : /\ Halved(n, k) \in Nat /\ Halved(n, k + 1) = Halved(n, k) \div 2
                           /\ Bit(n, k) = Halved(n, k) % 2
<1> DEFINE next == [x \in Nat \X Nat |-> x[1] \div 2]
           F == CHOOSE f : IsHalving(f, n)
<1>1. next \in [Nat \X Nat -> Nat] /\ \A x \in Nat, k \in Nat : next[<<x, k>>] = x \div 2
  OBVIOUS
<1> HIDE DEF next
<1>s. Steps(next, Nat, n)
  BY <1>1 DEF Steps
<1>p. PICK f : Iterates(f, next, Nat, n)
  BY <1>s, RecursionExists
<1>3. f \in [Nat -> Nat] /\ f[0] = n /\ \A k \in Nat : f[k + 1] = next[<<f[k], k + 1>>]
  BY <1>p DEF Iterates
<1>4. ASSUME NEW k \in Nat PROVE f[k + 1] = f[k] \div 2
  <2>1. f[k] \in Nat /\ k + 1 \in Nat /\ f[k + 1] = next[<<f[k], k + 1>>]
    BY <1>3
  <2>2. QED
    BY <1>1, <2>1
<1>5. \A k \in Nat : f[k] = IF k = 0 THEN n ELSE f[k - 1] \div 2
  <2> SUFFICES ASSUME NEW k \in Nat, k # 0 PROVE f[k] = f[k - 1] \div 2
    BY <1>3
  <2>1. k - 1 \in Nat /\ (k - 1) + 1 = k
    OBVIOUS
  <2>2. QED
    BY <1>4, <2>1
<1>6. IsHalving(f, n)
  BY <1>3, <1>5 DEF IsHalving
<1>7. IsHalving(F, n)
  BY <1>6
<1>8. \A k \in Nat : Bit(n, k) = F[k] % 2 /\ Halved(n, k) = F[k]
  BY DEF Bit, Halved, IsHalving
<1> HIDE DEF F
<1>9. F[0] = n /\ \A k \in Nat : F[k + 1] = F[k] \div 2
  BY <1>7 DEF IsHalving
<1>10. \A k \in Nat : F[k] \in Nat
  <2>1. F[0] \in Nat /\ \A m \in Nat : m \div 2 \in Nat
    BY <1>9
  <2>2. \A k \in Nat : F[k] \in Nat => F[k + 1] \in Nat
    BY <1>9, <2>1
  <2>3. QED
    BY <2>1, <2>2, StaysWithin
<1>11. QED
  BY <1>8, <1>9, <1>10

(* The bits of a number that one hex digit has been added to.              *)
LEMMA BitsOfSum ==
  ASSUME NEW v \in Nat, NEW x \in 0 .. 15, NEW k \in Nat
  PROVE  /\ k < 4 => Bit(16 * v + x, k) = Bit(x, k)
         /\ k >= 4 => Bit(16 * v + x, k) = Bit(v, k - 4)
<1> DEFINE w == 16 * v + x
<1>0. w \in Nat /\ x \in Nat
  OBVIOUS
<1>1. ASSUME NEW n \in Nat
      PROVE  /\ Halved(n, 0) = n /\ Halved(n, 1) = n \div 2 /\ Halved(n, 2) = (n \div 2) \div 2
             /\ Halved(n, 3) = ((n \div 2) \div 2) \div 2
             /\ Halved(n, 4) = (((n \div 2) \div 2) \div 2) \div 2
  <2>1. Halved(n, 0) = n
    BY HalvedSteps
  <2>2. Halved(n, 0 + 1) = Halved(n, 0) \div 2 /\ Halved(n, 1 + 1) = Halved(n, 1) \div 2
    BY HalvedSteps
  <2>3. Halved(n, 2 + 1) = Halved(n, 2) \div 2 /\ Halved(n, 3 + 1) = Halved(n, 3) \div 2
    BY HalvedSteps
  <2>4. 0 + 1 = 1 /\ 1 + 1 = 2 /\ 2 + 1 = 3 /\ 3 + 1 = 4
    OBVIOUS
  <2>5. QED
    BY <2>1, <2>2, <2>3, <2>4
<1>2. Halved(w, 4) = v
  <2>1. (((w \div 2) \div 2) \div 2) \div 2 = v
    OBVIOUS
  <2>2. QED
    BY <1>0, <1>1, <2>1
<1>3. k < 4 => Bit(w, k) = Bit(x, k)
  <2>1. /\ Halved(w, 0) % 2 = Halved(x, 0) % 2 /\ Halved(w, 1) % 2 = Halved(x, 1) % 2
        /\ Halved(w, 2) % 2 = Halved(x, 2) % 2 /\ Halved(w, 3) % 2 = Halved(x, 3) % 2
    <3>1. w % 2 = x % 2 /\ (w \div 2) % 2 = (x \div 2) % 2
      OBVIOUS
    <3>2. ((w \div 2) \div 2) % 2 = ((x \div 2) \div 2) % 2
      OBVIOUS
    <3>3. (((w \div 2) \div 2) \div 2) % 2 = (((x \div 2) \div 2) \div 2) % 2
      OBVIOUS
    <3> HIDE DEF w
    <3>4. QED
      BY <1>0, <1>1, <3>1, <3>2, <3>3
  <2> HIDE DEF w
  <2>2. k < 4 => Halved(w, k) % 2 = Halved(x, k) % 2
    <3>1. k < 4 => k = 0 \/ k = 1 \/ k = 2 \/ k = 3
      OBVIOUS
    <3>2. QED
      BY <2>1, <3>1
  <2>3. Bit(w, k) = Halved(w, k) % 2 /\ Bit(x, k) = Halved(x, k) % 2
    BY <1>0, HalvedSteps
  <2>4. QED
    BY <2>2, <2>3
<1> HIDE DEF w
<1>4. ASSUME NEW m \in Nat PROVE Halved(w, m + 4) = Halved(v, m)
  <2> DEFINE T == {i \in 0 .. m : Halved(w, i + 4) = Halved(v, i)}
  <2>1. 0 \in T
    BY <1>2, HalvedSteps
  <2>2. ASSUME NEW i \in 0 .. m - 1, i \in T PROVE i + 1 \in T
    <3>1. Halved(w, i + 4) = Halved(v, i) /\ i + 4 \in Nat /\ i \in Nat /\ i + 1 \in 0 .. m
      BY <2>2
    <3>2. Halved(w, (i + 4) + 1) = Halved(w, i + 4) \div 2 /\ Halved(v, i + 1) = Halved(v, i) \div 2
      BY <1>0, <3>1, HalvedSteps
    <3>3. (i + 4) + 1 = (i + 1) + 4
      OBVIOUS
    <3>4. QED
      BY <3>1, <3>2, <3>3
  <2> HIDE DEF T
  <2>3. 0 .. m \subseteq T
    BY <2>1, <2>2, AlongNumbers
  <2>4. m \in T
    BY <2>3
  <2>5. QED
    BY <2>4 DEF T
<1>5. k >= 4 => Bit(w, k) = Bit(v, k - 4)
  <2> SUFFICES ASSUME k >= 4 PROVE Bit(w, k) = Bit(v, k - 4)
    OBVIOUS
  <2>1. k - 4 \in Nat /\ (k - 4) + 4 = k
    OBVIOUS
  <2>2. Halved(w, k) = Halved(v, k - 4)
    BY <1>4, <2>1
  <2>3. QED
    BY <1>0, <2>1, <2>2, HalvedSteps
<1>6. QED
  BY <1>3, <1>5 DEF w

LEMMA ZeroHasNoBits == ASSUME NEW k \in Nat PROVE Bit(0, k) = 0
<1> DEFINE T == {i \in 0 .. k : Halved(0, i) = 0}
<1>1. 0 \in T
  BY HalvedSteps
<1>2. ASSUME NEW i \in 0 .. k - 1, i \in T PROVE i + 1 \in T
  <2>1. Halved(0, i + 1) = Halved(0, i) \div 2 /\ Halved(0, i) = 0 /\ i + 1 \in 0 .. k
    BY <1>2, HalvedSteps
  <2>2. QED
    BY <2>1
<1> HIDE DEF T
<1>3. 0 .. k \subseteq T
  BY <1>1, <1>2, AlongNumbers
<1>4. Halved(0, k) = 0
  BY <1>3 DEF T
<1>5. QED
  BY <1>4, HalvedSteps

-----------------------------------------------------------------------------
(* Numbers from digits.                                                    *)
IsValueOf(f, base, d) ==
  f = [i \in 0 .. Len(d) |-> IF i = 0 THEN 0 ELSE base * f[i - 1] + d[i]]

LEMMA ValueSteps ==
  ASSUME NEW base \in Nat, NEW d \in Seq(Nat)
  PROVE  \E f \in [0 .. Len(d) -> Nat] :
           /\ f[0] = 0 /\ Value(base, d) = f[Len(d)]
           /\ \A i \in 1 .. Len(d) : f[i] = base * f[i - 1] + d[i]
<1> DEFINE n == Len(d)
           next == [x \in Nat \X Nat |-> base * x[1] + (IF x[2] \in 1 .. n THEN d[x[2]] ELSE 0)]
           F == CHOOSE f : IsValueOf(f, base, d)
<1>0. n \in Nat /\ \A i \in 1 .. n : d[i] \in Nat
  OBVIOUS
<1> HIDE DEF n
<1>1. next \in [Nat \X Nat -> Nat]
  <2>1. ASSUME NEW x \in Nat \X Nat PROVE base * x[1] + (IF x[2] \in 1 .. n THEN d[x[2]] ELSE 0) \in Nat
    <3>1. x[1] \in Nat /\ (IF x[2] \in 1 .. n THEN d[x[2]] ELSE 0) \in Nat
      BY <1>0
    <3>2. \A y \in Nat, z \in Nat : base * y + z \in Nat
      OBVIOUS
    <3>3. QED
      BY <3>1, <3>2
  <2>2. QED
    BY <2>1
<1>2. \A x \in Nat, i \in 1 .. n : next[<<x, i>>] = base * x + d[i]
  BY <1>0
<1> HIDE DEF next
<1>s. Steps(next, Nat, 0)
  BY <1>1 DEF Steps
<1>p. PICK g : Iterates(g, next, Nat, 0)
  BY <1>s, RecursionExists
<1>3. g \in [Nat -> Nat] /\ g[0] = 0 /\ \A k \in Nat : g[k + 1] = next[<<g[k], k + 1>>]
  BY <1>p DEF Iterates
<1>4. ASSUME NEW i \in 1 .. n PROVE g[i] = base * g[i - 1] + d[i]
  <2>1. i - 1 \in Nat /\ (i - 1) + 1 = i /\ g[i - 1] \in Nat
    BY <1>0, <1>3
  <2>2. g[i] = next[<<g[i - 1], i>>]
    BY <1>3, <2>1
  <2>3. QED
    BY <1>2, <2>1, <2>2
<1> DEFINE h == [i \in 0 .. n |-> g[i]]
<1>5. h = [i \in 0 .. n |-> IF i = 0 THEN 0 ELSE base * h[i - 1] + d[i]]
  <2>1. ASSUME NEW i \in 0 .. n PROVE h[i] = IF i = 0 THEN 0 ELSE base * h[i - 1] + d[i]
    <3>1. CASE i = 0
      BY <1>3, <3>1
    <3>2. CASE i # 0
      <4>1. i \in 1 .. n /\ i - 1 \in 0 .. n
        BY <1>0, <3>2
      <4>2. h[i] = g[i] /\ h[i - 1] = g[i - 1]
        BY <4>1
      <4> HIDE DEF h
      <4>3. QED
        BY <1>4, <3>2, <4>1, <4>2
    <3>3. QED
      BY <3>1, <3>2
  <2>2. QED
    BY <2>1
<1> HIDE DEF h
<1>6. \E f : IsValueOf(f, base, d)
  BY <1>5 DEF IsValueOf, n
<1>7. IsValueOf(F, base, d)
  BY <1>6
<1>8. Value(base, d) = F[n]
  BY DEF Value, IsValueOf, n
<1> HIDE DEF F
<1>v. F = [i \in 0 .. n |-> IF i = 0 THEN 0 ELSE base * F[i - 1] + d[i]]
  BY <1>7 DEF IsValueOf, n
<1>9. F = [i \in 0 .. n |-> F[i]] /\ F[0] = 0 /\ \A i \in 1 .. n : F[i] = base * F[i - 1] + d[i]
  <2>1. F = [i \in 0 .. n |-> F[i]]
    BY <1>v
  <2>2. F[0] = 0
    BY <1>0, <1>v
  <2>3. ASSUME NEW i \in 1 .. n PROVE F[i] = base * F[i - 1] + d[i]
    <3>1. i \in 0 .. n /\ i # 0
      BY <1>0
    <3>2. QED
      BY <1>v, <3>1
  <2>4. QED
    BY <2>1, <2>2, <2>3
<1>10. ASSUME NEW i \in 0 .. n PROVE F[i] \in Nat
  <2> DEFINE T == {k \in 0 .. n : F[k] \in Nat}
  <2>1. 0 \in T
    BY <1>0, <1>9
  <2>2. ASSUME NEW k \in 0 .. n - 1, k \in T PROVE k + 1 \in T
    <3>1. k + 1 \in 1 .. n /\ (k + 1) - 1 = k /\ F[k] \in Nat /\ d[k + 1] \in Nat /\ k + 1 \in 0 .. n
      BY <1>0, <2>2
    <3>2. F[k + 1] = base * F[k] + d[k + 1]
      BY <1>9, <3>1
    <3>3. \A y \in Nat, z \in Nat : base * y + z \in Nat
      OBVIOUS
    <3>4. QED
      BY <3>1, <3>2, <3>3
  <2> HIDE DEF T
  <2>3. 0 .. n \subseteq T
    BY <1>0, <2>1, <2>2, AlongNumbers
  <2>4. QED
    BY <2>3 DEF T
<1>11. F \in [0 .. n -> Nat]
  BY <1>9, <1>10
<1>12. QED
  BY <1>8, <1>9, <1>11 DEF n

(* Four bits a digit, the last digit's first.                              *)
LEMMA BitsOfValue ==
  ASSUME NEW d \in Seq(0 .. 15), NEW q \in Nat
  PROVE  Bit(Value(16, d), q) = IF q \div 4 < Len(d) THEN Bit(d[Len(d) - q \div 4], q % 4) ELSE 0
<1> DEFINE n == Len(d)
<1>0. n \in Nat /\ d \in Seq(Nat) /\ \A i \in 1 .. n : d[i] \in 0 .. 15
  OBVIOUS
<1>1. PICK f \in [0 .. n -> Nat] :
        f[0] = 0 /\ Value(16, d) = f[n] /\ \A i \in 1 .. n : f[i] = 16 * f[i - 1] + d[i]
  BY <1>0, ValueSteps
<1> HIDE DEF n
<1> DEFINE Read(i) == \A k \in Nat : Bit(f[i], k) = IF k \div 4 < i THEN Bit(d[i - k \div 4], k % 4) ELSE 0
           T == {i \in 0 .. n : Read(i)}
<1>2. 0 \in T
  <2>1. ASSUME NEW k \in Nat PROVE ~(k \div 4 < 0)
    OBVIOUS
  <2>2. Read(0)
    BY <1>1, <2>1, ZeroHasNoBits
  <2> HIDE DEF Read
  <2>3. QED
    BY <1>0, <2>2
<1>3. ASSUME NEW i \in 0 .. n - 1, i \in T PROVE i + 1 \in T
  <2> DEFINE v == f[i]
             x == d[i + 1]
  <2>1. /\ i + 1 \in 1 .. n /\ i + 1 \in 0 .. n /\ i \in 0 .. n /\ (i + 1) - 1 = i
        /\ v \in Nat /\ x \in 0 .. 15 /\ Read(i)
    BY <1>0, <1>1, <1>3
  <2>2. f[i + 1] = 16 * v + x
    BY <1>1, <2>1
  <2> HIDE DEF v, x
  <2>3. ASSUME NEW k \in Nat
        PROVE  Bit(16 * v + x, k) = IF k \div 4 < i + 1 THEN Bit(d[(i + 1) - k \div 4], k % 4) ELSE 0
    <3>1. CASE k < 4
      <4>1. k \div 4 = 0 /\ k % 4 = k /\ 0 < i + 1 /\ (i + 1) - 0 = i + 1
        BY <3>1
      <4>2. Bit(16 * v + x, k) = Bit(x, k)
        BY <2>1, <3>1, BitsOfSum
      <4>3. QED
        BY <4>1, <4>2 DEF x
    <3>2. CASE k >= 4
      <4>1. /\ k - 4 \in Nat /\ (k - 4) % 4 = k % 4 /\ (k - 4) \div 4 = k \div 4 - 1
            /\ i - (k \div 4 - 1) = (i + 1) - k \div 4 /\ (k \div 4 - 1 < i <=> k \div 4 < i + 1)
        BY <3>2
      <4>2. Bit(16 * v + x, k) = Bit(v, k - 4)
        BY <2>1, <3>2, BitsOfSum
      <4>3. Bit(v, k - 4) = IF (k - 4) \div 4 < i THEN Bit(d[i - (k - 4) \div 4], (k - 4) % 4) ELSE 0
        BY <2>1, <4>1 DEF v
      <4>4. QED
        BY <4>1, <4>2, <4>3
    <3>3. QED
      BY <3>1, <3>2
  <2>4. Read(i + 1)
    BY <2>2, <2>3
  <2> HIDE DEF Read
  <2>5. QED
    BY <2>1, <2>4
<1> HIDE DEF T
<1>4. 0 .. n \subseteq T
  BY <1>0, <1>2, <1>3, AlongNumbers
<1>5. n \in T
  BY <1>0, <1>4
<1>6. QED
  BY <1>1, <1>5 DEF T, n

(* bitdata_parse and getbit: where the digits of a number are, which bits  *)
(* the pulses of a scan take from the array.                               *)
LEMMA DigitsAreStored ==
  ASSUME NEW len \in Nat \ {0}, NEW d \in Seq(0 .. 15)
  PROVE  Touched(len, d) \subseteq 0 .. alloced_bytes(len) - 1 <=> Len(d) <= 2 * alloced_bytes(len) + 1
<1> DEFINE B == alloced_bytes(len)
           n == Len(d)
<1>0. B \in Nat \ {0} /\ n \in Nat /\ DOMAIN d = 1 .. n
  BY DEF alloced_bytes
<1>1. Touched(len, d) = {Quotient(B * 2 - n + j - 1, 2) : j \in 1 .. n}
  BY <1>0 DEF Touched, Index
<1> HIDE DEF B, n
<1>2. ASSUME n <= 2 * B + 1, NEW j \in 1 .. n PROVE Quotient(B * 2 - n + j - 1, 2) \in 0 .. B - 1
  <2> DEFINE i == B * 2 - n + j - 1
  <2>1. i \in -1 .. 2 * B - 1
    BY <1>0, <1>2
  <2> HIDE DEF i
  <2>2. CASE i >= 0
    <3>1. i \div 2 \in 0 .. B - 1
      BY <1>0, <2>1, <2>2
    <3>2. QED
      BY <2>2, <3>1 DEF Quotient, i
  <2>3. CASE i = -1
    <3>1. -((-i) \div 2) = 0
      BY <2>3
    <3>2. 0 \in 0 .. B - 1 /\ ~(i >= 0)
      BY <1>0, <2>3
    <3>3. QED
      BY <3>1, <3>2 DEF Quotient, i
  <2>4. QED
    BY <2>1, <2>2, <2>3
<1>3. ASSUME n > 2 * B + 1 PROVE 1 \in 1 .. n /\ Quotient(B * 2 - n + 1 - 1, 2) < 0
  <2> DEFINE i == B * 2 - n + 1 - 1
  <2>1. i \in Int /\ i <= -2 /\ 1 \in 1 .. n
    BY <1>0, <1>3
  <2> HIDE DEF i
  <2>2. -((-i) \div 2) < 0 /\ ~(i >= 0)
    BY <2>1
  <2>3. QED
    BY <2>1, <2>2 DEF Quotient, i
<1>4. ASSUME n > 2 * B + 1 PROVE ~({Quotient(B * 2 - n + j - 1, 2) : j \in 1 .. n} \subseteq 0 .. B - 1)
  <2> DEFINE byte(j) == Quotient(B * 2 - n + j - 1, 2)
  <2>1. 1 \in 1 .. n /\ byte(1) < 0
    BY <1>3, <1>4
  <2> HIDE DEF byte
  <2>2. byte(1) \notin 0 .. B - 1
    BY <2>1
  <2>3. ~({byte(j) : j \in 1 .. n} \subseteq 0 .. B - 1)
    BY <2>1, <2>2
  <2>4. QED
    BY <2>3 DEF byte
<1>5. n <= 2 * B + 1 \/ n > 2 * B + 1
  BY <1>0
<1>6. QED
  BY <1>0, <1>1, <1>2, <1>4, <1>5 DEF B, n

LEMMA BitsAreStored ==
  ASSUME NEW len \in Nat \ {0}, NEW d \in Seq(0 .. 15), Fits(len, d),
         NEW q \in 0 .. 8 * alloced_bytes(len) - 1
  PROVE  getbit(len, d, 8 * alloced_bytes(len) - 1 - q) <=> Bit(Value(16, d), q) = 1
<1> DEFINE B == alloced_bytes(len)
           n == Len(d)
           i == 8 * B - 1 - q
           Place(j) == B * 2 - n + j - 1
           At(j) == IF Place(j) % 2 = 0 THEN 3 - (i % 8) ELSE 7 - (i % 8)
           Read(j) == Quotient(Place(j), 2) = i \div 8 /\ At(j) \in 0 .. 3 /\ Bit(d[j], At(j)) = 1
<1>0. B \in Nat \ {0} /\ n \in Nat /\ DOMAIN d = 1 .. n
  BY DEF alloced_bytes
<1>1. getbit(len, d, i) <=> \E j \in 1 .. n : Read(j)
  BY <1>0 DEF getbit, Index
<1>2. n <= 2 * B \/ (n = 2 * B + 1 /\ d[1] = 0)
  BY DEF Fits
<1>3. Bit(Value(16, d), q) = IF q \div 4 < n THEN Bit(d[n - q \div 4], q % 4) ELSE 0
  <2>1. q \in Nat
    BY <1>0
  <2>2. QED
    BY <2>1, BitsOfValue
<1>4. q \in Nat /\ q \div 4 <= 2 * B - 1
  BY <1>0
<1>q. q \in 0 .. 8 * B - 1
  OBVIOUS
<1> HIDE DEF B, n
<1>5. ASSUME NEW j \in 1 .. n, Place(j) >= 0
      PROVE  Quotient(Place(j), 2) = i \div 8 /\ At(j) \in 0 .. 3 <=> j = n - q \div 4
  <2> DEFINE p == Place(j)
  <2>1. p \in Nat /\ (j = n - q \div 4 <=> p = 2 * B - 1 - q \div 4)
    BY <1>0, <1>4, <1>5
  <2>2. Quotient(p, 2) = p \div 2
    BY <2>1 DEF Quotient
  <2>3. i \div 8 = B - 1 - q \div 8 /\ i % 8 = 7 - (q % 8)
    BY <1>0, <1>q
  <2>4. At(j) = IF p % 2 = 0 THEN 3 - (i % 8) ELSE 7 - (i % 8)
    OBVIOUS
  <2> HIDE DEF p, i, At
  <2>5. At(j) = IF p % 2 = 0 THEN (q % 8) - 4 ELSE q % 8
    BY <1>4, <2>1, <2>3, <2>4
  <2>6. (p \div 2 = B - 1 - q \div 8 /\ At(j) \in 0 .. 3) <=> p = 2 * B - 1 - q \div 4
    <3>1. CASE p % 2 = 0
      BY <1>0, <1>4, <2>1, <2>5, <3>1
    <3>2. CASE p % 2 # 0
      BY <1>0, <1>4, <2>1, <2>5, <3>2
    <3>3. QED
      BY <3>1, <3>2
  <2>7. QED
    BY <2>1, <2>2, <2>3, <2>6 DEF p
<1>6. ASSUME NEW j \in 1 .. n, Place(j) >= 0, j = n - q \div 4 PROVE At(j) = q % 4
  <2> DEFINE p == Place(j)
  <2>1. p \in Nat /\ p = 2 * B - 1 - q \div 4
    BY <1>0, <1>4, <1>6
  <2>3. i % 8 = 7 - (q % 8)
    BY <1>0, <1>q
  <2>4. At(j) = IF p % 2 = 0 THEN 3 - (i % 8) ELSE 7 - (i % 8)
    OBVIOUS
  <2> HIDE DEF p, i, At
  <2>5. At(j) = IF p % 2 = 0 THEN (q % 8) - 4 ELSE q % 8
    BY <1>4, <2>1, <2>3, <2>4
  <2>6. (p % 2 = 0 /\ q % 8 >= 4) \/ (p % 2 # 0 /\ q % 8 < 4)
    <3> DEFINE u == q \div 4
    <3>1. u \in Nat /\ (u % 2 = 0 <=> q % 8 < 4)
      BY <1>4
    <3> HIDE DEF u
    <3>2. p % 2 = 0 <=> u % 2 # 0
      BY <1>0, <2>1, <3>1 DEF u
    <3>3. q % 8 >= 4 \/ q % 8 < 4
      BY <1>4
    <3>4. QED
      BY <3>1, <3>2, <3>3
  <2>7. (q % 8 >= 4 => (q % 8) - 4 = q % 4) /\ (q % 8 < 4 => q % 8 = q % 4)
    BY <1>4
  <2>8. QED
    BY <2>5, <2>6, <2>7
<1>7. ASSUME NEW j \in 1 .. n, Read(j) PROVE Bit(Value(16, d), q) = 1
  <2>1. CASE Place(j) >= 0
    <3>1. j = n - q \div 4 /\ At(j) = q % 4
      BY <1>5, <1>6, <1>7, <2>1
    <3>2. q \div 4 < n
      BY <1>0, <1>4, <3>1
    <3> HIDE DEF At, Place, i
    <3>3. QED
      BY <1>3, <1>7, <3>1, <3>2
  <2>2. CASE ~(Place(j) >= 0)
    <3>1. j = 1 /\ n = 2 * B + 1
      BY <1>0, <1>2, <2>2
    <3>2. d[1] = 0
      BY <1>0, <1>2, <3>1
    <3>3. At(j) \in Nat /\ Bit(d[j], At(j)) = 1
      BY <1>7
    <3> HIDE DEF At, Place, i
    <3>4. QED
      BY <3>1, <3>2, <3>3, ZeroHasNoBits
  <2>3. QED
    BY <2>1, <2>2
<1>8. ASSUME Bit(Value(16, d), q) = 1 PROVE \E j \in 1 .. n : Read(j)
  <2> DEFINE j == n - q \div 4
  <2>1. q \div 4 < n /\ Bit(d[j], q % 4) = 1
    BY <1>3, <1>8
  <2>2. j \in 1 .. n /\ Place(j) >= 0
    BY <1>0, <1>2, <1>4, <2>1
  <2>3. j = n - q \div 4
    OBVIOUS
  <2> HIDE DEF j
  <2>4. At(j) = q % 4 /\ Quotient(Place(j), 2) = i \div 8 /\ At(j) \in 0 .. 3
    BY <1>5, <1>6, <2>2, <2>3
  <2> HIDE DEF At, Place, i
  <2>5. Read(j)
    BY <2>1, <2>4
  <2> HIDE DEF Read
  <2>6. QED
    BY <2>2, <2>5
<1> HIDE DEF Read
<1>9. getbit(len, d, i) <=> Bit(Value(16, d), q) = 1
  BY <1>1, <1>7, <1>8
<1>10. QED
  BY <1>9 DEF B

LEMMA PulsesAreBits ==
  ASSUME NEW len \in Nat \ {0}, NEW params, NEW given \in [params -> Seq(0 .. 15)],
         \A p \in params : Fits(len, given[p])
  PROVE  CarriesNumbers(len, params, given)
<1> DEFINE wanted(p, k) == Bit(Value(16, given[p]), k)
           chosen(p, mask, k) ==
             IF p \in params /\ (mask \in params => wanted(mask, k) = 1) THEN wanted(p, k) ELSE -1
           pad == (8 - (len % 8)) % 8
           B == alloced_bytes(len)
           at(k) == len + pad - k
           G(p, k) == getbit(len, given[p], at(k))
           Played(k) ==
             [tms   |-> at(k) = pad,
              tdi   |-> IF "TDI" \in params /\ ("SMASK" \in params => G("SMASK", k))
                        THEN (IF G("TDI", k) THEN 1 ELSE 0) ELSE -1,
              tdo   |-> IF "TDO" \in params /\ ("MASK" \in params => G("MASK", k))
                        THEN (IF G("TDO", k) THEN 1 ELSE 0) ELSE -1,
              rmask |-> "RMASK" \in params /\ G("RMASK", k)]
           Sent(k) ==
             [tms   |-> k = len,
              tdi   |-> chosen("TDI", "SMASK", k - 1),
              tdo   |-> chosen("TDO", "MASK", k - 1),
              rmask |-> "RMASK" \in params /\ wanted("RMASK", k - 1) = 1]
<1>1. len + pad = 8 * B /\ pad \in Nat /\ B \in Nat \ {0} /\ len <= 8 * B
  BY DEF alloced_bytes
<1>2. ASSUME NEW p \in params, NEW k \in 1 .. len
      PROVE  (G(p, k) <=> wanted(p, k - 1) = 1) /\ wanted(p, k - 1) \in {0, 1}
  <2>1. k - 1 \in 0 .. 8 * B - 1 /\ at(k) = 8 * B - 1 - (k - 1) /\ k - 1 \in Nat
    BY <1>1
  <2>2. given[p] \in Seq(0 .. 15) /\ given[p] \in Seq(Nat) /\ Fits(len, given[p])
    OBVIOUS
  <2> HIDE DEF at
  <2>3. getbit(len, given[p], 8 * B - 1 - (k - 1)) <=> Bit(Value(16, given[p]), k - 1) = 1
    BY <2>1, <2>2, BitsAreStored
  <2>4. Value(16, given[p]) \in Nat
    <3>1. PICK f \in [0 .. Len(given[p]) -> Nat] : Value(16, given[p]) = f[Len(given[p])]
      BY <2>2, ValueSteps
    <3>2. Len(given[p]) \in 0 .. Len(given[p])
      BY <2>2
    <3>3. QED
      BY <3>1, <3>2
  <2>5. Bit(Value(16, given[p]), k - 1) \in {0, 1}
    <3>1. \A m \in Nat : m % 2 \in {0, 1}
      OBVIOUS
    <3>2. QED
      BY <2>1, <2>4, <3>1, HalvedSteps
  <2>6. QED
    BY <2>1, <2>3, <2>5
<1>3. bitdata_play(len, given, TRUE) = [k \in 1 .. len |-> Played(k)]
  BY DEF bitdata_play
<1>4. ASSUME NEW k \in 1 .. len PROVE Played(k) = Sent(k)
  <2>1. at(k) = pad <=> k = len
    BY <1>1
  <2> HIDE DEF at, G, wanted
  <2>2. \A p \in params : (G(p, k) <=> wanted(p, k - 1) = 1) /\ wanted(p, k - 1) \in {0, 1}
    BY <1>2
  <2>3. ASSUME NEW p, NEW mask
        PROVE  (IF p \in params /\ (mask \in params => G(mask, k)) THEN (IF G(p, k) THEN 1 ELSE 0) ELSE -1)
                  = chosen(p, mask, k - 1)
    BY <2>2
  <2>4. ("RMASK" \in params /\ G("RMASK", k)) <=> ("RMASK" \in params /\ wanted("RMASK", k - 1) = 1)
    BY <2>2
  <2> HIDE DEF chosen
  <2>5. QED
    BY <2>1, <2>3, <2>4
<1> HIDE DEF Played, Sent
<1>5. [k \in 1 .. len |-> Played(k)] = [k \in 1 .. len |-> Sent(k)]
  BY <1>4
<1>6. bitdata_play(len, given, TRUE) = [k \in 1 .. len |-> Sent(k)]
  BY <1>3, <1>5
<1>7. QED
  BY <1>6 DEF Sent, CarriesNumbers

LEMMA AllBitsAreNumbers ==
  ASSUME NEW named PROVE BitsAreNumbers(Nat \ {0}, Seq(0 .. 15), Seq(0 .. 15), named)
<1> SUFFICES ASSUME NEW len \in Nat \ {0}, NEW a \in Seq(0 .. 15), NEW b \in Seq(0 .. 15), NEW params,
                    Fits(len, a), Fits(len, b)
             PROVE  CarriesNumbers(len, params, [p \in params |-> IF p \in {"TDI", "MASK"} THEN a ELSE b])
  BY DigitsAreStored DEF BitsAreNumbers
<1> DEFINE given == [p \in params |-> IF p \in {"TDI", "MASK"} THEN a ELSE b]
<1>1. given \in [params -> Seq(0 .. 15)] /\ \A p \in params : given[p] = a \/ given[p] = b
  OBVIOUS
<1> HIDE DEF given
<1>2. \A p \in params : Fits(len, given[p])
  BY <1>1
<1>3. CarriesNumbers(len, params, given)
  BY <1>1, <1>2, PulsesAreBits
<1>4. QED
  BY <1>3 DEF given

-----------------------------------------------------------------------------
(* RUNTEST's numbers: an int that no step exceeds is not narrowed.         *)
LEMMA NarrowFits ==
  /\ IntMax \in Nat
  /\ \A n \in 0 .. IntMax : Narrow(n) = n
  /\ \A n \in Int : Narrow(n) \in Int
<1> DEFINE H == Power(2, Width - 1)
           W == Power(2, Width)
<1>1. Width - 1 \in Nat /\ (Width - 1) + 1 = Width
  BY NumbersAssumption
<1>2. H \in Nat \ {0} /\ W = 2 * H
  BY <1>1, PowerSteps
<1> HIDE DEF H, W
<1>3. IntMax = H - 1 /\ \A n : Narrow(n) = ((n + H) % W) - H
  BY DEF IntMax, Narrow, H, W
<1>4. ASSUME NEW n \in 0 .. H - 1 PROVE (n + H) % W = n + H
  <2>1. n + H \in 0 .. W - 1 /\ W \in Nat \ {0}
    BY <1>2
  <2>2. \A x \in 0 .. W - 1 : x % W = x
    BY <2>1
  <2>3. QED
    BY <2>1, <2>2
<1>5. ASSUME NEW n \in Int PROVE (n + H) % W \in Int
  BY <1>2
<1>6. QED
  BY <1>2, <1>3, <1>4, <1>5

IsReading(f, d) ==
  f = [i \in 0 .. Len(d) |-> IF i = 0 THEN 0 ELSE Narrow(f[i - 1] * 10 + d[i])]

LEMMA WholeIsValue ==
  ASSUME NEW d \in Seq(0 .. 9), NEW t, t.whole = d, Value(10, d) <= IntMax
  PROVE  Whole(t) = Value(10, d) /\ Value(10, d) \in Nat
<1> DEFINE n == Len(d)
<1>0. n \in Nat /\ d \in Seq(Nat) /\ \A i \in 1 .. n : d[i] \in 0 .. 9
  OBVIOUS
<1>1. PICK f \in [0 .. n -> Nat] :
        f[0] = 0 /\ Value(10, d) = f[n] /\ \A i \in 1 .. n : f[i] = 10 * f[i - 1] + d[i]
  BY <1>0, ValueSteps
<1>m. IntMax \in Nat /\ f[n] <= IntMax /\ f[n] \in Nat
  BY <1>0, <1>1, NarrowFits
<1> HIDE DEF n
<1>2. ASSUME NEW i \in 1 .. n PROVE f[i - 1] \in Nat /\ f[i] \in Nat /\ d[i] \in Nat /\ f[i - 1] <= f[i]
  <2>0. d[i] \in 0 .. 9
    BY <1>0
  <2>1. i - 1 \in 0 .. n /\ i \in 0 .. n /\ d[i] \in Nat
    BY <1>0, <2>0
  <2>2. f[i] = 10 * f[i - 1] + d[i] /\ f[i - 1] \in Nat /\ f[i] \in Nat
    BY <1>1, <2>1
  <2>3. QED
    BY <2>1, <2>2
<1>3. \A i \in 0 .. n : f[i] <= f[n]
  <2> DEFINE T == {k \in 0 .. n : f[n - k] <= f[n]}
  <2>1. 0 \in T
    BY <1>0, <1>m
  <2>2. ASSUME NEW k \in 0 .. n - 1, k \in T PROVE k + 1 \in T
    <3>1. n - k \in 1 .. n /\ n - (k + 1) = (n - k) - 1 /\ k + 1 \in 0 .. n
      BY <1>0
    <3>2. f[(n - k) - 1] <= f[n - k] /\ f[(n - k) - 1] \in Nat /\ f[n - k] \in Nat
      BY <1>2, <3>1
    <3>3. f[n - k] <= f[n]
      BY <2>2
    <3>4. f[n - (k + 1)] <= f[n]
      BY <1>m, <3>1, <3>2, <3>3
    <3>5. QED
      BY <3>1, <3>4
  <2> HIDE DEF T
  <2>3. 0 .. n \subseteq T
    BY <1>0, <2>1, <2>2, AlongNumbers
  <2>4. ASSUME NEW i \in 0 .. n PROVE f[i] <= f[n]
    <3>1. n - i \in 0 .. n /\ n - (n - i) = i
      BY <1>0
    <3>2. n - i \in T
      BY <2>3, <3>1
    <3>3. QED
      BY <3>1, <3>2 DEF T
  <2>5. QED
    BY <2>4
<1>4. ASSUME NEW i \in 1 .. n PROVE f[i] = Narrow(f[i - 1] * 10 + d[i])
  <2>1. f[i] = f[i - 1] * 10 + d[i]
    BY <1>1, <1>2
  <2>2. f[i] \in 0 .. IntMax
    <3>1. i \in 0 .. n
      BY <1>0
    <3>2. f[i] <= f[n] /\ f[i] \in Nat
      BY <1>2, <1>3, <3>1
    <3>3. QED
      BY <1>m, <3>2
  <2>3. QED
    BY <2>1, <2>2, NarrowFits
<1>5. f = [i \in 0 .. n |-> IF i = 0 THEN 0 ELSE Narrow(f[i - 1] * 10 + d[i])]
  <2>1. \A i \in 0 .. n : f[i] = IF i = 0 THEN 0 ELSE Narrow(f[i - 1] * 10 + d[i])
    BY <1>0, <1>1, <1>4
  <2>2. QED
    BY <1>1, <2>1
<1> DEFINE F == CHOOSE g : IsReading(g, d)
<1>6. \E g : IsReading(g, d)
  BY <1>5 DEF IsReading, n
<1>7. IsReading(F, d)
  BY <1>6
<1>8. Whole(t) = F[n]
  BY DEF Whole, IsReading, n
<1> HIDE DEF F
<1>v. F = [i \in 0 .. n |-> IF i = 0 THEN 0 ELSE Narrow(F[i - 1] * 10 + d[i])]
  BY <1>7 DEF IsReading, n
<1>9. F[n] = f[n]
  <2> DEFINE T == {k \in 0 .. n : F[k] = f[k]}
  <2>1. 0 \in T
    <3>1. F[0] = 0 /\ f[0] = 0 /\ 0 \in 0 .. n
      BY <1>0, <1>1, <1>v
    <3>2. QED
      BY <3>1
  <2>2. ASSUME NEW k \in 0 .. n - 1, k \in T PROVE k + 1 \in T
    <3>1. k + 1 \in 1 .. n /\ k + 1 \in 0 .. n /\ (k + 1) - 1 = k /\ k + 1 # 0 /\ F[k] = f[k]
      BY <1>0, <2>2
    <3>2. F[k + 1] = Narrow(F[k] * 10 + d[k + 1])
      BY <1>v, <3>1
    <3>3. f[k + 1] = Narrow(f[k] * 10 + d[k + 1])
      BY <1>4, <3>1
    <3>4. QED
      BY <3>1, <3>2, <3>3
  <2> HIDE DEF T
  <2>3. 0 .. n \subseteq T
    BY <1>0, <2>1, <2>2, AlongNumbers
  <2>4. n \in T
    BY <1>0, <2>3
  <2>5. QED
    BY <2>4 DEF T
<1>10. QED
  BY <1>1, <1>8, <1>9, <1>m

IsScaling(f, n, e) ==
  f = [i \in Nat |-> IF i = 0 THEN n
                     ELSE IF e < 0 THEN Quotient(f[i - 1], 10) ELSE Narrow(f[i - 1] * 10)]

LEMMA ScaledSteps ==
  ASSUME NEW n \in Int, NEW e \in Int
  PROVE  \E f : /\ f[0] = n /\ Scaled(n, e) = f[IF e < 0 THEN -e ELSE e]
                /\ \A k \in Nat : f[k + 1] = IF e < 0 THEN Quotient(f[k], 10) ELSE Narrow(f[k] * 10)
<1> DEFINE Value1(x) == IF e < 0 THEN Quotient(x, 10) ELSE Narrow(x * 10)
           next == [x \in Int \X Nat |-> Value1(x[1])]
           F == CHOOSE f : IsScaling(f, n, e)
<1>1. ASSUME NEW x \in Int PROVE Value1(x) \in Int
  <2>1. Quotient(x, 10) \in Int
    BY DEF Quotient
  <2>2. Narrow(x * 10) \in Int
    BY NarrowFits
  <2>3. QED
    BY <2>1, <2>2
<1> HIDE DEF Value1
<1>2. next \in [Int \X Nat -> Int] /\ \A x \in Int, k \in Nat : next[<<x, k>>] = Value1(x)
  BY <1>1
<1> HIDE DEF next
<1>s. Steps(next, Int, n)
  BY <1>2 DEF Steps
<1>p. PICK g : Iterates(g, next, Int, n)
  BY <1>s, RecursionExists
<1>3. g \in [Nat -> Int] /\ g[0] = n /\ \A k \in Nat : g[k + 1] = next[<<g[k], k + 1>>]
  BY <1>p DEF Iterates
<1>4. ASSUME NEW k \in Nat PROVE g[k + 1] = Value1(g[k])
  <2>1. g[k] \in Int /\ k + 1 \in Nat /\ g[k + 1] = next[<<g[k], k + 1>>]
    BY <1>3
  <2>2. QED
    BY <1>2, <2>1
<1>5. \A k \in Nat : g[k] = IF k = 0 THEN n ELSE Value1(g[k - 1])
  <2> SUFFICES ASSUME NEW k \in Nat, k # 0 PROVE g[k] = Value1(g[k - 1])
    BY <1>3
  <2>1. k - 1 \in Nat /\ (k - 1) + 1 = k
    OBVIOUS
  <2>2. QED
    BY <1>4, <2>1
<1>6. IsScaling(g, n, e)
  BY <1>3, <1>5 DEF IsScaling, Value1
<1>7. IsScaling(F, n, e)
  BY <1>6
<1>8. Scaled(n, e) = F[IF e < 0 THEN -e ELSE e]
  BY DEF Scaled, IsScaling
<1> HIDE DEF F
<1>9. F[0] = n /\ \A k \in Nat : F[k + 1] = Value1(F[k])
  BY <1>7 DEF IsScaling, Value1
<1>10. QED
  BY <1>8, <1>9 DEF Value1

LEMMA TenPowers ==
  Power(10, 0) = 1 /\ \A i \in Nat : Power(10, i) \in Nat \ {0} /\ Power(10, i + 1) = 10 * Power(10, i)
<1>1. 10 \in Nat \ {0}
  OBVIOUS
<1>2. QED
  BY <1>1, PowerSteps

LEMMA PowersGrow ==
  ASSUME NEW m \in Nat, NEW k \in 0 .. m
  PROVE  Power(10, k) <= Power(10, m)
<1> DEFINE P(i) == Power(10, i)
           T == {i \in 0 .. m : P(m - i) <= P(m)}
<1>1. \A i \in Nat : P(i) \in Nat \ {0} /\ P(i + 1) = 10 * P(i)
  BY TenPowers
<1> HIDE DEF P
<1>2. 0 \in T
  BY <1>1
<1>3. ASSUME NEW i \in 0 .. m - 1, i \in T PROVE i + 1 \in T
  <2>1. m - (i + 1) \in Nat /\ (m - (i + 1)) + 1 = m - i /\ i + 1 \in 0 .. m
    OBVIOUS
  <2>2. P(m - i) = 10 * P(m - (i + 1)) /\ P(m - (i + 1)) \in Nat
    BY <1>1, <2>1
  <2>3. P(m - i) <= P(m) /\ P(m) \in Nat
    BY <1>1, <1>3
  <2>4. P(m - (i + 1)) <= P(m)
    BY <2>2, <2>3
  <2>5. QED
    BY <2>1, <2>4
<1> HIDE DEF T
<1>4. 0 .. m \subseteq T
  BY <1>2, <1>3, AlongNumbers
<1>5. m - k \in T /\ m - (m - k) = k
  BY <1>4
<1>6. QED
  BY <1>5 DEF T, P

LEMMA ScaledUp ==
  ASSUME NEW n \in Nat, NEW e \in Nat, n * Power(10, e) <= IntMax
  PROVE  Scaled(n, e) = n * Power(10, e)
<1>s. PICK f : /\ f[0] = n /\ Scaled(n, e) = f[IF e < 0 THEN -e ELSE e]
               /\ \A k \in Nat : f[k + 1] = IF e < 0 THEN Quotient(f[k], 10) ELSE Narrow(f[k] * 10)
  <2>1. n \in Int /\ e \in Int
    OBVIOUS
  <2>2. QED
    BY <2>1, ScaledSteps, Zenon
<1>1. f[0] = n /\ Scaled(n, e) = f[e] /\ \A k \in Nat : f[k + 1] = Narrow(f[k] * 10)
  <2>1. ~(e < 0)
    OBVIOUS
  <2>2. QED
    BY <1>s, <2>1
<1> DEFINE P(i) == Power(10, i)
           T == {i \in 0 .. e : f[i] = n * P(i)}
<1>2. P(0) = 1 /\ \A i \in Nat : P(i) \in Nat \ {0} /\ P(i + 1) = 10 * P(i)
  BY TenPowers
<1>3. \A i \in 0 .. e : P(i) <= P(e)
  BY PowersGrow
<1>4. n * P(e) <= IntMax /\ IntMax \in Nat
  BY NarrowFits
<1> HIDE DEF P
<1>5. 0 \in T
  BY <1>1, <1>2
<1>6. ASSUME NEW i \in 0 .. e - 1, i \in T PROVE i + 1 \in T
  <2>1. i + 1 \in 0 .. e /\ f[i] = n * P(i) /\ f[i + 1] = Narrow(f[i] * 10)
    BY <1>1, <1>6
  <2>2. P(i) \in Nat /\ P(i + 1) = 10 * P(i) /\ P(i + 1) <= P(e) /\ P(i + 1) \in Nat /\ P(e) \in Nat
    BY <1>2, <1>3, <2>1
  <2>3. (n * P(i)) * 10 = n * P(i + 1)
    BY <2>2
  <2>4. n * P(i + 1) <= n * P(e) /\ n * P(i + 1) \in Nat /\ n * P(e) \in Nat
    BY <2>2
  <2>5. n * P(i + 1) \in 0 .. IntMax
    BY <1>4, <2>4
  <2>6. Narrow(n * P(i + 1)) = n * P(i + 1)
    BY <2>5, NarrowFits
  <2>7. QED
    BY <2>1, <2>3, <2>6
<1> HIDE DEF T
<1>7. 0 .. e \subseteq T
  BY <1>5, <1>6, AlongNumbers
<1>8. e \in T
  BY <1>7
<1>9. QED
  BY <1>1, <1>8 DEF T, P

LEMMA ScaledDown ==
  ASSUME NEW n \in Nat, NEW m \in Nat \ {0}
  PROVE  Scaled(n, -m) = n \div Power(10, m)
<1> DEFINE e == -m
<1>e. n \in Int /\ e \in Int /\ e < 0 /\ -e = m
  OBVIOUS
<1> HIDE DEF e
<1>s. PICK f : /\ f[0] = n /\ Scaled(n, e) = f[IF e < 0 THEN -e ELSE e]
               /\ \A k \in Nat : f[k + 1] = IF e < 0 THEN Quotient(f[k], 10) ELSE Narrow(f[k] * 10)
  BY <1>e, ScaledSteps, Zenon
<1>1. f[0] = n /\ Scaled(n, e) = f[m] /\ \A k \in Nat : f[k + 1] = Quotient(f[k], 10)
  BY <1>e, <1>s
<1> DEFINE P(i) == Power(10, i)
           T == {i \in 0 .. m : f[i] \in Nat /\ f[i] * P(i) <= n /\ n < (f[i] + 1) * P(i)}
<1>2. P(0) = 1 /\ \A i \in Nat : P(i) \in Nat \ {0} /\ P(i + 1) = 10 * P(i)
  BY TenPowers
<1> HIDE DEF P
<1>3. 0 \in T
  BY <1>1, <1>2
<1>4. ASSUME NEW i \in 0 .. m - 1, i \in T PROVE i + 1 \in T
  <2> DEFINE v == f[i]
             w == v \div 10
             p == P(i)
  <2>1. i + 1 \in 0 .. m /\ v \in Nat /\ v * p <= n /\ n < (v + 1) * p /\ p \in Nat /\ P(i + 1) = 10 * p
    BY <1>2, <1>4
  <2>2. f[i + 1] = w /\ w \in Nat /\ 10 * w <= v /\ v + 1 <= 10 * (w + 1)
    BY <1>1, <2>1 DEF Quotient
  <2> HIDE DEF v, w, p
  <2>3. \A x \in Nat, y \in Nat : x <= y => x * p <= y * p
    BY <2>1
  <2>4. (10 * w) * p <= v * p /\ (v + 1) * p <= (10 * (w + 1)) * p
    BY <2>1, <2>2, <2>3
  <2>5. (10 * w) * p = w * (10 * p) /\ (10 * (w + 1)) * p = (w + 1) * (10 * p)
    BY <2>1, <2>2
  <2>6. w * (10 * p) <= n /\ n < (w + 1) * (10 * p)
    <3> DEFINE a1 == (10 * w) * p
               a2 == v * p
               a3 == (v + 1) * p
               a4 == (10 * (w + 1)) * p
    <3>1. a1 \in Int /\ a2 \in Int /\ a3 \in Int /\ a4 \in Int
      BY <2>1, <2>2
    <3>2. a1 <= a2 /\ a3 <= a4 /\ a2 <= n /\ n < a3
      BY <2>1, <2>4
    <3> HIDE DEF a1, a2, a3, a4
    <3>3. a1 <= n /\ n < a4
      BY <3>1, <3>2
    <3>4. QED
      BY <2>5, <3>3 DEF a1, a4
  <2>7. QED
    BY <2>1, <2>2, <2>6
<1> HIDE DEF T
<1>5. 0 .. m \subseteq T
  BY <1>3, <1>4, AlongNumbers
<1>6. m \in T
  BY <1>5
<1>7. f[m] \in Nat /\ P(m) \in Nat \ {0} /\ f[m] * P(m) <= n /\ n < (f[m] + 1) * P(m)
  BY <1>2, <1>6 DEF T
<1>8. \A v \in Nat, p \in Nat \ {0} : v * p <= n /\ n < (v + 1) * p => n \div p = v
  <2> SUFFICES ASSUME NEW v \in Nat, NEW p \in Nat \ {0}, v * p <= n, n < (v + 1) * p
               PROVE  n \div p = v
    OBVIOUS
  <2> DEFINE w == n \div p
  <2>1. w \in Nat /\ w * p <= n /\ n < (w + 1) * p
    OBVIOUS
  <2> HIDE DEF w
  <2>2. ASSUME NEW x \in Nat, NEW y \in Nat, x * p <= n, n < (y + 1) * p PROVE x <= y
    <3>1. x > y => x >= y + 1
      OBVIOUS
    <3>2. x >= y + 1 => x * p >= (y + 1) * p
      OBVIOUS
    <3>3. x * p \in Int /\ (y + 1) * p \in Int
      OBVIOUS
    <3>4. QED
      BY <2>2, <3>1, <3>2, <3>3
  <2>3. w <= v /\ v <= w
    BY <2>1, <2>2
  <2>4. QED
    BY <2>1, <2>3 DEF w
<1>9. QED
  BY <1>1, <1>7, <1>8 DEF P, e

LEMMA AllDelaysAreNumbers ==
  ASSUME NEW exps, \A exp \in exps : exp = <<>> \/ exp[1] \in Int
  PROVE  DelaysAreNumbers(Seq(0 .. 9), exps)
<1>1. ASSUME NEW n \in Nat, NEW e \in Int, Floor(n, e) <= IntMax PROVE Scaled(n, e) = Floor(n, e)
  <2>1. CASE e < 0
    <3> DEFINE m == -e
    <3>1. m \in Nat \ {0} /\ e = -m
      BY <2>1
    <3> HIDE DEF m
    <3>2. Scaled(n, -m) = n \div Power(10, m)
      BY <3>1, ScaledDown
    <3>3. Floor(n, e) = n \div Power(10, -e)
      BY <2>1 DEF Floor
    <3>4. QED
      BY <3>1, <3>2, <3>3 DEF m
  <2>2. CASE ~(e < 0)
    <3>1. e \in Nat /\ Floor(n, e) = n * Power(10, e)
      BY <2>2 DEF Floor
    <3>2. QED
      BY <1>1, <3>1, ScaledUp
  <2>3. QED
    BY <2>1, <2>2
<1>2. ASSUME NEW whole \in Seq(0 .. 9), NEW fraction, NEW exp \in exps, NEW t,
             t = [whole |-> whole, fraction |-> fraction, exp |-> exp], Value(10, whole) <= IntMax
      PROVE  LET e == IF exp = <<>> THEN 0 ELSE exp[1]
                 n == Value(10, whole)
             IN  /\ Floor(n, e) <= IntMax => number(t) = Floor(n, e)
                 /\ Floor(n, e + Micro) <= IntMax => number_e6(t) = Floor(n, e + Micro)
  <2> DEFINE n == Value(10, whole)
             e == IF exp = <<>> THEN 0 ELSE exp[1]
  <2>1. t.whole = whole /\ t.exp = exp
    BY <1>2
  <2>2. Whole(t) = n /\ n \in Nat
    BY <1>2, <2>1, WholeIsValue
  <2>3. n \in 0 .. IntMax /\ Micro \in Nat
    BY <1>2, <2>2, NarrowFits, NumbersAssumption
  <2> HIDE DEF n
  <2>4. CASE exp = <<>>
    <3>1. e = 0 /\ number(t) = n /\ number_e6(t) = Narrow(n * Power(10, Micro))
      BY <2>1, <2>2, <2>4 DEF number, number_e6
    <3> HIDE DEF e
    <3>2. Floor(n, 0) = n
      <4>1. Floor(n, 0) = n * Power(10, 0)
        BY DEF Floor
      <4>2. QED
        BY <2>2, <4>1, TenPowers
    <3>3. 0 + Micro = Micro /\ Floor(n, Micro) = n * Power(10, Micro) /\ n * Power(10, Micro) \in Nat
      <4>1. ~(Micro < 0) /\ 0 + Micro = Micro
        BY <2>3
      <4>2. Power(10, Micro) \in Nat
        BY <2>3, TenPowers
      <4>3. QED
        BY <2>2, <4>1, <4>2 DEF Floor
    <3>4. n * Power(10, Micro) <= IntMax => Narrow(n * Power(10, Micro)) = n * Power(10, Micro)
      BY <3>3, NarrowFits
    <3>5. QED
      BY <3>1, <3>2, <3>3, <3>4 DEF e, n
  <2>5. CASE exp # <<>>
    <3>1. e = exp[1] /\ e \in Int /\ number(t) = Scaled(n, e) /\ number_e6(t) = Scaled(n, e + Micro)
      BY <2>1, <2>2, <2>5 DEF number, number_e6
    <3> HIDE DEF e
    <3>2. e + Micro \in Int
      BY <2>3, <3>1
    <3>3. /\ Floor(n, e) <= IntMax => number(t) = Floor(n, e)
          /\ Floor(n, e + Micro) <= IntMax => number_e6(t) = Floor(n, e + Micro)
      BY <1>1, <2>2, <3>1, <3>2
    <3>4. QED
      BY <3>3 DEF e, n
  <2>6. QED
    BY <2>4, <2>5
<1>3. QED
  BY <1>2 DEF DelaysAreNumbers

(* Every hex number of a scan of any length is what its pulses carry, and  *)
(* every delay that fits is the number given (svf.c's bitdata_parse,       *)
(* bitdata_play and RUNTEST).                                              *)
THEOREM AnyNumberIsRead ==
  ASSUME NEW named, NEW exps, \A exp \in exps : exp = <<>> \/ exp[1] \in Int
  PROVE  /\ BitsAreNumbers(Nat \ {0}, Seq(0 .. 15), Seq(0 .. 15), named)
         /\ DelaysAreNumbers(Seq(0 .. 9), exps)
BY AllBitsAreNumbers, AllDelaysAreNumbers

(* So are the numbers that the run looks at.                               *)
THEOREM NumbersAreReadAlways == Spec => []NumbersAreRead
<1>1. BitsAreNumbers(Nat \ {0}, Seq(0 .. 15), Seq(0 .. 15), Given)
  BY AllBitsAreNumbers
<1>2. BitsAreNumbers(Lens, HexNumbers, OtherNumbers, Given)
  BY <1>1, NumbersAssumption DEF BitsAreNumbers
<1>3. DelaysAreNumbers(Seq(0 .. 9), Exponents)
  BY NumbersAssumption, AllDelaysAreNumbers
<1>4. DelaysAreNumbers(Decimals, Exponents)
  BY <1>3, NumbersAssumption DEF DelaysAreNumbers
<1>5. NumbersAreRead
  BY <1>2, <1>4 DEF NumbersAreRead
<1>6. QED
  BY <1>5, PTL
=============================================================================
