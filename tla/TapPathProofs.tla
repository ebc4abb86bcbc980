--------------------------- MODULE TapPathProofs ----------------------------
(***************************************************************************)
(* Facts about the walker's table and about the wire, for the proofs about *)
(* TapWalk and the players: that the host tracks the device through every  *)
(* walk, how long walks are, and what they leave alone; and, at the end,   *)
(* the induction and the recursion over numbers that those modules need.   *)
(***************************************************************************)
EXTENDS TapPath, TLAPS, FiniteSetTheorems, SequenceTheorems, WellFoundedInduction,
        NaturalsInduction

-----------------------------------------------------------------------------
(* The walker's table and the device's.                                    *)

(* Every row of the walker's table clocks the TMS level that takes the     *)
(* device from the state of the row to the state the host then records.    *)
LEMMA StepTracksDevice ==
  ASSUME NEW t \in DevState, NEW x \in WalkTarget
  PROVE  /\ WalkStep(t, x).tms \in {0, 1}
         /\ WalkStep(t, x).to \in DevState
         /\ WalkStep(t, x).to = DeviceNext(t, WalkStep(t, x).tms)
<1> USE DEF DevState, WalkTarget, INIT, RESET, IDLE, DRSELECT, DRCAPTURE, DRSHIFT,
        DREXIT1, DRPAUSE, DREXIT2, DRUPDATE, IRSELECT, IRCAPTURE, IRSHIFT,
        IREXIT1, IRPAUSE, IREXIT2, IRUPDATE, BADSTATE
<1>1. t \in {RESET, IDLE, DRSELECT, DRCAPTURE, DRSHIFT, DREXIT1, DRPAUSE, DREXIT2,
             DRUPDATE, IRSELECT, IRCAPTURE, IRSHIFT, IREXIT1, IRPAUSE, IREXIT2, IRUPDATE}
  OBVIOUS
<1>2. CASE t = RESET
  BY <1>2 DEF WalkStep, Clock, DeviceNext, OnLow, OnHigh
<1>3. CASE t = IDLE
  BY <1>3 DEF WalkStep, Clock, DeviceNext, OnLow, OnHigh
<1>4. CASE t = DRSELECT
  BY <1>4 DEF WalkStep, Clock, DeviceNext, OnLow, OnHigh
<1>5. CASE t = DRCAPTURE
  BY <1>5 DEF WalkStep, Clock, DeviceNext, OnLow, OnHigh
<1>6. CASE t = DRSHIFT
  BY <1>6 DEF WalkStep, Clock, DeviceNext, OnLow, OnHigh
<1>7. CASE t = DREXIT1
  BY <1>7 DEF WalkStep, Clock, DeviceNext, OnLow, OnHigh
<1>8. CASE t = DRPAUSE
  BY <1>8 DEF WalkStep, Clock, DeviceNext, OnLow, OnHigh
<1>9. CASE t = DREXIT2
  BY <1>9 DEF WalkStep, Clock, DeviceNext, OnLow, OnHigh
<1>10. CASE t = DRUPDATE
  BY <1>10 DEF WalkStep, Clock, DeviceNext, OnLow, OnHigh
<1>11. CASE t = IRSELECT
  BY <1>11 DEF WalkStep, Clock, DeviceNext, OnLow, OnHigh
<1>12. CASE t = IRCAPTURE
  BY <1>12 DEF WalkStep, Clock, DeviceNext, OnLow, OnHigh
<1>13. CASE t = IRSHIFT
  BY <1>13 DEF WalkStep, Clock, DeviceNext, OnLow, OnHigh
<1>14. CASE t = IREXIT1
  BY <1>14 DEF WalkStep, Clock, DeviceNext, OnLow, OnHigh
<1>15. CASE t = IRPAUSE
  BY <1>15 DEF WalkStep, Clock, DeviceNext, OnLow, OnHigh
<1>16. CASE t = IREXIT2
  BY <1>16 DEF WalkStep, Clock, DeviceNext, OnLow, OnHigh
<1>17. CASE t = IRUPDATE
  BY <1>17 DEF WalkStep, Clock, DeviceNext, OnLow, OnHigh
<1>18. QED
  BY <1>1, <1>2, <1>3, <1>4, <1>5, <1>6, <1>7, <1>8, <1>9, <1>10, <1>11, <1>12, <1>13, <1>14, <1>15, <1>16, <1>17

(* A TCK pulse takes the device from a state to a state.                   *)
LEMMA DeviceNextType ==
  ASSUME NEW d \in DevState, NEW v \in {0, 1}
  PROVE  DeviceNext(d, v) \in DevState
BY DEF DevState, DeviceNext, OnLow, OnHigh, RESET, IDLE, DRSELECT, DRCAPTURE,
       DRSHIFT, DREXIT1, DRPAUSE, DREXIT2, DRUPDATE, IRSELECT, IRCAPTURE, IRSHIFT,
       IREXIT1, IRPAUSE, IREXIT2, IRUPDATE

(* The iterations that a walk from t to s takes, for the states that every *)
(* walk reaches: INIT and the states of the enum in a row for each target. *)
Reachable == RESET .. IRUPDATE \ {DREXIT2, IREXIT2}
StepsLeft(t, s) ==
  CASE s = RESET     -> <<1, 0, 3, 2, 5, 5, 4, 5, 4, 3, 1, 5, 5, 4, 5, 4, 3>>[t + 1]
    [] s = IDLE      -> <<2, 1, 0, 4, 3, 3, 2, 3, 2, 1, 4, 3, 3, 2, 3, 2, 1>>[t + 1]
    [] s = DRSELECT  -> <<3, 2, 1, 0, 3, 3, 2, 3, 2, 1, 4, 3, 3, 2, 3, 2, 1>>[t + 1]
    [] s = DRCAPTURE -> <<4, 3, 2, 1, 0, 4, 3, 4, 3, 2, 5, 4, 4, 3, 4, 3, 2>>[t + 1]
    [] s = DRSHIFT   -> <<5, 4, 3, 2, 1, 0, 4, 2, 1, 3, 6, 5, 5, 4, 5, 4, 3>>[t + 1]
    [] s = DREXIT1   -> <<5, 4, 3, 2, 1, 1, 0, 5, 4, 3, 6, 5, 5, 4, 5, 4, 3>>[t + 1]
    [] s = DRPAUSE   -> <<6, 5, 4, 3, 2, 2, 1, 0, 5, 4, 7, 6, 6, 5, 6, 5, 4>>[t + 1]
    [] s = DRUPDATE  -> <<6, 5, 4, 3, 2, 2, 1, 2, 1, 0, 7, 6, 6, 5, 6, 5, 4>>[t + 1]
    [] s = IRSELECT  -> <<4, 3, 2, 1, 4, 4, 3, 4, 3, 2, 0, 4, 4, 3, 4, 3, 2>>[t + 1]
    [] s = IRCAPTURE -> <<5, 4, 3, 2, 5, 5, 4, 5, 4, 3, 1, 0, 5, 4, 5, 4, 3>>[t + 1]
    [] s = IRSHIFT   -> <<6, 5, 4, 3, 6, 6, 5, 6, 5, 4, 2, 1, 0, 5, 2, 1, 4>>[t + 1]
    [] s = IREXIT1   -> <<6, 5, 4, 3, 6, 6, 5, 6, 5, 4, 2, 1, 1, 0, 6, 5, 4>>[t + 1]
    [] s = IRPAUSE   -> <<7, 6, 5, 4, 7, 7, 6, 7, 6, 5, 3, 2, 2, 1, 0, 6, 5>>[t + 1]
    [] s = IRUPDATE  -> <<7, 6, 5, 4, 7, 7, 6, 7, 6, 5, 3, 2, 2, 1, 2, 1, 0>>[t + 1]

(* Every iteration brings the walk one nearer to a target it can reach.    *)
LEMMA StepApproaches ==
  ASSUME NEW t \in DevState, NEW s \in Reachable, t # s
  PROVE  /\ StepsLeft(t, s) \in 1 .. 7
         /\ StepsLeft(WalkStep(t, s).to, s) = StepsLeft(t, s) - 1
<1> USE DEF DevState, Reachable, INIT, RESET, IDLE, DRSELECT, DRCAPTURE, DRSHIFT,
        DREXIT1, DRPAUSE, DREXIT2, DRUPDATE, IRSELECT, IRCAPTURE, IRSHIFT,
        IREXIT1, IRPAUSE, IREXIT2, IRUPDATE
<1>1. t \in {RESET, IDLE, DRSELECT, DRCAPTURE, DRSHIFT, DREXIT1, DRPAUSE, DREXIT2,
             DRUPDATE, IRSELECT, IRCAPTURE, IRSHIFT, IREXIT1, IRPAUSE, IREXIT2, IRUPDATE}
  OBVIOUS
<1>2. CASE t = RESET
  BY <1>2 DEF StepsLeft, WalkStep, Clock
<1>3. CASE t = IDLE
  BY <1>3 DEF StepsLeft, WalkStep, Clock
<1>4. CASE t = DRSELECT
  BY <1>4 DEF StepsLeft, WalkStep, Clock
<1>5. CASE t = DRCAPTURE
  BY <1>5 DEF StepsLeft, WalkStep, Clock
<1>6. CASE t = DRSHIFT
  BY <1>6 DEF StepsLeft, WalkStep, Clock
<1>7. CASE t = DREXIT1
  BY <1>7 DEF StepsLeft, WalkStep, Clock
<1>8. CASE t = DRPAUSE
  BY <1>8 DEF StepsLeft, WalkStep, Clock
<1>9. CASE t = DREXIT2
  BY <1>9 DEF StepsLeft, WalkStep, Clock
<1>10. CASE t = DRUPDATE
  BY <1>10 DEF StepsLeft, WalkStep, Clock
<1>11. CASE t = IRSELECT
  BY <1>11 DEF StepsLeft, WalkStep, Clock
<1>12. CASE t = IRCAPTURE
  BY <1>12 DEF StepsLeft, WalkStep, Clock
<1>13. CASE t = IRSHIFT
  BY <1>13 DEF StepsLeft, WalkStep, Clock
<1>14. CASE t = IREXIT1
  BY <1>14 DEF StepsLeft, WalkStep, Clock
<1>15. CASE t = IRPAUSE
  BY <1>15 DEF StepsLeft, WalkStep, Clock
<1>16. CASE t = IREXIT2
  BY <1>16 DEF StepsLeft, WalkStep, Clock
<1>17. CASE t = IRUPDATE
  BY <1>17 DEF StepsLeft, WalkStep, Clock
<1>18. QED
  BY <1>1, <1>2, <1>3, <1>4, <1>5, <1>6, <1>7, <1>8, <1>9,
     <1>10, <1>11, <1>12, <1>13, <1>14, <1>15, <1>16, <1>17

-----------------------------------------------------------------------------
(* The wires a command may be on, and those whose belief is right.         *)
Wires   == [tap : TapState, dev : DevState, seen : SUBSET DevState, shifts : Nat, rc : {0, -1}]
Tracked == {w \in Wires : w.tap # INIT => w.dev = w.tap}

LEMMA WireAtType ==
  ASSUME NEW t \in TapState, NEW d \in DevState
  PROVE  /\ WireAt(t, d) \in Wires
         /\ WireAt(t, d).tap = t /\ WireAt(t, d).dev = d /\ WireAt(t, d).rc = 0
         /\ WireAt(t, d).seen = {} /\ WireAt(t, d).shifts = 0
BY DEF WireAt, Wires

LEMMA PulseFacts ==
  ASSUME NEW w \in Wires, NEW v \in {0, 1}
  PROVE  /\ Pulse(w, v) \in Wires
         /\ Pulse(w, v).dev = DeviceNext(w.dev, v)
         /\ Pulse(w, v).seen = w.seen \union {DeviceNext(w.dev, v)}
         /\ Pulse(w, v).shifts = IF w.dev \in ShiftState THEN w.shifts + 1 ELSE w.shifts
         /\ Pulse(w, v).tap = w.tap /\ Pulse(w, v).rc = w.rc
<1>1. w.dev \in DevState /\ DeviceNext(w.dev, v) \in DevState
  BY DeviceNextType DEF Wires
<1> DEFINE d == DeviceNext(w.dev, v)
           n == IF w.dev \in ShiftState THEN w.shifts + 1 ELSE w.shifts
<1>2. Pulse(w, v) = [w EXCEPT !.dev = d, !.seen = w.seen \union {d}, !.shifts = n]
  BY DEF Pulse, Wires
<1>3. d \in DevState /\ n \in Nat /\ w.seen \union {d} \in SUBSET DevState
  BY <1>1 DEF Wires
<1> HIDE DEF d, n
<1>4. /\ Pulse(w, v) \in Wires /\ Pulse(w, v).dev = d /\ Pulse(w, v).seen = w.seen \union {d}
      /\ Pulse(w, v).shifts = n /\ Pulse(w, v).tap = w.tap /\ Pulse(w, v).rc = w.rc
  BY <1>2, <1>3 DEF Wires
<1>5. QED
  BY <1>4 DEF d, n

(* Six pulses with TMS high reset every device.                            *)
LEMMA SixHighResets ==
  ASSUME NEW w \in Wires
  PROVE  /\ SixHigh(w) \in Wires
         /\ SixHigh(w).dev = RESET
         /\ w.seen \subseteq SixHigh(w).seen
         /\ SixHigh(w).shifts >= w.shifts
         /\ SixHigh(w).tap = w.tap /\ SixHigh(w).rc = w.rc
<1> DEFINE Near(k) == CASE k = 1 -> {RESET, IRSELECT, DRSELECT, IDLE, DRUPDATE, IRUPDATE,
                                     DREXIT1, DREXIT2, IREXIT1, IREXIT2}
                        [] k = 2 -> {RESET, IRSELECT, DRSELECT, IDLE, DRUPDATE, IRUPDATE}
                        [] k = 3 -> {RESET, IRSELECT, DRSELECT}
                        [] k = 4 -> {RESET, IRSELECT}
                        [] k > 4 -> {RESET}
           Grows(x, y) == /\ y \in Wires /\ y.dev = DeviceNext(x.dev, 1)
                          /\ x.seen \subseteq y.seen /\ y.shifts >= x.shifts
                          /\ y.tap = x.tap /\ y.rc = x.rc
<1>1. ASSUME NEW x \in Wires PROVE Grows(x, Pulse(x, 1))
  BY <1>1, PulseFacts DEF Wires
<1>2. /\ \A d \in DevState : DeviceNext(d, 1) \in Near(1)
      /\ \A d \in Near(1) : DeviceNext(d, 1) \in Near(2)
      /\ \A d \in Near(2) : DeviceNext(d, 1) \in Near(3)
      /\ \A d \in Near(3) : DeviceNext(d, 1) \in Near(4)
      /\ \A d \in Near(4) : DeviceNext(d, 1) \in Near(5)
      /\ \A d \in Near(5) : DeviceNext(d, 1) \in Near(6)
      /\ Near(6) = {RESET}
  BY DEF DevState, DeviceNext, OnHigh, RESET, IDLE, DRSELECT, DRCAPTURE, DRSHIFT,
         DREXIT1, DRPAUSE, DREXIT2, DRUPDATE, IRSELECT, IRCAPTURE, IRSHIFT,
         IREXIT1, IRPAUSE, IREXIT2, IRUPDATE
<1> HIDE DEF Near
<1> DEFINE w1 == Pulse(w, 1)
           w2 == Pulse(w1, 1)
           w3 == Pulse(w2, 1)
           w4 == Pulse(w3, 1)
           w5 == Pulse(w4, 1)
           w6 == Pulse(w5, 1)
<1>3. SixHigh(w) = w6
  BY DEF SixHigh, TwoHigh
<1> HIDE DEF w1, w2, w3, w4, w5, w6
<1>4. Grows(w, w1) /\ w1.dev \in Near(1)
  BY <1>1, <1>2 DEF w1, Wires
<1>5. Grows(w1, w2) /\ w2.dev \in Near(2)
  BY <1>1, <1>2, <1>4 DEF w2
<1>6. Grows(w2, w3) /\ w3.dev \in Near(3)
  BY <1>1, <1>2, <1>5 DEF w3
<1>7. Grows(w3, w4) /\ w4.dev \in Near(4)
  BY <1>1, <1>2, <1>6 DEF w4
<1>8. Grows(w4, w5) /\ w5.dev \in Near(5)
  BY <1>1, <1>2, <1>7 DEF w5
<1>9. Grows(w5, w6) /\ w6.dev \in Near(6)
  BY <1>1, <1>2, <1>8 DEF w6
<1>10. w.shifts \in Nat /\ w1.shifts \in Nat /\ w2.shifts \in Nat /\ w3.shifts \in Nat
       /\ w4.shifts \in Nat /\ w5.shifts \in Nat /\ w6.shifts \in Nat
  BY <1>4, <1>5, <1>6, <1>7, <1>8, <1>9 DEF Wires
<1>11. QED
  BY <1>2, <1>3, <1>4, <1>5, <1>6, <1>7, <1>8, <1>9, <1>10

(* One iteration of a walk keeps the belief right, and does not leave INIT *)
(* in doubt; one that starts elsewhere is one pulse.                       *)
LEMMA SteppedTracks ==
  ASSUME NEW w \in Tracked, NEW s \in WalkTarget
  PROVE  /\ Stepped(w, s) \in Tracked
         /\ w.seen \subseteq Stepped(w, s).seen /\ Stepped(w, s).shifts >= w.shifts
         /\ Stepped(w, s).rc = w.rc
         /\ w.tap # s => Stepped(w, s).tap # INIT
         /\ w.tap = s => Stepped(w, s) = w
         /\ w.tap = INIT /\ s # INIT => Stepped(w, s).tap = RESET
         /\ w.tap \notin {INIT, s} =>
              LET d == WalkStep(w.tap, s).to
              IN  /\ Stepped(w, s).tap = d
                  /\ Stepped(w, s).seen = w.seen \union {d}
                  /\ Stepped(w, s).shifts = IF w.tap \in ShiftState THEN w.shifts + 1 ELSE w.shifts
<1> USE DEF Tracked
<1>0. /\ INIT \notin DevState /\ RESET \in DevState /\ TapState = DevState \union {INIT}
      /\ RESET # INIT
  BY DEF DevState, TapState, INIT, RESET, IRUPDATE
<1>1. CASE w.tap = s
  BY <1>1 DEF Stepped, Wires
<1>2. CASE w.tap # s /\ w.tap = INIT
  <2> DEFINE x == SixHigh(w)
  <2>1. x \in Wires /\ x.dev = RESET /\ w.seen \subseteq x.seen /\ x.shifts >= w.shifts /\ x.rc = w.rc
    BY SixHighResets
  <2>2. Stepped(w, s) = [x EXCEPT !.tap = RESET]
    BY <1>2 DEF Stepped
  <2> HIDE DEF x
  <2>3. QED
    BY <1>0, <1>2, <2>1, <2>2 DEF Wires
<1>3. CASE w.tap # s /\ w.tap # INIT
  <2> DEFINE v == WalkStep(w.tap, s).tms
             d == WalkStep(w.tap, s).to
             x == Pulse(w, v)
  <2>1. w.tap \in DevState /\ w.dev = w.tap
    BY <1>0, <1>3 DEF Wires
  <2>2. v \in {0, 1} /\ d \in DevState /\ d = DeviceNext(w.dev, v)
    BY <2>1, StepTracksDevice
  <2>3. Stepped(w, s) = [x EXCEPT !.tap = d]
    BY <1>3 DEF Stepped
  <2> HIDE DEF v, d
  <2>4. /\ x \in Wires /\ x.dev = d /\ x.seen = w.seen \union {d} /\ x.rc = w.rc
        /\ x.shifts = IF w.dev \in ShiftState THEN w.shifts + 1 ELSE w.shifts
    BY <2>2, PulseFacts
  <2> HIDE DEF x
  <2>5. /\ Stepped(w, s) \in Wires /\ Stepped(w, s).tap = d /\ Stepped(w, s).dev = d
        /\ Stepped(w, s).seen = x.seen /\ Stepped(w, s).shifts = x.shifts /\ Stepped(w, s).rc = x.rc
    BY <1>0, <2>2, <2>3, <2>4 DEF Wires
  <2>6. w.shifts \in Nat
    BY DEF Wires
  <2>7. QED
    BY <1>0, <1>3, <2>1, <2>2, <2>4, <2>5, <2>6 DEF d
<1>4. QED
  BY <1>1, <1>2, <1>3

-----------------------------------------------------------------------------
(* The eleven iterations in a row: the function that ElevenSteps defines   *)
(* by recursion exists, and has those values.                              *)
FiveSteps(w, s) == Stepped(Stepped(Stepped(Stepped(Stepped(w, s), s), s), s), s)

LEMMA ElevenUnrolled ==
  ASSUME NEW w, NEW s
  PROVE  ElevenSteps(w, s) = Stepped(FiveSteps(FiveSteps(w, s), s), s)
<1> DEFINE IsRun(x) == x = [i \in 0 .. 11 |-> IF i = 0 THEN w ELSE Stepped(x[i - 1], s)]
           run == CHOOSE x : IsRun(x)
           x1 == Stepped(w, s)
           x2 == Stepped(x1, s)
           x3 == Stepped(x2, s)
           x4 == Stepped(x3, s)
           x5 == Stepped(x4, s)
           x6 == Stepped(x5, s)
           x7 == Stepped(x6, s)
           x8 == Stepped(x7, s)
           x9 == Stepped(x8, s)
           x10 == Stepped(x9, s)
           x11 == Stepped(x10, s)
           row == <<x1, x2, x3, x4, x5, x6, x7, x8, x9, x10, x11>>
           f == [i \in 0 .. 11 |-> IF i = 0 THEN w ELSE row[i]]
<1>0. FiveSteps(w, s) = x5 /\ FiveSteps(x5, s) = x10
  BY DEF FiveSteps
<1>1. ElevenSteps(w, s) = run[11]
  BY DEF ElevenSteps
<1> HIDE DEF x1, x2, x3, x4, x5, x6, x7, x8, x9, x10, x11
<1>2. ASSUME NEW i \in 1 .. 11 PROVE row[i] = Stepped(f[i - 1], s)
  <2>1. f[0] = w /\ (i # 1 => f[i - 1] = row[i - 1])
    OBVIOUS
  <2>2. i \in {1, 2, 3, 4, 5, 6, 7, 8, 9, 10, 11}
    OBVIOUS
  <2>3. QED
    BY <2>1, <2>2 DEF x1, x2, x3, x4, x5, x6, x7, x8, x9, x10, x11
<1>3. IsRun(f)
  BY <1>2
<1>4. IsRun(run)
  BY <1>3
<1> HIDE DEF run
<1>5. run[0] = w /\ \A i \in 1 .. 11 : run[i] = Stepped(run[i - 1], s)
  BY <1>4
<1> HIDE DEF IsRun, f, row
<1>6. run[1] = x1
  BY <1>5 DEF x1
<1>7. run[2] = x2
  BY <1>5, <1>6 DEF x2
<1>8. run[3] = x3
  BY <1>5, <1>7 DEF x3
<1>9. run[4] = x4
  BY <1>5, <1>8 DEF x4
<1>10. run[5] = x5
  BY <1>5, <1>9 DEF x5
<1>11. run[6] = x6
  BY <1>5, <1>10 DEF x6
<1>12. run[7] = x7
  BY <1>5, <1>11 DEF x7
<1>13. run[8] = x8
  BY <1>5, <1>12 DEF x8
<1>14. run[9] = x9
  BY <1>5, <1>13 DEF x9
<1>15. run[10] = x10
  BY <1>5, <1>14 DEF x10
<1>16. run[11] = x11
  BY <1>5, <1>15 DEF x11
<1>17. QED
  BY <1>0, <1>1, <1>16 DEF x11

(* What every iteration keeps, a walk keeps: stated for a set of wires W.  *)
LEMMA ElevenStay ==
  ASSUME NEW W, NEW s, NEW w \in W, \A x \in W : Stepped(x, s) \in W
  PROVE  ElevenSteps(w, s) \in W
<1>1. ASSUME NEW x \in W PROVE FiveSteps(x, s) \in W
  <2> DEFINE x1 == Stepped(x, s)
             x2 == Stepped(x1, s)
             x3 == Stepped(x2, s)
             x4 == Stepped(x3, s)
             x5 == Stepped(x4, s)
  <2>1. FiveSteps(x, s) = x5
    BY DEF FiveSteps
  <2> HIDE DEF x1, x2, x3, x4, x5
  <2>2. x1 \in W
    BY DEF x1
  <2>3. x2 \in W
    BY <2>2 DEF x2
  <2>4. x3 \in W
    BY <2>3 DEF x3
  <2>5. x4 \in W
    BY <2>4 DEF x4
  <2>6. QED
    BY <2>1, <2>5 DEF x5
<1> DEFINE y == FiveSteps(w, s)
           z == FiveSteps(y, s)
<1>2. ElevenSteps(w, s) = Stepped(z, s)
  BY ElevenUnrolled
<1> HIDE DEF y, z
<1>3. y \in W
  BY <1>1 DEF y
<1>4. z \in W
  BY <1>1, <1>3 DEF z
<1>5. QED
  BY <1>2, <1>4

(* A walk is eleven iterations; a twelfth one fails it.                    *)
LEMMA WalkStays ==
  ASSUME NEW W \in SUBSET Wires, NEW s \in WalkTarget, NEW w \in W,
         \A x \in W : Stepped(x, s) \in W,
         \A x \in W : [x EXCEPT !.rc = -1] \in W
  PROVE  /\ WalkTo(w, s) \in W
         /\ w.rc < 0 => WalkTo(w, s) = w
         /\ WalkTo(w, s).rc = 0 => w.rc = 0 /\ WalkTo(w, s).tap = s
<1> DEFINE x == ElevenSteps(w, s)
           y == Stepped(x, s)
<1>1. x \in W /\ y \in W
  BY ElevenStay
<1>2. CASE w.rc < 0
  BY <1>2 DEF WalkTo
<1>3. CASE ~(w.rc < 0)
  <2>1. WalkTo(w, s) = IF x.tap = s THEN x ELSE [y EXCEPT !.rc = -1]
    BY <1>3 DEF WalkTo
  <2>2. w.rc = 0
    BY <1>3 DEF Wires
  <2> HIDE DEF x, y
  <2>3. [y EXCEPT !.rc = -1].rc = -1
    BY <1>1 DEF Wires
  <2>4. QED
    BY <1>1, <1>3, <2>1, <2>2, <2>3
<1>4. QED
  BY <1>2, <1>3

(* A walk has a result and leaves believed states behind, whatever the     *)
(* belief was.                                                             *)
LEMMA WalkTypes ==
  ASSUME NEW w \in Wires, NEW s \in WalkTarget
  PROVE  /\ WalkTo(w, s) \in Wires
         /\ w.rc < 0 => WalkTo(w, s) = w
         /\ WalkTo(w, s).rc = 0 => w.rc = 0 /\ WalkTo(w, s).tap = s
<1>1. ASSUME NEW x \in Wires PROVE Stepped(x, s) \in Wires
  <2>1. CASE x.tap = s
    BY <2>1 DEF Stepped
  <2>2. CASE x.tap # s /\ x.tap = INIT
    BY <2>2, SixHighResets DEF Stepped, Wires, TapState, INIT, RESET, IRUPDATE
  <2>3. CASE x.tap # s /\ x.tap # INIT
    <3> DEFINE v == WalkStep(x.tap, s).tms
               d == WalkStep(x.tap, s).to
    <3>1. x.tap \in DevState
      BY <2>3 DEF Wires, TapState, DevState, INIT, RESET, IRUPDATE
    <3>2. v \in {0, 1} /\ d \in TapState
      BY <3>1, StepTracksDevice DEF TapState, DevState, INIT, RESET
    <3>3. Stepped(x, s) = [Pulse(x, v) EXCEPT !.tap = d]
      BY <2>3 DEF Stepped
    <3> HIDE DEF v, d
    <3>4. QED
      BY <3>2, <3>3, PulseFacts DEF Wires
  <2>4. QED
    BY <2>1, <2>2, <2>3
<1>2. ASSUME NEW x \in Wires PROVE [x EXCEPT !.rc = -1] \in Wires
  BY DEF Wires
<1>3. QED
  BY <1>1, <1>2, WalkStays

LEMMA FailedIsTracked ==
  ASSUME NEW w \in Tracked
  PROVE  LET x == [w EXCEPT !.rc = -1]
         IN  /\ x \in Tracked /\ x.tap = w.tap /\ x.dev = w.dev /\ x.seen = w.seen
             /\ x.shifts = w.shifts /\ x.rc = -1
BY DEF Tracked, Wires

(* A walk keeps the belief right and adds to what has been seen; without   *)
(* an error it is where it was asked to go, and it stays there when it is  *)
(* there already.                                                          *)
LEMMA WalkTracks ==
  ASSUME NEW w \in Tracked, NEW s \in WalkTarget
  PROVE  /\ WalkTo(w, s) \in Tracked
         /\ w.seen \subseteq WalkTo(w, s).seen /\ WalkTo(w, s).shifts >= w.shifts
         /\ w.rc < 0 => WalkTo(w, s) = w
         /\ WalkTo(w, s).rc = 0 => w.rc = 0 /\ WalkTo(w, s).tap = s
         /\ w.tap # INIT => WalkTo(w, s).tap # INIT
<1> DEFINE W == {x \in Tracked : /\ w.seen \subseteq x.seen /\ x.shifts >= w.shifts
                                 /\ w.tap # INIT => x.tap # INIT}
<1>1. ASSUME NEW x \in W PROVE Stepped(x, s) \in W
  <2>1. x.shifts \in Nat /\ w.shifts \in Nat /\ Stepped(x, s).shifts \in Nat
    BY SteppedTracks DEF Tracked, Wires
  <2>2. QED
    BY <2>1, SteppedTracks
<1>2. ASSUME NEW x \in W PROVE [x EXCEPT !.rc = -1] \in W
  BY FailedIsTracked
<1>3. w \in W
  BY DEF Tracked, Wires
<1>4. W \in SUBSET Wires
  BY DEF Tracked
<1> HIDE DEF W
<1>5. WalkTo(w, s) \in W
  BY <1>1, <1>2, <1>3, <1>4, WalkStays
<1>6. /\ w.rc < 0 => WalkTo(w, s) = w
      /\ WalkTo(w, s).rc = 0 => w.rc = 0 /\ WalkTo(w, s).tap = s
  BY <1>1, <1>2, <1>3, <1>4, WalkStays
<1>7. QED
  BY <1>5, <1>6 DEF W

-----------------------------------------------------------------------------
LEMMA StepsLeftFacts ==
  ASSUME NEW t \in TapState, NEW s \in Reachable
  PROVE  /\ StepsLeft(t, s) \in 0 .. 7
         /\ StepsLeft(t, s) = 0 <=> t = s
         /\ StepsLeft(RESET, s) = StepsLeft(INIT, s) - 1
<1>1. s \in DevState /\ s \in {RESET, IDLE, DRSELECT, DRCAPTURE, DRSHIFT, DREXIT1, DRPAUSE,
             DRUPDATE, IRSELECT, IRCAPTURE, IRSHIFT, IREXIT1, IRPAUSE, IRUPDATE}
  BY DEF DevState, Reachable, RESET, IDLE, DRSELECT, DRCAPTURE, DRSHIFT,
        DREXIT1, DRPAUSE, DREXIT2, DRUPDATE, IRSELECT, IRCAPTURE, IRSHIFT,
        IREXIT1, IRPAUSE, IREXIT2, IRUPDATE
<1>2. t \in DevState \union {INIT} /\ INIT \notin DevState
  BY DEF DevState, TapState, INIT, RESET, IRUPDATE
<1>3. StepsLeft(s, s) = 0 /\ StepsLeft(RESET, s) = StepsLeft(INIT, s) - 1 /\ StepsLeft(INIT, s) \in 1 .. 7
  <2> USE DEF INIT, RESET, IDLE, DRSELECT, DRCAPTURE, DRSHIFT, DREXIT1, DRPAUSE, DREXIT2,
        DRUPDATE, IRSELECT, IRCAPTURE, IRSHIFT, IREXIT1, IRPAUSE, IREXIT2, IRUPDATE
  <2>1. CASE s = RESET
    BY <2>1 DEF StepsLeft
  <2>2. CASE s = IDLE
    BY <2>2 DEF StepsLeft
  <2>3. CASE s = DRSELECT
    BY <2>3 DEF StepsLeft
  <2>4. CASE s = DRCAPTURE
    BY <2>4 DEF StepsLeft
  <2>5. CASE s = DRSHIFT
    BY <2>5 DEF StepsLeft
  <2>6. CASE s = DREXIT1
    BY <2>6 DEF StepsLeft
  <2>7. CASE s = DRPAUSE
    BY <2>7 DEF StepsLeft
  <2>8. CASE s = DRUPDATE
    BY <2>8 DEF StepsLeft
  <2>9. CASE s = IRSELECT
    BY <2>9 DEF StepsLeft
  <2>10. CASE s = IRCAPTURE
    BY <2>10 DEF StepsLeft
  <2>11. CASE s = IRSHIFT
    BY <2>11 DEF StepsLeft
  <2>12. CASE s = IREXIT1
    BY <2>12 DEF StepsLeft
  <2>13. CASE s = IRPAUSE
    BY <2>13 DEF StepsLeft
  <2>14. CASE s = IRUPDATE
    BY <2>14 DEF StepsLeft
  <2>15. QED
    BY <1>1, <2>1, <2>2, <2>3, <2>4, <2>5, <2>6, <2>7, <2>8, <2>9, <2>10, <2>11, <2>12, <2>13, <2>14
<1>4. t \in DevState /\ t # s => StepsLeft(t, s) \in 1 .. 7
  BY StepApproaches
<1>5. QED
  BY <1>1, <1>2, <1>3, <1>4

(* A walk to any state but the two Exit2 states succeeds: from wherever    *)
(* the host is, within seven of the eleven iterations.                     *)
LEMMA WalkArrives ==
  ASSUME NEW w \in Tracked, w.rc = 0, NEW s \in Reachable
  PROVE  WalkTo(w, s).rc = 0 /\ WalkTo(w, s).tap = s
<1> DEFINE Left(x) == StepsLeft(x.tap, s)
           Nearer(x, y) == /\ y \in Tracked /\ y.rc = 0
                           /\ Left(y) = IF Left(x) = 0 THEN 0 ELSE Left(x) - 1
<1>0. s \in WalkTarget /\ s # INIT /\ TapState = DevState \union {INIT}
  BY DEF Reachable, DevState, TapState, WalkTarget, INIT, RESET, IRUPDATE, BADSTATE
<1>1. ASSUME NEW x \in Tracked PROVE x.tap \in TapState /\ Left(x) \in 0 .. 7 /\ (Left(x) = 0 <=> x.tap = s)
  BY StepsLeftFacts DEF Tracked, Wires
<1>2. ASSUME NEW x \in Tracked, x.rc = 0 PROVE Nearer(x, Stepped(x, s))
  <2>1. Stepped(x, s) \in Tracked /\ Stepped(x, s).rc = 0
    BY <1>0, <1>2, SteppedTracks
  <2>2. CASE x.tap = s
    BY <1>0, <1>1, <1>2, <2>1, <2>2, SteppedTracks
  <2>3. CASE x.tap # s /\ x.tap = INIT
    BY <1>0, <1>1, <1>2, <2>1, <2>3, SteppedTracks, StepsLeftFacts
  <2>4. CASE x.tap # s /\ x.tap # INIT
    <3>1. x.tap \in DevState
      BY <1>0, <1>1, <2>4
    <3>2. Stepped(x, s).tap = WalkStep(x.tap, s).to
      BY <1>0, <2>4, SteppedTracks
    <3>3. StepsLeft(WalkStep(x.tap, s).to, s) = StepsLeft(x.tap, s) - 1
      BY <2>4, <3>1, StepApproaches
    <3>4. QED
      BY <1>1, <2>1, <2>4, <3>2, <3>3
  <2>5. QED
    BY <2>2, <2>3, <2>4
<1> HIDE DEF Left
<1>3. ASSUME NEW x \in Tracked, x.rc = 0
      PROVE  /\ FiveSteps(x, s) \in Tracked /\ FiveSteps(x, s).rc = 0
             /\ Left(FiveSteps(x, s)) = IF Left(x) <= 5 THEN 0 ELSE Left(x) - 5
  <2> DEFINE x1 == Stepped(x, s)
             x2 == Stepped(x1, s)
             x3 == Stepped(x2, s)
             x4 == Stepped(x3, s)
             x5 == Stepped(x4, s)
  <2>1. FiveSteps(x, s) = x5
    BY DEF FiveSteps
  <2> HIDE DEF x1, x2, x3, x4, x5
  <2>2. Nearer(x, x1)
    BY <1>2, <1>3 DEF x1
  <2>3. Nearer(x1, x2)
    BY <1>2, <2>2 DEF x2
  <2>4. Nearer(x2, x3)
    BY <1>2, <2>3 DEF x3
  <2>5. Nearer(x3, x4)
    BY <1>2, <2>4 DEF x4
  <2>6. Nearer(x4, x5)
    BY <1>2, <2>5 DEF x5
  <2>7. Left(x) \in 0 .. 7
    BY <1>1
  <2>8. QED
    BY <2>1, <2>2, <2>3, <2>4, <2>5, <2>6, <2>7
<1> DEFINE y == FiveSteps(w, s)
           z == FiveSteps(y, s)
           a == Stepped(z, s)
<1>4. y \in Tracked /\ y.rc = 0 /\ Left(y) \in 0 .. 2
  BY <1>1, <1>3
<1>5. z \in Tracked /\ z.rc = 0 /\ Left(z) = 0
  BY <1>1, <1>3, <1>4
<1>6. a \in Tracked /\ a.rc = 0 /\ Left(a) = 0
  BY <1>2, <1>5
<1>7. a.tap = s
  BY <1>1, <1>6
<1>8. WalkTo(w, s) = a
  BY <1>7, ElevenUnrolled DEF WalkTo
<1>9. QED
  BY <1>6, <1>7, <1>8

(* A walk shifts no register, unless it begins in a shift state or in an   *)
(* unknown one: no way between other states leads through Shift.           *)
LEMMA ShiftIsATarget ==
  ASSUME NEW t \in DevState, NEW s \in WalkTarget, WalkStep(t, s).to \in ShiftState
  PROVE  WalkStep(t, s).to = s
BY DEF DevState, WalkTarget, ShiftState, WalkStep, Clock, INIT, RESET, IDLE, DRSELECT,
       DRCAPTURE, DRSHIFT, DREXIT1, DRPAUSE, DREXIT2, DRUPDATE, IRSELECT, IRCAPTURE,
       IRSHIFT, IREXIT1, IRPAUSE, IREXIT2, IRUPDATE, BADSTATE

LEMMA WalkShiftsNothing ==
  ASSUME NEW w \in Tracked, NEW s \in WalkTarget, w.tap # INIT, w.tap \notin ShiftState \/ w.tap = s
  PROVE  /\ WalkTo(w, s).shifts = w.shifts
         /\ WalkTo(w, s).tap \notin ShiftState \/ WalkTo(w, s).tap = s
<1> DEFINE W == {x \in Tracked : /\ x.tap # INIT /\ x.shifts = w.shifts
                                 /\ x.tap \notin ShiftState \/ x.tap = s}
<1>1. ASSUME NEW x \in W PROVE Stepped(x, s) \in W
  <2>1. CASE x.tap = s
    BY <2>1, SteppedTracks
  <2>2. CASE x.tap # s
    <3>1. x.tap \in DevState
      BY DEF Tracked, Wires, TapState, DevState, INIT, RESET
    <3>2. QED
      BY <2>2, <3>1, SteppedTracks, ShiftIsATarget
  <2>3. QED
    BY <2>1, <2>2
<1>2. ASSUME NEW x \in W PROVE [x EXCEPT !.rc = -1] \in W
  BY FailedIsTracked
<1>3. w \in W /\ W \in SUBSET Wires
  BY DEF Tracked
<1> HIDE DEF W
<1>4. WalkTo(w, s) \in W
  BY <1>1, <1>2, <1>3, WalkStays
<1>5. QED
  BY <1>4 DEF W

(* A walk within the data register's column, or within the instruction     *)
(* register's, does not touch the other register.                          *)
DrColumn == RESET .. DRUPDATE
IrColumn == {RESET, IDLE} \union (IRSELECT .. IRUPDATE)

LEMMA DrStep ==
  ASSUME NEW t \in DrColumn \union {IRSELECT}, NEW s \in DrColumn, t = IRSELECT => s = RESET
  PROVE  /\ WalkStep(t, s).to \in DrColumn \union {IRSELECT}
         /\ WalkStep(t, s).to = IRSELECT => s = RESET
BY DEF DrColumn, WalkStep, Clock, RESET, IDLE, DRSELECT, DRCAPTURE, DRSHIFT, DREXIT1, DRPAUSE, DREXIT2, DRUPDATE,
         IRSELECT, IRCAPTURE, IRSHIFT, IREXIT1, IRPAUSE, IREXIT2, IRUPDATE

LEMMA IrStep ==
  ASSUME NEW t \in IrColumn \union {DRSELECT}, NEW s \in IrColumn, t = DRSELECT => s # IDLE, t # s
  PROVE  /\ WalkStep(t, s).to \in IrColumn \union {DRSELECT}
         /\ WalkStep(t, s).to = DRSELECT => s # IDLE
BY DEF IrColumn, WalkStep, Clock, RESET, IDLE, DRSELECT, DRCAPTURE, DRSHIFT, DREXIT1, DRPAUSE, DREXIT2, DRUPDATE,
         IRSELECT, IRCAPTURE, IRSHIFT, IREXIT1, IRPAUSE, IREXIT2, IRUPDATE

LEMMA ColumnsAreStates ==
  /\ DrColumn \union {IRSELECT} \subseteq DevState /\ IrColumn \union {DRSELECT} \subseteq DevState
  /\ DevState \subseteq WalkTarget /\ INIT \notin DevState
BY DEF DrColumn, IrColumn, DevState, WalkTarget, INIT, BADSTATE, RESET, IDLE, DRSELECT, DRCAPTURE, DRSHIFT, DREXIT1, DRPAUSE, DREXIT2, DRUPDATE,
         IRSELECT, IRCAPTURE, IRSHIFT, IREXIT1, IRPAUSE, IREXIT2, IRUPDATE

LEMMA WalkKeepsIr ==
  ASSUME NEW w \in Tracked, NEW s \in DrColumn, w.tap \in DrColumn
  PROVE  WalkTo(w, s).seen \subseteq w.seen \union DrColumn \union {IRSELECT}
<1> DEFINE W == {x \in Tracked : /\ x.tap \in DrColumn \union {IRSELECT}
                                 /\ x.tap = IRSELECT => s = RESET
                                 /\ x.seen \subseteq w.seen \union DrColumn \union {IRSELECT}}
<1>0. s \in WalkTarget
  BY ColumnsAreStates
<1>1. ASSUME NEW x \in W PROVE Stepped(x, s) \in W
  <2>1. CASE x.tap = s
    BY <1>0, <2>1, SteppedTracks
  <2>2. CASE x.tap # s
    <3> DEFINE d == WalkStep(x.tap, s).to
    <3>1. x.tap # INIT
      BY ColumnsAreStates
    <3>2. d \in DrColumn \union {IRSELECT} /\ (d = IRSELECT => s = RESET)
      BY <2>2, DrStep
    <3>3. /\ Stepped(x, s) \in Tracked /\ Stepped(x, s).tap = d
          /\ Stepped(x, s).seen = x.seen \union {d}
      BY <1>0, <2>2, <3>1, SteppedTracks
    <3> HIDE DEF d
    <3>4. QED
      BY <3>2, <3>3
  <2>3. QED
    BY <2>1, <2>2
<1>2. ASSUME NEW x \in W PROVE [x EXCEPT !.rc = -1] \in W
  BY FailedIsTracked
<1>3. w \in W /\ W \in SUBSET Wires
  BY DEF Tracked, DrColumn, DRUPDATE, IRSELECT
<1> HIDE DEF W
<1>4. WalkTo(w, s) \in W
  BY <1>0, <1>1, <1>2, <1>3, WalkStays
<1>5. QED
  BY <1>4 DEF W

LEMMA WalkKeepsDr ==
  ASSUME NEW w \in Tracked, NEW s \in IrColumn, w.tap \in IrColumn
  PROVE  WalkTo(w, s).seen \subseteq w.seen \union IrColumn \union {DRSELECT}
<1> DEFINE W == {x \in Tracked : /\ x.tap \in IrColumn \union {DRSELECT}
                                 /\ x.tap = DRSELECT => s # IDLE
                                 /\ x.seen \subseteq w.seen \union IrColumn \union {DRSELECT}}
<1>0. s \in WalkTarget
  BY ColumnsAreStates
<1>1. ASSUME NEW x \in W PROVE Stepped(x, s) \in W
  <2>1. CASE x.tap = s
    BY <1>0, <2>1, SteppedTracks
  <2>2. CASE x.tap # s
    <3> DEFINE d == WalkStep(x.tap, s).to
    <3>1. x.tap # INIT
      BY ColumnsAreStates
    <3>2. d \in IrColumn \union {DRSELECT} /\ (d = DRSELECT => s # IDLE)
      BY <2>2, IrStep
    <3>3. /\ Stepped(x, s) \in Tracked /\ Stepped(x, s).tap = d
          /\ Stepped(x, s).seen = x.seen \union {d}
      BY <1>0, <2>2, <3>1, SteppedTracks
    <3> HIDE DEF d
    <3>4. QED
      BY <3>2, <3>3
  <2>3. QED
    BY <2>1, <2>2
<1>2. ASSUME NEW x \in W PROVE [x EXCEPT !.rc = -1] \in W
  BY FailedIsTracked
<1>3. w \in W /\ W \in SUBSET Wires
  BY DEF Tracked, IrColumn, RESET, IDLE, DRSELECT, DRCAPTURE, DRSHIFT, DREXIT1, DRPAUSE, DREXIT2, DRUPDATE,
         IRSELECT, IRCAPTURE, IRSHIFT, IREXIT1, IRPAUSE, IREXIT2, IRUPDATE
<1> HIDE DEF W
<1>4. WalkTo(w, s) \in W
  BY <1>0, <1>1, <1>2, <1>3, WalkStays
<1>5. QED
  BY <1>4 DEF W

(* A walk from Run-Test/Idle into a shift state captures a register.       *)
LEMMA WalkCaptures ==
  ASSUME NEW w \in Tracked, w.rc = 0, w.tap = IDLE, NEW s \in ShiftState
  PROVE  WalkTo(w, s).seen \intersect {DRCAPTURE, IRCAPTURE} # {}
<1> DEFINE W == {x \in Tracked : \/ x.tap \in {IDLE, DRSELECT, IRSELECT}
                                 \/ x.seen \intersect {DRCAPTURE, IRCAPTURE} # {}}
<1>0. /\ s \in WalkTarget /\ s \in Reachable /\ s \notin {INIT, RESET, IDLE, DRSELECT, IRSELECT}
      /\ INIT \notin {IDLE, DRSELECT, IRSELECT}
  BY DEF ShiftState, Reachable, WalkTarget, BADSTATE, INIT, RESET, IDLE, DRSELECT, DRCAPTURE, DRSHIFT, DREXIT1, DRPAUSE, DREXIT2, DRUPDATE,
         IRSELECT, IRCAPTURE, IRSHIFT, IREXIT1, IRPAUSE, IREXIT2, IRUPDATE
<1>1. ASSUME NEW x \in W PROVE Stepped(x, s) \in W
  <2>1. CASE x.tap \in {IDLE, DRSELECT, IRSELECT}
    <3>1. WalkStep(x.tap, s).to \in {DRSELECT, IRSELECT, DRCAPTURE, IRCAPTURE}
      BY <1>0, <2>1 DEF WalkStep, Clock, RESET, IDLE, DRSELECT, DRCAPTURE, DRSHIFT, DREXIT1, DRPAUSE, DREXIT2, DRUPDATE,
         IRSELECT, IRCAPTURE, IRSHIFT, IREXIT1, IRPAUSE, IREXIT2, IRUPDATE
    <3>2. QED
      BY <1>0, <2>1, <3>1, SteppedTracks
  <2>2. CASE x.seen \intersect {DRCAPTURE, IRCAPTURE} # {}
    BY <1>0, <2>2, SteppedTracks
  <2>3. QED
    BY <2>1, <2>2
<1>2. ASSUME NEW x \in W PROVE [x EXCEPT !.rc = -1] \in W
  BY FailedIsTracked
<1>3. w \in W /\ W \in SUBSET Wires
  BY DEF Tracked
<1> HIDE DEF W
<1>4. WalkTo(w, s) \in W
  BY <1>0, <1>1, <1>2, <1>3, WalkStays
<1>5. WalkTo(w, s).tap = s
  BY <1>0, WalkArrives
<1>6. QED
  BY <1>0, <1>4, <1>5 DEF W

-----------------------------------------------------------------------------
(* Pulses with TMS low: they do not move a device that rests there.        *)
LEMMA LowType ==
  ASSUME NEW d \in DevState, NEW k \in Nat
  PROVE  Low(d, k) \in DevState /\ (OnLow(d) = d => Low(d, k) = d)
<1>1. \A x \in DevState : OnLow(x) \in DevState
  BY DEF DevState, OnLow, RESET, IDLE, DRSELECT, DRCAPTURE, DRSHIFT, DREXIT1, DRPAUSE, DREXIT2, DRUPDATE,
         IRSELECT, IRCAPTURE, IRSHIFT, IREXIT1, IRPAUSE, IREXIT2, IRUPDATE
<1>2. QED
  BY <1>1 DEF Low

LEMMA RestsOnLow == \A d \in ShiftState \union {IDLE, DRPAUSE, IRPAUSE} : OnLow(d) = d
BY DEF ShiftState, OnLow, RESET, IDLE, DRSELECT, DRCAPTURE, DRSHIFT, DREXIT1, DRPAUSE, DREXIT2, DRUPDATE,
       IRSELECT, IRCAPTURE, IRSHIFT, IREXIT1, IRPAUSE, IREXIT2, IRUPDATE

LEMMA LowsFacts ==
  ASSUME NEW w \in Wires, NEW n \in Nat
  PROVE  /\ Lows(w, n) \in Wires
         /\ w.seen \subseteq Lows(w, n).seen /\ Lows(w, n).shifts >= w.shifts
         /\ Lows(w, n).tap = w.tap /\ Lows(w, n).rc = w.rc
         /\ w.rc < 0 => Lows(w, n) = w
         /\ OnLow(w.dev) = w.dev =>
              /\ Lows(w, n).dev = w.dev
              /\ Lows(w, n).seen \subseteq w.seen \union {w.dev}
              /\ w.dev \notin ShiftState => Lows(w, n).shifts = w.shifts
              /\ w.dev \in ShiftState /\ w.rc = 0 => Lows(w, n).shifts = w.shifts + n
<1> DEFINE K == {k \in 0 .. n - 1 : Low(w.dev, k) \in ShiftState}
           S == {Low(w.dev, k) : k \in 1 .. n}
           d == Low(w.dev, n)
<1>1. CASE w.rc < 0
  BY <1>1 DEF Lows, Wires
<1>2. CASE ~(w.rc < 0)
  <2>1. Lows(w, n) = [w EXCEPT !.dev = d, !.seen = w.seen \union S, !.shifts = w.shifts + Cardinality(K)]
    BY <1>2 DEF Lows, Wires
  <2>2. w.dev \in DevState /\ d \in DevState /\ S \subseteq DevState /\ w.shifts \in Nat
    BY LowType DEF Wires
  <2>3. IsFiniteSet(0 .. n - 1) /\ Cardinality(0 .. n - 1) = n
    BY FS_Interval
  <2>4. Cardinality(K) \in Nat
    BY <2>3, FS_Subset, FS_CardinalityType
  <2>5. ASSUME OnLow(w.dev) = w.dev
        PROVE  /\ d = w.dev /\ S \subseteq {w.dev}
               /\ w.dev \notin ShiftState => Cardinality(K) = 0
               /\ w.dev \in ShiftState => Cardinality(K) = n
    <3>1. \A k \in Nat : Low(w.dev, k) = w.dev
      BY <2>2, <2>5, LowType
    <3>2. w.dev \notin ShiftState => K = {}
      BY <3>1
    <3>3. w.dev \in ShiftState => K = 0 .. n - 1
      BY <3>1
    <3>4. d = w.dev /\ S \subseteq {w.dev}
      BY <3>1
    <3>5. Cardinality({}) = 0
      BY FS_EmptySet
    <3>6. QED
      BY <2>3, <3>2, <3>3, <3>4, <3>5
  <2> DEFINE c == Cardinality(K)
  <2> HIDE DEF d, S, K
  <2>6. c \in Nat
    BY <2>4
  <2> DEFINE u == w.seen \union S
             m == w.shifts + c
  <2> HIDE DEF c
  <2>7. u \in SUBSET DevState /\ m \in Nat
    BY <2>2, <2>6 DEF Wires
  <2>8. Lows(w, n) = [w EXCEPT !.dev = d, !.seen = u, !.shifts = m]
    BY <2>1 DEF c
  <2> HIDE DEF u, m
  <2>9. /\ Lows(w, n) \in Wires /\ Lows(w, n).dev = d /\ Lows(w, n).seen = u
        /\ Lows(w, n).shifts = m /\ Lows(w, n).tap = w.tap /\ Lows(w, n).rc = w.rc
    BY <2>2, <2>8, <2>7 DEF Wires
  <2>10. w.dev \notin ShiftState /\ OnLow(w.dev) = w.dev => c = 0
    BY <2>5 DEF c
  <2>11. w.dev \in ShiftState /\ OnLow(w.dev) = w.dev => c = n
    BY <2>5 DEF c
  <2>12. QED
    BY <1>2, <2>2, <2>5, <2>6, <2>9, <2>10, <2>11 DEF u, m
<1>3. QED
  BY <1>1, <1>2

LEMMA ShiftedType ==
  ASSUME NEW w \in Wires, NEW n \in Nat \ {0}, NEW leaves \in BOOLEAN
  PROVE  /\ Shifted(w, n, leaves) \in Wires
         /\ Shifted(w, n, leaves).tap = w.tap /\ Shifted(w, n, leaves).rc = w.rc
<1>1. CASE leaves
  <2>1. Lows(w, n - 1) \in Wires /\ Lows(w, n - 1).tap = w.tap /\ Lows(w, n - 1).rc = w.rc
    BY LowsFacts
  <2>2. QED
    BY <1>1, <2>1, PulseFacts DEF Shifted
<1>2. CASE ~leaves
  BY <1>2, LowsFacts DEF Shifted
<1>3. QED
  BY <1>1, <1>2

(* The bits of a register: one TCK edge in the shift state for each, the   *)
(* last of which leaves it or not.                                         *)
LEMMA ShiftedFacts ==
  ASSUME NEW w \in Wires, w.rc = 0, w.dev \in ShiftState, NEW n \in Nat \ {0}, NEW leaves \in BOOLEAN
  PROVE  /\ Shifted(w, n, leaves) \in Wires
         /\ Shifted(w, n, leaves).tap = w.tap /\ Shifted(w, n, leaves).rc = 0
         /\ Shifted(w, n, leaves).dev = IF leaves THEN w.dev + 1 ELSE w.dev
         /\ Shifted(w, n, leaves).shifts = w.shifts + n
         /\ w.seen \subseteq Shifted(w, n, leaves).seen
         /\ Shifted(w, n, leaves).seen \subseteq w.seen \union {w.dev, w.dev + 1}
<1>1. OnLow(w.dev) = w.dev /\ DeviceNext(w.dev, 1) = w.dev + 1
  BY DEF ShiftState, OnLow, DeviceNext, OnHigh, RESET, IDLE, DRSELECT, DRCAPTURE, DRSHIFT, DREXIT1, DRPAUSE, DREXIT2, DRUPDATE,
         IRSELECT, IRCAPTURE, IRSHIFT, IREXIT1, IRPAUSE, IREXIT2, IRUPDATE
<1>2. CASE leaves
  <2> DEFINE x == Lows(w, n - 1)
  <2>1. n - 1 \in Nat /\ w.shifts \in Nat
    BY DEF Wires
  <2>2. /\ x \in Wires /\ x.tap = w.tap /\ x.rc = 0 /\ x.dev = w.dev /\ x.shifts = w.shifts + (n - 1)
        /\ w.seen \subseteq x.seen /\ x.seen \subseteq w.seen \union {w.dev}
    BY <1>1, <2>1, LowsFacts
  <2>3. Shifted(w, n, leaves) = Pulse(x, 1)
    BY <1>2 DEF Shifted
  <2> HIDE DEF x
  <2>4. /\ Pulse(x, 1) \in Wires /\ Pulse(x, 1).dev = w.dev + 1 /\ Pulse(x, 1).tap = w.tap
        /\ Pulse(x, 1).seen = x.seen \union {w.dev + 1} /\ Pulse(x, 1).shifts = x.shifts + 1
        /\ Pulse(x, 1).rc = 0
    BY <1>1, <2>2, PulseFacts
  <2>5. x.shifts + 1 = w.shifts + n
    BY <2>1, <2>2
  <2>6. QED
    BY <1>2, <2>2, <2>3, <2>4, <2>5
<1>3. CASE ~leaves
  BY <1>1, <1>3, LowsFacts DEF Shifted
<1>4. QED
  BY <1>2, <1>3

(* Two pulses with TMS low settle the device.                              *)
LEMMA TwoLowsSettle == \A d \in DevState : OnLow(OnLow(OnLow(d))) = OnLow(OnLow(d))
<1>1. \A d \in DevState : OnLow(OnLow(d)) \in ShiftState \union {IDLE, DRPAUSE, IRPAUSE}
  BY DEF DevState, ShiftState, OnLow, RESET, IDLE, DRSELECT, DRCAPTURE, DRSHIFT, DREXIT1, DRPAUSE, DREXIT2,
         DRUPDATE, IRSELECT, IRCAPTURE, IRSHIFT, IREXIT1, IRPAUSE, IREXIT2, IRUPDATE
<1>2. QED
  BY <1>1, RestsOnLow

(* What n pulses with TMS low add to a record: the states seen, the edges. *)
LowSeen(d, n)  == {Low(d, k) : k \in 1 .. n}
LowShift(d, n) == {k \in 0 .. n - 1 : Low(d, k) \in ShiftState}

LEMMA LowStep ==
  ASSUME NEW d \in DevState, NEW n \in Nat
  PROVE  /\ Low(d, n) \in DevState /\ Low(d, 0) = d /\ Low(d, n + 1) = OnLow(Low(d, n))
         /\ LowSeen(d, n) \in SUBSET DevState
         /\ LowSeen(d, 0) = {} /\ LowSeen(d, n + 1) = LowSeen(d, n) \union {Low(d, n + 1)}
         /\ Cardinality(LowShift(d, n)) \in Nat /\ Cardinality(LowShift(d, 0)) = 0
         /\ Low(d, n) \in ShiftState =>
              Cardinality(LowShift(d, n + 1)) = Cardinality(LowShift(d, n)) + 1
         /\ Low(d, n) \notin ShiftState =>
              Cardinality(LowShift(d, n + 1)) = Cardinality(LowShift(d, n))
<1>1. \A k \in Nat : Low(d, k) \in DevState
  BY LowType
<1>2. Low(d, 0) = d /\ Low(d, n + 1) = OnLow(Low(d, n))
  BY TwoLowsSettle DEF Low
<1>3. LowSeen(d, n) \in SUBSET DevState
  BY <1>1 DEF LowSeen
<1>4. LowSeen(d, 0) = {} /\ LowSeen(d, n + 1) = LowSeen(d, n) \union {Low(d, n + 1)}
  <2>1. 1 .. n + 1 = (1 .. n) \union {n + 1} /\ 1 .. 0 = {}
    OBVIOUS
  <2>2. QED
    BY <2>1 DEF LowSeen
<1>5. IsFiniteSet(LowShift(d, n))
  <2>1. IsFiniteSet(0 .. n - 1)
    BY FS_Interval
  <2>2. LowShift(d, n) \subseteq 0 .. n - 1
    BY DEF LowShift
  <2>3. QED
    BY <2>1, <2>2, FS_Subset
<1>6. Cardinality(LowShift(d, n)) \in Nat
  BY <1>5, FS_CardinalityType
<1>7. Cardinality(LowShift(d, 0)) = 0
  <2>1. LowShift(d, 0) = {}
    BY DEF LowShift
  <2>2. QED
    BY <2>1, FS_EmptySet
<1>8. CASE Low(d, n) \in ShiftState
  <2>1. LowShift(d, n + 1) = LowShift(d, n) \union {n} /\ n \notin LowShift(d, n)
    BY <1>8 DEF LowShift
  <2>2. Cardinality(LowShift(d, n) \union {n}) = Cardinality(LowShift(d, n)) + 1
    BY <1>5, <2>1, FS_AddElement
  <2>3. Cardinality(LowShift(d, n + 1)) = Cardinality(LowShift(d, n)) + 1
    BY <2>1, <2>2
  <2>4. QED
    BY <1>1, <1>2, <1>3, <1>4, <1>6, <1>7, <1>8, <2>3
<1>9. CASE Low(d, n) \notin ShiftState
  <2>1. LowShift(d, n + 1) = LowShift(d, n)
    BY <1>9 DEF LowShift
  <2>2. QED
    BY <1>1, <1>2, <1>3, <1>4, <1>6, <1>7, <1>9, <2>1
<1>10. QED
  BY <1>8, <1>9

LEMMA LowsIs ==
  ASSUME NEW w \in Wires, w.rc = 0, NEW n \in Nat
  PROVE  Lows(w, n) = [w EXCEPT !.dev = Low(w.dev, n), !.seen = w.seen \union LowSeen(w.dev, n),
                                !.shifts = w.shifts + Cardinality(LowShift(w.dev, n))]
BY DEF Lows, Wires, LowSeen, LowShift

(* Clocking TMS low n + 1 times is clocking it n times and once more.      *)
LEMMA LowsAreSteps ==
  ASSUME NEW w \in Wires, w.rc = 0, NEW n \in Nat
  PROVE  /\ Lows(w, 0) = w
         /\ Lows(w, n + 1) = Pulse(Lows(w, n), 0)
<1> DEFINE c(m) == Cardinality(LowShift(w.dev, m))
           s(m) == LowSeen(w.dev, m)
<1>0. /\ w.dev \in DevState /\ w.shifts \in Nat /\ w.seen \in SUBSET DevState
      /\ 0 \in Nat /\ n + 1 \in Nat
  BY DEF Wires
<1>1. \A m \in Nat : Lows(w, m) = [w EXCEPT !.dev = Low(w.dev, m), !.seen = w.seen \union s(m),
                                            !.shifts = w.shifts + c(m)]
  BY LowsIs
<1>2. /\ s(0) = {} /\ c(0) = 0 /\ c(n) \in Nat /\ s(n) \in SUBSET DevState
      /\ s(n + 1) = s(n) \union {Low(w.dev, n + 1)}
      /\ Low(w.dev, n) \in ShiftState => c(n + 1) = c(n) + 1
      /\ Low(w.dev, n) \notin ShiftState => c(n + 1) = c(n)
  BY <1>0, LowStep
<1>3. /\ Low(w.dev, 0) = w.dev /\ Low(w.dev, n) \in DevState
      /\ Low(w.dev, n + 1) = DeviceNext(Low(w.dev, n), 0)
      /\ Low(w.dev, n + 1) \in DevState
  BY <1>0, LowStep, LowType DEF DeviceNext
<1> HIDE DEF c, s
<1>4. Lows(w, 0) = w
  <2>1. w.seen \union s(0) = w.seen /\ w.shifts + c(0) = w.shifts
    BY <1>0, <1>2
  <2>2. Lows(w, 0) = [w EXCEPT !.dev = w.dev, !.seen = w.seen, !.shifts = w.shifts]
    BY <1>0, <1>1, <1>3, <2>1
  <2>3. QED
    BY <2>2 DEF Wires
<1> DEFINE d == Low(w.dev, n)
           e == Low(w.dev, n + 1)
           u == w.seen \union s(n)
           h == w.seen \union s(n + 1)
           a == w.shifts + c(n)
           b == w.shifts + c(n + 1)
           v == Lows(w, n)
<1>5. v = [w EXCEPT !.dev = d, !.seen = u, !.shifts = a]
  BY <1>1
<1>6. Lows(w, n + 1) = [w EXCEPT !.dev = e, !.seen = h, !.shifts = b]
  BY <1>0, <1>1
<1>7. /\ d \in DevState /\ e \in DevState /\ u \in SUBSET DevState /\ a \in Nat
      /\ e = DeviceNext(d, 0) /\ h = u \union {e}
  BY <1>0, <1>2, <1>3
<1>8. b = IF d \in ShiftState THEN a + 1 ELSE a
  BY <1>0, <1>2
<1> HIDE DEF d, e, u, h, a, b, v
<1>9. v \in Wires /\ v.dev = d /\ v.seen = u /\ v.shifts = a /\ v.tap = w.tap /\ v.rc = w.rc
  BY <1>5, <1>7 DEF Wires
<1>10. Pulse(v, 0) = [v EXCEPT !.dev = e, !.seen = h, !.shifts = b]
  BY <1>7, <1>8, <1>9 DEF Pulse, Wires
<1>11. [v EXCEPT !.dev = e, !.seen = h, !.shifts = b] = [w EXCEPT !.dev = e, !.seen = h, !.shifts = b]
  BY <1>5, <1>9 DEF Wires
<1>12. Pulse(v, 0) = Lows(w, n + 1)
  BY <1>6, <1>10, <1>11
<1>13. QED
  BY <1>4, <1>12 DEF v

-----------------------------------------------------------------------------
(* Induction up to n, with a set in place of a predicate.                  *)
LEMMA AlongNumbers ==
  ASSUME NEW n \in Nat, NEW T, 0 \in T, \A k \in 0 .. n - 1 : k \in T => k + 1 \in T
  PROVE  0 .. n \subseteq T
<1> DEFINE bad == {k \in 0 .. n : k \notin T}
           R == {ss \in Nat \X Nat : ss[1] < ss[2]}
<1> SUFFICES ASSUME bad # {} PROVE FALSE
  OBVIOUS
<1>1. R = OpToRel(<, Nat)
  BY DEF OpToRel
<1>2. IsWellFoundedOn(R, Nat)
  BY <1>1, NatLessThanWellFounded
<1>3. ASSUME NEW k \in Nat, NEW m \in Nat, m < k PROVE <<m, k>> \in R
  <2>1. <<m, k>> \in Nat \X Nat /\ <<m, k>>[1] < <<m, k>>[2]
    BY <1>3
  <2>2. QED
    BY <2>1
<1>4. bad \in SUBSET Nat
  OBVIOUS
<1> HIDE DEF R
<1>5. PICK k \in bad : \A m \in bad : ~(<<m, k>> \in R)
  BY <1>2, <1>4, WFMin
<1>6. k \in Nat /\ k # 0 /\ k <= n /\ k \notin T
  BY <1>5
<1>7. k - 1 \in 0 .. n - 1 /\ k - 1 \in Nat
  BY <1>6
<1>8. k - 1 \notin bad
  <2>1. <<k - 1, k>> \in R
    BY <1>3, <1>6, <1>7
  <2>2. QED
    BY <1>5, <2>1
<1>9. k - 1 \in T
  BY <1>7, <1>8
<1>10. (k - 1) + 1 \in T
  BY <1>7, <1>9
<1>11. QED
  BY <1>6, <1>10

(* What the first value has, and each step keeps, all values have.         *)
LEMMA StaysWithin ==
  ASSUME NEW S, NEW f, f[0] \in S, \A k \in Nat : f[k] \in S => f[k + 1] \in S
  PROVE  \A k \in Nat : f[k] \in S
<1> SUFFICES ASSUME NEW n \in Nat PROVE f[n] \in S
  OBVIOUS
<1> DEFINE T == {k \in 0 .. n : f[k] \in S}
<1>1. 0 \in T
  OBVIOUS
<1>2. \A k \in 0 .. n - 1 : k \in T => k + 1 \in T
  OBVIOUS
<1> HIDE DEF T
<1>3. 0 .. n \subseteq T
  BY <1>1, <1>2, AlongNumbers
<1>4. n \in T
  BY <1>3
<1>5. QED
  BY <1>4 DEF T

(* A function on the numbers that is given by its first value and by the   *)
(* step from each value to the next exists, if the values stay in a set.   *)
Steps(next, S, a) == a \in S /\ next \in [S \X Nat -> S]

Iterates(f, next, S, a) ==
  f \in [Nat -> S] /\ f[0] = a /\ \A k \in Nat : f[k + 1] = next[<<f[k], k + 1>>]

LEMMA RecursionExists ==
  ASSUME NEW S, NEW a, NEW next, Steps(next, S, a)
  PROVE  \E f : Iterates(f, next, S, a)
<1>0. a \in S /\ next \in [S \X Nat -> S]
  BY DEF Steps
<1> DEFINE Is(f, m) == /\ f \in [0 .. m -> S] /\ f[0] = a
                       /\ \A k \in 0 .. m - 1 : f[k + 1] = next[<<f[k], k + 1>>]
           Some(m) == \E f : Is(f, m)
<1>1. Some(0)
  <2> DEFINE f == [k \in 0 .. 0 |-> a]
  <2>1. Is(f, 0)
    BY <1>0
  <2> HIDE DEF f
  <2>2. QED
    BY <2>1
<1>2. ASSUME NEW m \in Nat, Some(m) PROVE Some(m + 1)
  <2>1. PICK f : Is(f, m)
    BY <1>2
  <2> DEFINE g == [k \in 0 .. m + 1 |-> IF k <= m THEN f[k] ELSE next[<<f[m], m + 1>>]]
  <2>2. f[m] \in S /\ next[<<f[m], m + 1>>] \in S
    BY <1>0, <2>1
  <2>3. g \in [0 .. m + 1 -> S] /\ g[0] = a
    BY <2>1, <2>2
  <2>4. ASSUME NEW k \in 0 .. (m + 1) - 1 PROVE g[k + 1] = next[<<g[k], k + 1>>]
    <3>1. g[k] = f[k]
      OBVIOUS
    <3>2. CASE k < m
      <4>1. g[k + 1] = f[k + 1] /\ k \in 0 .. m - 1
        BY <3>2
      <4> HIDE DEF g
      <4>2. QED
        BY <2>1, <3>1, <4>1
    <3>3. CASE k = m
      <4>1. g[k + 1] = next[<<f[m], m + 1>>]
        BY <3>3
      <4> HIDE DEF g
      <4>2. QED
        BY <3>1, <3>3, <4>1
    <3>4. QED
      BY <3>2, <3>3
  <2> HIDE DEF g
  <2>5. Is(g, m + 1)
    BY <2>3, <2>4
  <2> HIDE DEF Is
  <2>6. QED
    BY <2>5
<1> HIDE DEF Some
<1>3. ASSUME NEW n \in Nat PROVE Some(n)
  <2> DEFINE T == {m \in 0 .. n : Some(m)}
  <2>1. 0 \in T /\ \A m \in 0 .. n - 1 : m \in T => m + 1 \in T
    BY <1>1, <1>2
  <2> HIDE DEF T
  <2>2. 0 .. n \subseteq T
    BY <2>1, AlongNumbers
  <2>3. QED
    BY <2>2 DEF T
<1>4. ASSUME NEW m \in Nat, NEW f, NEW g, Is(f, m), Is(g, m + 1) PROVE f[m] = g[m]
  <2> DEFINE T == {k \in 0 .. m : f[k] = g[k]}
  <2>1. 0 \in T
    BY <1>4
  <2>2. ASSUME NEW k \in 0 .. m - 1, k \in T PROVE k + 1 \in T
    <3>1. f[k] = g[k] /\ k + 1 \in 0 .. m /\ k \in 0 .. (m + 1) - 1
      BY <2>2
    <3>2. f[k + 1] = next[<<f[k], k + 1>>]
      BY <1>4
    <3>3. g[k + 1] = next[<<g[k], k + 1>>]
      BY <1>4, <3>1
    <3>4. QED
      BY <3>1, <3>2, <3>3
  <2> HIDE DEF T
  <2>3. 0 .. m \subseteq T
    BY <2>1, <2>2, AlongNumbers
  <2>4. m \in T
    BY <2>3
  <2>5. QED
    BY <2>4 DEF T
<1> DEFINE Upto(m) == CHOOSE f : Is(f, m)
           F == [m \in Nat |-> Upto(m)[m]]
<1>5. \A m \in Nat : Is(Upto(m), m)
  <2> SUFFICES ASSUME NEW m \in Nat PROVE Is(Upto(m), m)
    OBVIOUS
  <2>1. \E f : Is(f, m)
    BY <1>3 DEF Some
  <2> HIDE DEF Is
  <2>2. QED
    BY <2>1
<1> HIDE DEF Upto
<1>6. F \in [Nat -> S] /\ F[0] = a
  BY <1>5
<1>7. ASSUME NEW k \in Nat PROVE F[k + 1] = next[<<F[k], k + 1>>]
  <2>1. Is(Upto(k), k) /\ Is(Upto(k + 1), k + 1)
    BY <1>5
  <2>2. Upto(k)[k] = Upto(k + 1)[k]
    <3> HIDE DEF Is
    <3>1. QED
      BY <1>4, <2>1
  <2>3. Upto(k + 1)[k + 1] = next[<<Upto(k + 1)[k], k + 1>>]
    <3>1. k \in 0 .. (k + 1) - 1
      OBVIOUS
    <3>2. QED
      BY <2>1, <3>1
  <2>4. QED
    BY <2>2, <2>3
<1> HIDE DEF F
<1>8. QED
  BY <1>6, <1>7 DEF Iterates
=============================================================================
