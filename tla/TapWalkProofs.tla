--------------------------- MODULE TapWalkProofs ----------------------------
(***************************************************************************)
(* Proofs about TapWalk, for any set of targets: h->tap_state is the state *)
(* of the device whenever it is not LIBXSVF_TAP_INIT (SyncInv); a walk's   *)
(* result is honest (HonestInv); what it leaves alone (WayInv); that       *)
(* TapPath's operator computes the same (PathInv); and, from the walks,    *)
(* that a scan finds every chain of devices (ChainScan).                   *)
(***************************************************************************)
EXTENDS ChainScan, TapPathProofs

(* A pulse with TMS high brings every device but one in Test-Logic-Reset   *)
(* one step nearer to it, and leaves that one where it is.                 *)
LEMMA OnesApproachReset ==
  ASSUME NEW d \in DevState
  PROVE  /\ OnesToReset(d) \in 0 .. 5
         /\ d # RESET => \/ OnesToReset(DeviceNext(d, 1)) = OnesToReset(d) - 1
                         \/ DeviceNext(d, 1) = RESET
         /\ d = RESET => DeviceNext(d, 1) = RESET
         /\ OnesToReset(d) = 0 => d = RESET
<1> USE DEF DevState, RESET, IDLE, DRSELECT, DRCAPTURE, DRSHIFT, DREXIT1, DRPAUSE,
        DREXIT2, DRUPDATE, IRSELECT, IRCAPTURE, IRSHIFT, IREXIT1, IRPAUSE, IREXIT2, IRUPDATE
<1>1. OnesToReset(d) \in 0 .. 5 /\ (OnesToReset(d) = 0 => d = RESET)
  BY DEF OnesToReset
<1>2. CASE d = RESET
  BY <1>1, <1>2 DEF DeviceNext, OnHigh, OnesToReset
<1>3. CASE d = IDLE
  BY <1>1, <1>3 DEF DeviceNext, OnHigh, OnesToReset
<1>4. CASE d = DRSELECT
  BY <1>1, <1>4 DEF DeviceNext, OnHigh, OnesToReset
<1>5. CASE d = DRCAPTURE
  BY <1>1, <1>5 DEF DeviceNext, OnHigh, OnesToReset
<1>6. CASE d = DRSHIFT
  BY <1>1, <1>6 DEF DeviceNext, OnHigh, OnesToReset
<1>7. CASE d = DREXIT1
  BY <1>1, <1>7 DEF DeviceNext, OnHigh, OnesToReset
<1>8. CASE d = DRPAUSE
  BY <1>1, <1>8 DEF DeviceNext, OnHigh, OnesToReset
<1>9. CASE d = DREXIT2
  BY <1>1, <1>9 DEF DeviceNext, OnHigh, OnesToReset
<1>10. CASE d = DRUPDATE
  BY <1>1, <1>10 DEF DeviceNext, OnHigh, OnesToReset
<1>11. CASE d = IRSELECT
  BY <1>1, <1>11 DEF DeviceNext, OnHigh, OnesToReset
<1>12. CASE d = IRCAPTURE
  BY <1>1, <1>12 DEF DeviceNext, OnHigh, OnesToReset
<1>13. CASE d = IRSHIFT
  BY <1>1, <1>13 DEF DeviceNext, OnHigh, OnesToReset
<1>14. CASE d = IREXIT1
  BY <1>1, <1>14 DEF DeviceNext, OnHigh, OnesToReset
<1>15. CASE d = IRPAUSE
  BY <1>1, <1>15 DEF DeviceNext, OnHigh, OnesToReset
<1>16. CASE d = IREXIT2
  BY <1>1, <1>16 DEF DeviceNext, OnHigh, OnesToReset
<1>17. CASE d = IRUPDATE
  BY <1>1, <1>17 DEF DeviceNext, OnHigh, OnesToReset
<1>18. QED
  BY <1>2, <1>3, <1>4, <1>5, <1>6, <1>7, <1>8, <1>9, <1>10, <1>11, <1>12, <1>13, <1>14, <1>15, <1>16, <1>17

-----------------------------------------------------------------------------
(* SyncInv holds initially.                                                *)
LEMMA SyncInit == Init => SyncInv
BY DEF Init, SyncInv, TypeOK, BeliefIsDevice, MaxSteps, InitPulses,
       TapState, DevState, WalkTarget, INIT, RESET, IRUPDATE, BADSTATE

(* SyncInv is inductive: one step per action.                              *)
LEMMA SyncNext == SyncInv /\ [Next]_vars => SyncInv'
<1> SUFFICES ASSUME SyncInv, [Next]_vars
             PROVE  SyncInv'
  OBVIOUS
<1> USE TargetsAssumption DEF SyncInv, TypeOK, BeliefIsDevice, MaxSteps, InitPulses
<1>0. /\ DevState \subseteq TapState
      /\ TapState \subseteq WalkTarget
      /\ INIT \in TapState /\ RESET \in DevState
      /\ INIT \notin DevState
      /\ TapState = DevState \union {INIT}
  BY DEF TapState, DevState, WalkTarget, INIT, RESET, IRUPDATE, BADSTATE
<1>1. CASE Open
  BY <1>0, <1>1 DEF Open
<1>2. ASSUME NEW t \in Targets, Call(t)
      PROVE  SyncInv'
  BY <1>0, <1>2 DEF Call
<1>3. CASE Arrived
  BY <1>0, <1>3 DEF Arrived, Return
<1>4. CASE InitCase
  <2>1. OnesToReset(dev) \in 0 .. 5
    BY OnesApproachReset
  <2>2. QED
    BY <1>0, <1>4, <2>1 DEF InitCase
<1>5. CASE InitPulse
  <2>1. dev' = DeviceNext(dev, 1) /\ dev' \in DevState /\ trail' \subseteq DevState
    BY <1>5, DeviceNextType DEF InitPulse, tap_transition
  <2>2. OnesToReset(dev') + j' <= 5 \/ dev' = RESET
    BY <1>5, <2>1, OnesApproachReset DEF InitPulse
  <2>3. QED
    BY <1>0, <1>5, <2>1, <2>2 DEF InitPulse
<1>6. CASE InitDone
  <2>1. dev = RESET
    BY <1>6, OnesApproachReset DEF InitDone
  <2>2. QED
    BY <1>0, <1>6, <2>1 DEF InitDone, EndStep, Return
<1>7. CASE Step
  <2>1. dev = tap_state /\ tap_state \in DevState
    BY <1>0, <1>7 DEF Step
  <2>2. /\ dev' = WalkStep(tap_state, s).to
        /\ dev' \in DevState
        /\ trail' \subseteq DevState
    BY <1>7, <2>1, StepTracksDevice DEF Step, tap_transition
  <2>3. QED
    BY <1>0, <1>7, <2>2 DEF Step, EndStep, Return
<1>8. CASE UNCHANGED vars
  BY <1>8 DEF vars
<1>9. QED
  BY <1>1, <1>2, <1>3, <1>4, <1>5, <1>6, <1>7, <1>8 DEF Next, Walk

(* The inductive invariant, for any set of targets.                        *)
THEOREM SyncInvHolds == Spec => []SyncInv
BY SyncInit, SyncNext, PTL DEF Spec

(* The model's variables keep their types (tap.c).                         *)
THEOREM TypeCorrect == Spec => []TypeOK
<1>1. SyncInv => TypeOK
  BY DEF SyncInv
<1>2. QED
  BY <1>1, SyncInvHolds, PTL

(* h->tap_state is right: the walker tracks the device without seeing it.  *)
THEOREM BeliefCorrect == Spec => []BeliefIsDevice
<1>1. SyncInv => BeliefIsDevice
  BY DEF SyncInv
<1>2. QED
  BY <1>1, SyncInvHolds, PTL

-----------------------------------------------------------------------------
(* A walk to a reachable target is never more than seven iterations from   *)
(* its end, those done included: the limit is for the others.              *)
HonestInv ==
  /\ SyncInv
  /\ ResultIsHonest
  /\ pc # "caller" /\ s \in Reachable => i + StepsLeft(tap_state, s) <= 7

LEMMA HonestInit == Init => HonestInv
BY SyncInit DEF HonestInv, ResultIsHonest, Init

LEMMA Unreachable == WalkTarget \ Reachable = {INIT, BADSTATE, DREXIT2, IREXIT2}
BY DEF WalkTarget, Reachable, INIT, BADSTATE, RESET, DREXIT2, IREXIT2, IRUPDATE

(* The end of an iteration that has brought the walk one step nearer.      *)
LEMMA HonestEndStep ==
  ASSUME HonestInv, SyncInv', pc # "caller", EndStep, tap_state' # INIT,
         s \in Reachable => StepsLeft(tap_state', s) = StepsLeft(tap_state, s) - 1
  PROVE  HonestInv'
<1>1. i \in Int /\ tap_state \in TapState /\ tap_state' \in TapState /\ s \in WalkTarget
  BY DEF HonestInv, SyncInv, TypeOK
<1>2. s \in Reachable => /\ StepsLeft(tap_state, s) \in 0 .. 7 /\ StepsLeft(tap_state', s) \in 0 .. 7
                         /\ i + StepsLeft(tap_state, s) <= 7
  BY <1>1, StepsLeftFacts DEF HonestInv
<1>3. CASE i > 10 /\ Return(-1) /\ UNCHANGED i
  <2>1. s \notin Reachable
    BY <1>1, <1>2, <1>3
  <2>2. pc' = "caller" /\ rc' = -1 /\ s' = s
    BY <1>3 DEF Return
  <2>3. QED
    BY <1>1, <2>1, <2>2, Unreachable DEF HonestInv, ResultIsHonest
<1>4. CASE i <= 10 /\ i' = i + 1 /\ pc' = "loop" /\ UNCHANGED <<s, rc, from>>
  BY <1>1, <1>2, <1>4 DEF HonestInv, ResultIsHonest
<1>5. QED
  BY <1>3, <1>4 DEF EndStep

LEMMA HonestNext == HonestInv /\ [Next]_vars => HonestInv'
<1> SUFFICES ASSUME HonestInv, [Next]_vars PROVE HonestInv'
  OBVIOUS
<1>0. /\ SyncInv' /\ tap_state \in TapState /\ s \in WalkTarget /\ i \in Int
      /\ TapState = DevState \union {INIT} /\ INIT # RESET
  BY SyncNext DEF HonestInv, SyncInv, TypeOK, TapState, DevState, INIT, RESET, IRUPDATE
<1>1. CASE Open
  BY <1>0, <1>1 DEF Open, HonestInv, ResultIsHonest
<1>2. ASSUME NEW t \in Targets, Call(t) PROVE HonestInv'
  <2>1. pc' = "loop" /\ s' = t /\ i' = 0 /\ tap_state' = tap_state
    BY <1>2 DEF Call
  <2>2. t \in Reachable => StepsLeft(tap_state, t) \in 0 .. 7
    BY <1>0, StepsLeftFacts
  <2>3. QED
    BY <1>0, <2>1, <2>2 DEF HonestInv, ResultIsHonest
<1>3. CASE Arrived
  BY <1>0, <1>3 DEF Arrived, Return, HonestInv, ResultIsHonest
<1>4. CASE InitCase
  BY <1>0, <1>4 DEF InitCase, HonestInv, ResultIsHonest
<1>5. CASE InitPulse
  BY <1>0, <1>5 DEF InitPulse, HonestInv, ResultIsHonest
<1>6. CASE InitDone
  <2>1. pc = "init" /\ tap_state' = RESET /\ EndStep /\ tap_state = INIT
    BY <1>6 DEF InitDone, HonestInv, SyncInv
  <2>2. s \in Reachable => StepsLeft(tap_state', s) = StepsLeft(tap_state, s) - 1
    BY <1>0, <2>1, StepsLeftFacts
  <2>3. QED
    BY <1>0, <2>1, <2>2, HonestEndStep
<1>7. CASE Step
  <2>1. pc = "loop" /\ tap_state # s /\ tap_state \in DevState /\ EndStep
        /\ tap_state' = WalkStep(tap_state, s).to
    BY <1>0, <1>7 DEF Step
  <2>2. s \in Reachable => StepsLeft(tap_state', s) = StepsLeft(tap_state, s) - 1
    BY <2>1, StepApproaches
  <2>3. tap_state' # INIT
    BY <1>0, <2>1, StepTracksDevice DEF DevState, INIT, RESET
  <2>4. QED
    BY <1>0, <2>1, <2>2, <2>3, HonestEndStep
<1>8. CASE UNCHANGED vars
  BY <1>0, <1>8 DEF vars, HonestInv, ResultIsHonest
<1>9. QED
  BY <1>1, <1>2, <1>3, <1>4, <1>5, <1>6, <1>7, <1>8 DEF Next, Walk

(* A walk that returns 0 has arrived, and only walks to INIT, to an        *)
(* unknown state or to an Exit2 state fail, whatever was asked before.     *)
THEOREM ResultIsHonestAlways == Spec => []ResultIsHonest
<1>1. HonestInv => ResultIsHonest
  BY DEF HonestInv
<1>2. QED
  BY <1>1, HonestInit, HonestNext, PTL DEF Spec

-----------------------------------------------------------------------------
(* The ways that a walk to a state of "to" which starts in "from" does not *)
(* leave.                                                                  *)
Ways ==
  {[to |-> {RESET},   from |-> {RESET, IDLE},      via |-> {RESET, IDLE, DRSELECT, IRSELECT}],
   [to |-> {DRSHIFT}, from |-> {DRSHIFT, DRPAUSE}, via |-> {DRSHIFT, DRPAUSE, DREXIT2}],
   [to |-> {DRPAUSE}, from |-> {DRSHIFT, DRPAUSE}, via |-> {DRSHIFT, DRPAUSE, DREXIT1}],
   [to |-> {IRSHIFT}, from |-> {IRSHIFT, IRPAUSE}, via |-> {IRSHIFT, IRPAUSE, IREXIT2}],
   [to |-> {IRPAUSE}, from |-> {IRSHIFT, IRPAUSE}, via |-> {IRSHIFT, IRPAUSE, IREXIT1}],
   [to |-> DRSHIFT .. DRPAUSE, from |-> DrColumn,  via |-> DrColumn],
   [to |-> IRSHIFT .. IRPAUSE, from |-> IrColumn,  via |-> IrColumn \union {DRSELECT}]}

WayInv ==
  /\ SyncInv
  /\ \A y \in Ways : s \in y.to /\ from \in y.from =>
       /\ trail \subseteq y.via
       /\ pc # "caller" => tap_state \in y.via

LEMMA WaysAreClosed ==
  ASSUME NEW y \in Ways
  PROVE  /\ y.from \subseteq y.via /\ y.via \subseteq DevState /\ y.to \subseteq DevState
         /\ \A t \in y.via, x \in y.to : t # x => WalkStep(t, x).to \in y.via
<1>0. \/ y.to = {RESET} /\ y.from = {RESET, IDLE} /\ y.via = {RESET, IDLE, DRSELECT, IRSELECT}
      \/ y.to = {DRSHIFT} /\ y.from = {DRSHIFT, DRPAUSE} /\ y.via = {DRSHIFT, DRPAUSE, DREXIT2}
      \/ y.to = {DRPAUSE} /\ y.from = {DRSHIFT, DRPAUSE} /\ y.via = {DRSHIFT, DRPAUSE, DREXIT1}
      \/ y.to = {IRSHIFT} /\ y.from = {IRSHIFT, IRPAUSE} /\ y.via = {IRSHIFT, IRPAUSE, IREXIT2}
      \/ y.to = {IRPAUSE} /\ y.from = {IRSHIFT, IRPAUSE} /\ y.via = {IRSHIFT, IRPAUSE, IREXIT1}
      \/ y.to = DRSHIFT .. DRPAUSE /\ y.from = DrColumn /\ y.via = DrColumn
      \/ y.to = IRSHIFT .. IRPAUSE /\ y.from = IrColumn /\ y.via = IrColumn \union {DRSELECT}
  BY DEF Ways
<1> USE DEF DevState, RESET, IDLE, DRSELECT, DRCAPTURE, DRSHIFT, DREXIT1, DRPAUSE, DREXIT2, DRUPDATE,
        IRSELECT, IRCAPTURE, IRSHIFT, IREXIT1, IRPAUSE, IREXIT2, IRUPDATE
<1>1. CASE y.to = {RESET} /\ y.from = {RESET, IDLE} /\ y.via = {RESET, IDLE, DRSELECT, IRSELECT}
  BY <1>1 DEF WalkStep, Clock
<1>2. CASE y.to = {DRSHIFT} /\ y.from = {DRSHIFT, DRPAUSE} /\ y.via = {DRSHIFT, DRPAUSE, DREXIT2}
  BY <1>2 DEF WalkStep, Clock
<1>3. CASE y.to = {DRPAUSE} /\ y.from = {DRSHIFT, DRPAUSE} /\ y.via = {DRSHIFT, DRPAUSE, DREXIT1}
  BY <1>3 DEF WalkStep, Clock
<1>4. CASE y.to = {IRSHIFT} /\ y.from = {IRSHIFT, IRPAUSE} /\ y.via = {IRSHIFT, IRPAUSE, IREXIT2}
  BY <1>4 DEF WalkStep, Clock
<1>5. CASE y.to = {IRPAUSE} /\ y.from = {IRSHIFT, IRPAUSE} /\ y.via = {IRSHIFT, IRPAUSE, IREXIT1}
  BY <1>5 DEF WalkStep, Clock
<1>6. CASE y.to = DRSHIFT .. DRPAUSE /\ y.from = DrColumn /\ y.via = DrColumn
  BY <1>6 DEF DrColumn, WalkStep, Clock
<1>7. CASE y.to = IRSHIFT .. IRPAUSE /\ y.from = IrColumn /\ y.via = IrColumn \union {DRSELECT}
  BY <1>7 DEF IrColumn, WalkStep, Clock
<1>8. QED
  BY <1>0, <1>1, <1>2, <1>3, <1>4, <1>5, <1>6, <1>7, Zenon

LEMMA WayInit == Init => WayInv
<1> SUFFICES ASSUME Init PROVE WayInv
  OBVIOUS
<1>1. s = INIT /\ INIT \notin DevState
  BY DEF Init, DevState, INIT, RESET
<1>2. QED
  BY <1>1, SyncInit, WaysAreClosed DEF WayInv

LEMMA WayNext == WayInv /\ [Next]_vars => WayInv'
<1> SUFFICES ASSUME WayInv, [Next]_vars PROVE WayInv'
  OBVIOUS
<1>0. SyncInv /\ SyncInv' /\ INIT \notin DevState
  BY SyncNext DEF WayInv, DevState, INIT, RESET
<1> SUFFICES ASSUME NEW y \in Ways, s' \in y.to, from' \in y.from
             PROVE  trail' \subseteq y.via /\ (pc' # "caller" => tap_state' \in y.via)
  BY <1>0 DEF WayInv
<1>1. s' = s /\ from' = from => trail \subseteq y.via /\ (pc # "caller" => tap_state \in y.via)
  BY DEF WayInv
<1>2. y.from \subseteq y.via /\ INIT \notin y.via
  BY <1>0, WaysAreClosed
<1>3. CASE Open \/ UNCHANGED vars
  BY <1>1, <1>3 DEF Open, WayInv, vars
<1>4. ASSUME NEW t \in Targets, Call(t) PROVE trail' \subseteq y.via /\ tap_state' \in y.via
  BY <1>2, <1>4 DEF Call
<1>5. CASE Arrived
  BY <1>1, <1>5 DEF Arrived, Return
<1>6. CASE InitCase \/ InitPulse \/ InitDone
  <2>1. tap_state = INIT /\ pc # "caller" /\ s' = s /\ from' = from
    BY <1>0, <1>6 DEF InitCase, InitPulse, InitDone, EndStep, Return, SyncInv
  <2>2. QED
    BY <1>1, <1>2, <2>1
<1>7. CASE Step
  <2>1. /\ pc = "loop" /\ tap_state # s /\ tap_state # INIT /\ s' = s /\ from' = from
        /\ tap_state' = WalkStep(tap_state, s).to
        /\ trail' = trail \union {dev'}
    BY <1>7 DEF Step, EndStep, Return, tap_transition
  <2>2. tap_state' \in y.via
    BY <1>1, <2>1, WaysAreClosed
  <2>3. dev' = tap_state'
    BY <1>0, <1>2, <2>2 DEF SyncInv, BeliefIsDevice
  <2>4. QED
    BY <1>1, <2>1, <2>2, <2>3
<1>8. QED
  BY <1>3, <1>4, <1>5, <1>6, <1>7 DEF Next, Walk

LEMMA WaysAreNarrow == WayInv => NoStrayUpdate /\ ColumnsAreSeparate
<1> SUFFICES ASSUME WayInv PROVE NoStrayUpdate /\ ColumnsAreSeparate
  OBVIOUS
<1>1. ASSUME NEW to, NEW start, NEW via, [to |-> to, from |-> start, via |-> via] \in Ways,
             s \in to, from \in start
      PROVE  trail \subseteq via
  BY <1>1 DEF WayInv
<1>2. NoStrayUpdate
  BY <1>1 DEF Ways, NoStrayUpdate
<1>3. (DrColumn \intersect {IRCAPTURE, IRUPDATE}) \union ((IrColumn \union {DRSELECT}) \intersect {DRCAPTURE, DRUPDATE}) = {}
  BY DEF DrColumn, IrColumn, RESET, IDLE, DRSELECT, DRCAPTURE, DRUPDATE, IRSELECT, IRCAPTURE, IRUPDATE
<1>4. s \in DRSHIFT .. DRPAUSE /\ from \in DrColumn => trail \subseteq DrColumn
  <2>1. [to |-> DRSHIFT .. DRPAUSE, from |-> DrColumn, via |-> DrColumn] \in Ways
    BY DEF Ways
  <2>2. QED
    BY <1>1, <2>1
<1>5. s \in IRSHIFT .. IRPAUSE /\ from \in IrColumn => trail \subseteq IrColumn \union {DRSELECT}
  <2>1. [to |-> IRSHIFT .. IRPAUSE, from |-> IrColumn, via |-> IrColumn \union {DRSELECT}] \in Ways
    BY DEF Ways
  <2>2. QED
    BY <1>1, <2>1
<1>6. ColumnsAreSeparate
  BY <1>3, <1>4, <1>5 DEF ColumnsAreSeparate, DrColumn, IrColumn
<1>7. QED
  BY <1>2, <1>6

(* Resetting an idle device latches nothing, and a paused scan is resumed  *)
(* without an update.                                                      *)
THEOREM NoStrayUpdateAlways == Spec => []NoStrayUpdate
<1>1. WayInv => NoStrayUpdate
  BY WaysAreNarrow
<1>2. QED
  BY <1>1, WayInit, WayNext, PTL DEF Spec

(* A walk for one register leaves the other one alone.                     *)
THEOREM ColumnsAreSeparateAlways == Spec => []ColumnsAreSeparate
<1>1. WayInv => ColumnsAreSeparate
  BY WaysAreNarrow
<1>2. QED
  BY <1>1, WayInit, WayNext, PTL DEF Spec

-----------------------------------------------------------------------------
(* The m pulses with TMS high, the n iterations that a walk has left.      *)
HighLeft(x, m) ==
  CASE m = 0 -> x
    [] m = 1 -> Pulse(x, 1)
    [] m = 2 -> Pulse(Pulse(x, 1), 1)
    [] m = 3 -> Pulse(Pulse(Pulse(x, 1), 1), 1)
    [] m = 4 -> Pulse(Pulse(Pulse(Pulse(x, 1), 1), 1), 1)
    [] m = 5 -> Pulse(Pulse(Pulse(Pulse(Pulse(x, 1), 1), 1), 1), 1)
    [] m = 6 -> Pulse(Pulse(Pulse(Pulse(Pulse(Pulse(x, 1), 1), 1), 1), 1), 1)

FewLeft(x, t, n) ==
  CASE n = 0 -> x
    [] n = 1 -> Stepped(x, t)
    [] n = 2 -> Stepped(Stepped(x, t), t)
    [] n = 3 -> Stepped(Stepped(Stepped(x, t), t), t)
    [] n = 4 -> Stepped(Stepped(Stepped(Stepped(x, t), t), t), t)
    [] n = 5 -> FiveSteps(x, t)

StepsToGo(x, t, n) ==
  IF n <= 5 THEN FewLeft(x, t, n)
  ELSE IF n <= 10 THEN FewLeft(FewLeft(x, t, n - 5), t, 5)
  ELSE ElevenSteps(x, t)

(* The wire of the running walk, whatever its count of edges; and, from a  *)
(* device in d, the wire of the whole walk as TapPath gives it.            *)
WireNow(n) == [tap |-> tap_state, dev |-> dev, seen |-> trail, shifts |-> n, rc |-> 0]

Returned(w) == rc = w.rc /\ tap_state = w.tap /\ dev = w.dev /\ trail = w.seen

(* What is left of a walk leads from the wire it has reached to the one    *)
(* that TapPath gives for all of it.                                       *)
PathInv ==
  /\ SyncInv
  /\ pc # "caller" => rc \in {0, -1} /\ i <= 11 /\ (tap_state = INIT => i = 0 /\ from = INIT)
  /\ pc = "loop" /\ tap_state = INIT => trail = {}
  /\ pc = "loop" =>
       \E d \in DevState, n \in Nat :
         /\ from # INIT => d = from
         /\ StepsToGo(WireNow(n), s, 11 - i) = ElevenSteps(WireAt(from, d), s)
  /\ pc = "init" =>
       /\ s # INIT
       /\ \E d \in DevState, n \in Nat : HighLeft(WireNow(n), 6 - j) = SixHigh(WireAt(INIT, d))
  /\ pc = "caller" /\ trail # {} /\ tap_state # INIT =>
       \E d \in DevState : (from # INIT => d = from) /\ Returned(WalkTo(WireAt(from, d), s))

LEMMA HighLeftStep ==
  ASSUME NEW x, NEW m \in 0 .. 5
  PROVE  /\ HighLeft(x, m + 1) = HighLeft(Pulse(x, 1), m)
         /\ HighLeft(x, 0) = x /\ HighLeft(x, 6) = SixHigh(x)
<1>1. m = 0 \/ m = 1 \/ m = 2 \/ m = 3 \/ m = 4 \/ m = 5
  OBVIOUS
<1>2. QED
  BY <1>1 DEF HighLeft, SixHigh, TwoHigh

LEMMA FewLeftStep ==
  ASSUME NEW x, NEW t, NEW n \in 0 .. 4
  PROVE  FewLeft(x, t, n + 1) = FewLeft(Stepped(x, t), t, n) /\ FewLeft(x, t, 0) = x
<1>1. n = 0 \/ n = 1 \/ n = 2 \/ n = 3 \/ n = 4
  OBVIOUS
<1>2. QED
  BY <1>1 DEF FewLeft, FiveSteps

LEMMA FewLeftArrived ==
  ASSUME NEW x, NEW t, Stepped(x, t) = x, NEW n \in 0 .. 5
  PROVE  FewLeft(x, t, n) = x
<1>1. n = 0 \/ n = 1 \/ n = 2 \/ n = 3 \/ n = 4 \/ n = 5
  OBVIOUS
<1>2. QED
  BY <1>1 DEF FewLeft, FiveSteps

(* An iteration leaves one less to go; none is left of a walk that has     *)
(* arrived.                                                                *)
LEMMA StepsToGoStep ==
  ASSUME NEW x, NEW t
  PROVE  /\ StepsToGo(x, t, 11) = ElevenSteps(x, t) /\ StepsToGo(x, t, 0) = x
         /\ \A n \in 0 .. 10 : StepsToGo(x, t, n + 1) = StepsToGo(Stepped(x, t), t, n)
         /\ Stepped(x, t) = x => \A n \in 0 .. 11 : StepsToGo(x, t, n) = x
<1>1. StepsToGo(x, t, 11) = ElevenSteps(x, t)
  BY DEF StepsToGo
<1>2. StepsToGo(x, t, 0) = x
  BY DEF StepsToGo, FewLeft
<1>3. ASSUME NEW n \in 0 .. 10 PROVE StepsToGo(x, t, n + 1) = StepsToGo(Stepped(x, t), t, n)
  <2>1. CASE n \in 0 .. 4
    BY <2>1, FewLeftStep DEF StepsToGo
  <2>2. CASE n = 5
    BY <2>2, FewLeftStep DEF StepsToGo, FewLeft, FiveSteps
  <2>3. CASE n \in 6 .. 9
    <3>1. n - 5 \in 0 .. 4 /\ (n + 1) - 5 = (n - 5) + 1
      BY <2>3
    <3>2. FewLeft(x, t, (n - 5) + 1) = FewLeft(Stepped(x, t), t, n - 5)
      BY <3>1, FewLeftStep
    <3>3. QED
      BY <2>3, <3>1, <3>2 DEF StepsToGo
  <2>4. CASE n = 10
    BY <2>4, ElevenUnrolled DEF StepsToGo, FewLeft, FiveSteps
  <2>5. QED
    BY <2>1, <2>2, <2>3, <2>4
<1>4. ASSUME Stepped(x, t) = x, NEW n \in 0 .. 11 PROVE StepsToGo(x, t, n) = x
  <2>1. \A k \in 0 .. 5 : FewLeft(x, t, k) = x
    BY <1>4, FewLeftArrived
  <2>2. FiveSteps(x, t) = x
    BY <1>4 DEF FiveSteps
  <2>3. ElevenSteps(x, t) = x
    BY <1>4, <2>2, ElevenUnrolled
  <2>4. QED
    BY <2>1, <2>3 DEF StepsToGo
<1>5. QED
  BY <1>1, <1>2, <1>3, <1>4

LEMMA PulseNow ==
  ASSUME NEW a \in TapState, NEW b \in DevState, NEW c \in SUBSET DevState, NEW n \in Nat, NEW v,
         NEW d \in DevState, NEW m \in Nat, d = DeviceNext(b, v), m = IF b \in ShiftState THEN n + 1 ELSE n
  PROVE  Pulse([tap |-> a, dev |-> b, seen |-> c, shifts |-> n, rc |-> 0], v)
           = [tap |-> a, dev |-> d, seen |-> c \union {d}, shifts |-> m, rc |-> 0]
<1> DEFINE x == [tap |-> a, dev |-> b, seen |-> c, shifts |-> n, rc |-> 0]
           u == c \union {d}
           z == [tap |-> a, dev |-> d, seen |-> u, shifts |-> m, rc |-> 0]
<1>1. x \in Wires /\ x.tap = a /\ x.dev = b /\ x.seen = c /\ x.shifts = n /\ x.rc = 0
  BY DEF Wires
<1>2. u \in SUBSET DevState
  OBVIOUS
<1>3. Pulse(x, v) = [x EXCEPT !.dev = d, !.seen = u, !.shifts = m]
  BY <1>1 DEF Pulse
<1> HIDE DEF u
<1>4. z \in Wires /\ z.tap = a /\ z.dev = d /\ z.seen = u /\ z.shifts = m /\ z.rc = 0
  BY <1>2 DEF Wires
<1> HIDE DEF x, z
<1> DEFINE y == [x EXCEPT !.dev = d, !.seen = u, !.shifts = m]
<1>5. y \in Wires /\ y.tap = a /\ y.dev = d /\ y.seen = u /\ y.shifts = m /\ y.rc = 0
  BY <1>1, <1>2 DEF Wires
<1> HIDE DEF y
<1>6. y = z
  BY <1>4, <1>5 DEF Wires
<1>7. QED
  BY <1>3, <1>6 DEF x, y, z, u

LEMMA PathInit == Init => PathInv
BY SyncInit DEF PathInv, Init

(* A walk that returns: it has arrived, or its twelfth iteration is over.  *)
LEMMA PathReturn ==
  ASSUME NEW d \in DevState, NEW x, NEW v \in {0, -1}, from # INIT => d = from,
         ElevenSteps(WireAt(from, d), s) = x,
         v = 0 => x.tap = s /\ tap_state' = x.tap /\ dev' = x.dev /\ trail' = x.seen /\ x.rc = 0,
         v = -1 => /\ x.tap # s /\ Stepped(x, s) \in Wires
                   /\ tap_state' = Stepped(x, s).tap /\ dev' = Stepped(x, s).dev
                   /\ trail' = Stepped(x, s).seen,
         Return(v), SyncInv'
  PROVE  PathInv'
<1>1. WireAt(from, d).rc = 0
  BY DEF WireAt
<1>2. Returned(WalkTo(WireAt(from, d), s))'
  <2>1. CASE v = 0
    BY <1>1, <2>1 DEF Returned, WalkTo, Return
  <2>2. CASE v = -1
    <3>1. WalkTo(WireAt(from, d), s) = [Stepped(x, s) EXCEPT !.rc = -1]
      BY <1>1, <2>2 DEF WalkTo
    <3>2. QED
      BY <2>2, <3>1 DEF Returned, Return, Wires
  <2>3. QED
    BY <2>1, <2>2
<1>3. pc' = "caller" /\ from' = from
  BY DEF Return
<1>4. QED
  BY <1>2, <1>3 DEF PathInv

LEMMA PathNext == PathInv /\ [Next]_vars => PathInv'
<1> SUFFICES ASSUME PathInv, [Next]_vars PROVE PathInv'
  OBVIOUS
<1>0. /\ SyncInv /\ SyncInv' /\ tap_state \in TapState /\ s \in WalkTarget /\ i \in Int /\ j \in 0 .. 6
      /\ dev \in DevState /\ trail \in SUBSET DevState
      /\ TapState = DevState \union {INIT} /\ INIT \notin DevState /\ RESET \in DevState
  BY SyncNext DEF PathInv, SyncInv, TypeOK, InitPulses, TapState, DevState, INIT, RESET, IRUPDATE
<1>b. dev' \in DevState
  BY <1>0 DEF SyncInv, TypeOK
<1>1. CASE Open
  BY <1>0, <1>1 DEF Open, PathInv
<1>2. ASSUME NEW t \in Targets, Call(t) PROVE PathInv'
  <2>1. /\ pc' = "loop" /\ s' = t /\ i' = 0 /\ from' = tap_state /\ tap_state' = tap_state
        /\ dev' = dev /\ trail' = {} /\ rc' = rc
    BY <1>2 DEF Call
  <2>2. WireNow(0)' = WireAt(from', dev')
    BY <2>1 DEF WireNow, WireAt
  <2>3. StepsToGo(WireNow(0)', s', 11 - i') = ElevenSteps(WireAt(from', dev'), s')
    BY <2>1, <2>2 DEF StepsToGo
  <2>4. from' # INIT => dev' = from'
    BY <1>0, <2>1 DEF SyncInv, BeliefIsDevice
  <2>5. rc' \in {0, -1}
    BY <1>0, <2>1 DEF SyncInv, TypeOK
  <2>6. QED
    BY <1>0, <2>1, <2>3, <2>4, <2>5 DEF PathInv
<1>3. CASE Arrived
  <2>1. pc = "loop" /\ tap_state = s /\ Return(0) /\ UNCHANGED <<tap_state, dev, i, j, trail>> /\ i \in 0 .. 11
    BY <1>0, <1>3 DEF Arrived, PathInv, SyncInv, TypeOK
  <2>2. PICK d \in DevState, n \in Nat : /\ from # INIT => d = from
                                         /\ StepsToGo(WireNow(n), s, 11 - i) = ElevenSteps(WireAt(from, d), s)
    BY <2>1 DEF PathInv
  <2>3. Stepped(WireNow(n), s) = WireNow(n)
    BY <2>1 DEF Stepped, WireNow
  <2>4. StepsToGo(WireNow(n), s, 11 - i) = WireNow(n)
    BY <2>1, <2>3, StepsToGoStep
  <2>5. /\ WireNow(n).tap = tap_state /\ WireNow(n).dev = dev /\ WireNow(n).seen = trail
        /\ WireNow(n).rc = 0
    BY DEF WireNow
  <2>6. QED
    BY <1>0, <2>1, <2>2, <2>4, <2>5, PathReturn
<1>4. CASE InitCase
  <2>1. /\ pc = "loop" /\ tap_state # s /\ tap_state = INIT /\ pc' = "init" /\ j' = 0
        /\ UNCHANGED <<tap_state, dev, s, i, rc, from, trail>> /\ i = 0 /\ from = INIT
    BY <1>4 DEF InitCase, PathInv
  <2>2. trail = {} /\ WireNow(0)' = WireAt(INIT, dev)
    BY <2>1 DEF PathInv, WireNow, WireAt
  <2>3. HighLeft(WireNow(0)', 6 - j') = SixHigh(WireAt(INIT, dev))
    BY <2>1, <2>2, HighLeftStep
  <2>4. rc' \in {0, -1}
    BY <1>0, <2>1 DEF SyncInv, TypeOK
  <2>5. QED
    BY <1>0, <2>1, <2>3, <2>4 DEF PathInv
<1>5. CASE InitPulse
  <2>1. /\ pc = "init" /\ pc' = "init" /\ j < 6 /\ j' = j + 1 /\ dev' = DeviceNext(dev, 1)
        /\ trail' = trail \union {dev'} /\ UNCHANGED <<tap_state, s, i, rc, from>>
    BY <1>5 DEF InitPulse, InitPulses, tap_transition
  <2>2. PICK d \in DevState, n \in Nat : HighLeft(WireNow(n), 6 - j) = SixHigh(WireAt(INIT, d))
    BY <2>1 DEF PathInv
  <2>3. PICK m \in Nat : WireNow(m)' = Pulse(WireNow(n), 1)
    <3>1. PICK m \in Nat : m = IF dev \in ShiftState THEN n + 1 ELSE n
      OBVIOUS
    <3>2. WireNow(m)' = [tap |-> tap_state, dev |-> dev', seen |-> trail \union {dev'}, shifts |-> m, rc |-> 0]
      BY <2>1 DEF WireNow
    <3>3. Pulse(WireNow(n), 1) = [tap |-> tap_state, dev |-> dev', seen |-> trail \union {dev'},
                                  shifts |-> m, rc |-> 0]
      BY <1>0, <1>b, <2>1, <3>1, PulseNow DEF WireNow
    <3>4. QED
      BY <3>2, <3>3
  <2>4. HighLeft(WireNow(m)', 6 - j') = SixHigh(WireAt(INIT, d))
    <3>1. 5 - j \in 0 .. 5 /\ 6 - j = (5 - j) + 1 /\ 6 - j' = 5 - j
      BY <1>0, <2>1
    <3>2. QED
      BY <2>2, <2>3, <3>1, HighLeftStep
  <2>5. QED
    BY <1>0, <2>1, <2>4 DEF PathInv
<1>6. CASE InitDone
  <2>1. /\ pc = "init" /\ j = 6 /\ tap_state' = RESET /\ EndStep /\ UNCHANGED <<dev, j, trail>>
        /\ s # INIT /\ i = 0 /\ from = INIT /\ tap_state = INIT
    BY <1>0, <1>6 DEF InitDone, InitPulses, PathInv, SyncInv
  <2>2. pc' = "loop" /\ i' = 1 /\ UNCHANGED <<s, rc, from>>
    BY <2>1 DEF EndStep
  <2>3. PICK d \in DevState, n \in Nat : HighLeft(WireNow(n), 0) = SixHigh(WireAt(INIT, d))
    BY <2>1 DEF PathInv
  <2>4. WireNow(n) = SixHigh(WireAt(INIT, d))
    BY <2>3, HighLeftStep
  <2>5. WireNow(n)' = Stepped(WireAt(INIT, d), s)
    BY <2>1, <2>4 DEF Stepped, WireAt, WireNow
  <2>6. StepsToGo(WireNow(n)', s', 11 - i') = ElevenSteps(WireAt(from', d), s')
    <3>1. StepsToGo(WireAt(INIT, d), s, 10 + 1) = StepsToGo(Stepped(WireAt(INIT, d), s), s, 10)
      BY StepsToGoStep
    <3>2. StepsToGo(WireAt(INIT, d), s, 10 + 1) = ElevenSteps(WireAt(INIT, d), s)
      BY StepsToGoStep
    <3>3. QED
      BY <2>1, <2>2, <2>5, <3>1, <3>2
  <2>7. rc' \in {0, -1} /\ RESET # INIT
    BY <1>0, <2>2 DEF SyncInv, TypeOK
  <2>8. QED
    BY <1>0, <2>1, <2>2, <2>6, <2>7 DEF PathInv
<1>7. CASE Step
  <2>1. /\ pc = "loop" /\ tap_state # s /\ tap_state # INIT /\ EndStep /\ i \in 0 .. 11
        /\ dev' = DeviceNext(dev, WalkStep(tap_state, s).tms) /\ trail' = trail \union {dev'}
        /\ tap_state' = WalkStep(tap_state, s).to
    BY <1>0, <1>7 DEF Step, tap_transition, PathInv, SyncInv, TypeOK
  <2>2. WalkStep(tap_state, s).tms \in {0, 1} /\ tap_state' \in DevState
    BY <1>0, <2>1, StepTracksDevice
  <2>3. PICK d \in DevState, n \in Nat : /\ from # INIT => d = from
                                         /\ StepsToGo(WireNow(n), s, 11 - i) = ElevenSteps(WireAt(from, d), s)
    BY <2>1 DEF PathInv
  <2>4. PICK m \in Nat : WireNow(m)' = Stepped(WireNow(n), s)
    <3> DEFINE step == WalkStep(tap_state, s)
    <3>1. PICK m \in Nat : m = IF dev \in ShiftState THEN n + 1 ELSE n
      OBVIOUS
    <3>2. WireNow(m)' = [tap |-> step.to, dev |-> dev', seen |-> trail \union {dev'}, shifts |-> m, rc |-> 0]
      BY <2>1 DEF WireNow
    <3>3. Pulse(WireNow(n), step.tms) = [tap |-> tap_state, dev |-> dev', seen |-> trail \union {dev'},
                                         shifts |-> m, rc |-> 0]
      BY <1>0, <1>b, <2>1, <3>1, PulseNow DEF WireNow
    <3>4. Stepped(WireNow(n), s) = [Pulse(WireNow(n), step.tms) EXCEPT !.tap = step.to]
      BY <2>1 DEF WireNow, Stepped
    <3>5. QED
      BY <3>2, <3>3, <3>4
  <2>5. CASE i > 10 /\ Return(-1) /\ UNCHANGED i
    <3>1. WireNow(n) = ElevenSteps(WireAt(from, d), s)
      <4>1. 11 - i = 0
        BY <2>1, <2>5
      <4>2. QED
        BY <2>3, <4>1, StepsToGoStep
    <3>2. WireNow(n).tap # s
      BY <2>1 DEF WireNow
    <3>3. /\ tap_state' = Stepped(WireNow(n), s).tap /\ dev' = Stepped(WireNow(n), s).dev
          /\ trail' = Stepped(WireNow(n), s).seen
      BY <2>4 DEF WireNow
    <3>4. Stepped(WireNow(n), s) \in Wires
      <4>1. WireNow(m)' = [tap |-> tap_state', dev |-> dev', seen |-> trail', shifts |-> m, rc |-> 0]
        BY DEF WireNow
      <4>2. /\ tap_state' \in TapState /\ dev' \in DevState /\ trail' \in SUBSET DevState
        BY <1>0 DEF SyncInv, TypeOK
      <4>3. QED
        BY <2>4, <4>1, <4>2 DEF Wires
    <3>5. QED
      BY <1>0, <2>3, <2>5, <3>1, <3>2, <3>3, <3>4, PathReturn
  <2>6. CASE i <= 10 /\ i' = i + 1 /\ pc' = "loop" /\ UNCHANGED <<s, rc, from>>
    <3>1. StepsToGo(WireNow(m)', s', 11 - i') = ElevenSteps(WireAt(from', d), s')
      <4>1. 10 - i \in 0 .. 10 /\ 11 - i = (10 - i) + 1 /\ 11 - i' = 10 - i
        BY <1>0, <2>1, <2>6
      <4>2. StepsToGo(WireNow(n), s, (10 - i) + 1) = StepsToGo(Stepped(WireNow(n), s), s, 10 - i)
        BY <4>1, StepsToGoStep
      <4>3. QED
        BY <2>3, <2>4, <2>6, <4>1, <4>2
    <3>2. rc' \in {0, -1} /\ i' <= 11 /\ tap_state' # INIT
      BY <1>0, <2>1, <2>2, <2>6 DEF SyncInv, TypeOK
    <3>3. from' # INIT => d = from'
      BY <2>3, <2>6
    <3>4. QED
      BY <1>0, <2>6, <3>1, <3>2, <3>3 DEF PathInv
  <2>7. QED
    BY <2>1, <2>5, <2>6 DEF EndStep
<1>8. CASE UNCHANGED vars
  BY <1>0, <1>8 DEF vars, PathInv, WireNow, Returned
<1>9. QED
  BY <1>1, <1>2, <1>3, <1>4, <1>5, <1>6, <1>7, <1>8 DEF Next, Walk

LEMMA PathMatches == PathInv => MatchesPath
<1> SUFFICES ASSUME PathInv PROVE MatchesPath
  OBVIOUS
<1>1. tap_state \in TapState /\ dev \in DevState
  BY DEF PathInv, SyncInv, TypeOK
<1>2. WireAt(tap_state, dev) \in Wires /\ WireAt(tap_state, dev).rc = 0
  BY <1>1 DEF Wires, WireAt
<1>3. Lows(WireAt(tap_state, dev), 0) = WireAt(tap_state, dev)
  BY <1>2, LowsAreSteps
<1>4. \A n \in 0 .. 3 : Lows(WireAt(tap_state, dev), n + 1) = Pulse(Lows(WireAt(tap_state, dev), n), 0)
  BY <1>2, LowsAreSteps
<1>5. QED
  BY <1>3, <1>4 DEF PathInv, MatchesPath, Returned

(* The operator by which the players' models take a whole walk is what the *)
(* walker computes step by step, for any targets.                          *)
THEOREM MatchesPathAlways == Spec => []MatchesPath
<1>1. Spec => []PathInv
  BY PathInit, PathNext, PTL DEF Spec
<1>2. QED
  BY <1>1, PathMatches, PTL

-----------------------------------------------------------------------------
(* The scan of a chain: where its devices' bits are, what every round has  *)
(* found, what the walks capture.                                          *)

Bit     == {0, 1}
Devices == IdCode \union {BYPASS}

LEMMA DevicesAreBits ==
  /\ Devices \subseteq Seq(Bit) /\ Len(BYPASS) = 1 /\ BYPASS[1] = 0
  /\ \A id \in IdCode : /\ Len(id) = IdBits /\ DOMAIN id = 1 .. IdBits /\ id[1] = 1 /\ id # Ones
                        /\ id = [k \in 1 .. IdBits |-> id[k]] /\ id # BYPASS
<1>1. IdBits \in Nat \ {0} /\ MaxDevices \in Nat \ {0}
  BY ScanAssumption
<1>2. BYPASS \in Seq(Bit) /\ Len(BYPASS) = 1 /\ BYPASS[1] = 0
  BY DEF BYPASS, Bit
<1>3. ASSUME NEW id \in IdCode
      PROVE  /\ id \in Seq(Bit) /\ Len(id) = IdBits /\ DOMAIN id = 1 .. IdBits /\ id[1] = 1 /\ id # Ones
             /\ id = [k \in 1 .. IdBits |-> id[k]] /\ id # BYPASS
  <2>1. id \in [1 .. IdBits -> Bit] /\ id[1] = 1 /\ id # Ones
    BY DEF IdCode, Bit
  <2>2. id \in Seq(Bit) /\ DOMAIN id = 1 .. IdBits /\ id = [k \in 1 .. IdBits |-> id[k]]
    BY <1>1, <2>1
  <2>3. Len(id) = IdBits
    BY <1>1, <2>2, LenProperties
  <2>4. id # BYPASS
    <3>1. id[1] # BYPASS[1]
      BY <1>2, <2>1
    <3>2. QED
      BY <3>1
  <2>5. QED
    BY <2>1, <2>2, <2>3, <2>4
<1>4. QED
  BY <1>2, <1>3 DEF Devices

(* The function that FlattenSeq defines exists.                            *)
LEMMA FlattenExists ==
  ASSUME NEW c, Len(c) \in Nat \ {0}
  PROVE  \E f : /\ f = [k \in 1 .. Len(c) |-> IF k = 1 THEN c[k] ELSE f[k - 1] \o c[k]]
                /\ FlattenSeq(c) = f[Len(c)]
<1> DEFINE Value(f, k) == IF k = 1 THEN c[k] ELSE f[k - 1] \o c[k]
           Is(f, m) == f = [k \in 1 .. m |-> Value(f, k)]
           n == Len(c)
           T == {m \in 0 .. n : \E f : Is(f, m)}
<1>0. n \in Nat /\ n # 0
  OBVIOUS
<1>1. 0 \in T
  <2> DEFINE f == [k \in 1 .. 0 |-> c[k]]
  <2>1. Is(f, 0)
    OBVIOUS
  <2> HIDE DEF f
  <2>2. \E g : Is(g, 0)
    BY <2>1
  <2> HIDE DEF Is
  <2>3. QED
    BY <1>0, <2>2
<1>2. ASSUME NEW m \in 0 .. n - 1, m \in T PROVE m + 1 \in T
  <2>1. PICK f : Is(f, m)
    BY <1>2
  <2>0. n \in Int
    BY <1>0
  <2> HIDE DEF n
  <2> DEFINE g == [k \in 1 .. m + 1 |-> IF k <= m THEN f[k] ELSE Value(f, m + 1)]
  <2>2. ASSUME NEW k \in 1 .. m + 1 PROVE Value(g, k) = Value(f, k)
    <3>1. CASE k = 1
      BY <3>1
    <3>2. CASE k # 1
      <4>1. k - 1 \in 1 .. m /\ k - 1 \in 1 .. m + 1 /\ k - 1 <= m
        BY <2>0, <3>2
      <4>2. g[k - 1] = f[k - 1]
        BY <4>1
      <4> HIDE DEF g
      <4>3. QED
        BY <4>2
    <3>3. QED
      BY <3>1, <3>2
  <2>3. ASSUME NEW k \in 1 .. m + 1 PROVE g[k] = Value(f, k)
    <3> HIDE DEF Value
    <3>1. k <= m \/ k = m + 1
      BY <2>0
    <3>2. k <= m => f[k] = Value(f, k)
      BY <2>0, <2>1
    <3>3. QED
      BY <2>0, <3>1, <3>2
  <2>4. g = [k \in 1 .. m + 1 |-> g[k]]
    OBVIOUS
  <2> HIDE DEF g, Value
  <2>5. Is(g, m + 1)
    BY <2>2, <2>3, <2>4
  <2>6. m + 1 \in 0 .. n
    BY <2>0
  <2>7. QED
    BY <2>5, <2>6
<1> HIDE DEF T
<1>3. 0 .. n \subseteq T
  BY <1>0, <1>1, <1>2, AlongNumbers
<1>4. n \in T
  BY <1>0, <1>3
<1>5. \E f : Is(f, n)
  BY <1>4 DEF T
<1> DEFINE F == CHOOSE f : Is(f, n)
<1>6. Is(F, n)
  BY <1>5
<1>7. FlattenSeq(c) = F[n]
  BY <1>0 DEF FlattenSeq
<1> HIDE DEF F
<1>8. QED
  BY <1>6, <1>7

(* Where the bits of a chain's devices are when they have been flattened.  *)
LEMMA FlattenPlaces ==
  ASSUME NEW c \in Seq(Seq(Bit))
  PROVE  /\ FlattenSeq(c) \in Seq(Bit)
         /\ \E off \in [0 .. Len(c) -> Nat] :
              /\ off[0] = 0 /\ off[Len(c)] = Len(FlattenSeq(c))
              /\ \A k \in 1 .. Len(c) :
                   /\ off[k] = off[k - 1] + Len(c[k]) /\ off[k] <= off[Len(c)]
                   /\ \A m \in 1 .. Len(c[k]) : FlattenSeq(c)[off[k - 1] + m] = c[k][m]
<1> DEFINE n == Len(c)
<1>0. n \in Nat /\ \A k \in 1 .. n : c[k] \in Seq(Bit)
  OBVIOUS
<1>1. CASE n = 0
  <2>1. FlattenSeq(c) = c /\ c = <<>>
    BY <1>1 DEF FlattenSeq
  <2> DEFINE off == [k \in 0 .. 0 |-> 0]
  <2>2. off \in [0 .. 0 -> Nat] /\ off[0] = 0
    OBVIOUS
  <2> HIDE DEF off
  <2>3. c \in Seq(Bit) /\ Len(FlattenSeq(c)) = 0 /\ 1 .. n = {}
    BY <1>1, <2>1
  <2>4. QED
    BY <1>1, <2>1, <2>2, <2>3
<1>2. CASE n # 0
  <2>0. n \in Nat \ {0}
    BY <1>0, <1>2
  <2>1. PICK f : /\ f = [k \in 1 .. n |-> IF k = 1 THEN c[k] ELSE f[k - 1] \o c[k]]
                 /\ FlattenSeq(c) = f[n]
    BY <2>0, FlattenExists
  <2> DEFINE Begun(k) == IF k = 0 THEN <<>> ELSE f[k]
  <2> HIDE DEF n
  <2>2. ASSUME NEW k \in 1 .. n, Begun(k - 1) \in Seq(Bit)
        PROVE  Begun(k) = Begun(k - 1) \o c[k] /\ Begun(k) \in Seq(Bit)
    <3>0. c[k] \in Seq(Bit) /\ k # 0
      BY <1>0
    <3>1. Begun(k) = f[k] /\ f[k] = IF k = 1 THEN c[k] ELSE f[k - 1] \o c[k]
      BY <2>1, <3>0
    <3>2. CASE k = 1
      <4>1. Begun(k - 1) = <<>>
        BY <3>2
      <4>2. Begun(k) = c[k]
        BY <3>1, <3>2
      <4> HIDE DEF Begun
      <4>3. <<>> \o c[k] = c[k]
        BY <3>0, ConcatEmptySeq
      <4>4. QED
        BY <3>0, <4>1, <4>2, <4>3
    <3>3. CASE k # 1
      <4>1. Begun(k - 1) = f[k - 1]
        BY <3>3
      <4>2. Begun(k) = f[k - 1] \o c[k]
        BY <3>1, <3>3
      <4> HIDE DEF Begun
      <4>3. Begun(k - 1) \o c[k] \in Seq(Bit)
        BY <2>2, <3>0, ConcatProperties
      <4>4. QED
        BY <4>1, <4>2, <4>3
    <3>4. QED
      BY <3>2, <3>3
  <2>3. Begun(0) = <<>> /\ Begun(n) = FlattenSeq(c)
    BY <1>2, <2>1
  <2> HIDE DEF Begun
  <2> DEFINE T == {k \in 0 .. n : Begun(k) \in Seq(Bit)}
  <2>4. 0 .. n \subseteq T
    <3>1. 0 \in T
      <4>1. <<>> \in Seq(Bit) /\ 0 \in 0 .. n
        BY <2>0
      <4>2. QED
        BY <2>3, <4>1
    <3>2. ASSUME NEW k \in 0 .. n - 1, k \in T PROVE k + 1 \in T
      <4>1. k + 1 \in 1 .. n /\ (k + 1) - 1 = k
        BY <2>0
      <4>2. Begun(k + 1) \in Seq(Bit)
        BY <2>2, <3>2, <4>1
      <4>3. QED
        BY <2>0, <4>1, <4>2
    <3> HIDE DEF T
    <3>3. QED
      BY <1>0, <3>1, <3>2, AlongNumbers
  <2>5. \A k \in 0 .. n : Begun(k) \in Seq(Bit) /\ Len(Begun(k)) \in Nat
    BY <2>4
  <2>6. ASSUME NEW k \in 1 .. n
        PROVE  /\ Len(Begun(k)) = Len(Begun(k - 1)) + Len(c[k])
               /\ \A m \in 1 .. Len(Begun(k - 1)) : Begun(k)[m] = Begun(k - 1)[m]
               /\ \A m \in 1 .. Len(c[k]) : Begun(k)[Len(Begun(k - 1)) + m] = c[k][m]
               /\ Len(c[k]) \in Nat
    <3>1. k - 1 \in 0 .. n /\ c[k] \in Seq(Bit) /\ Begun(k - 1) \in Seq(Bit)
      <4>1. k - 1 \in 0 .. n
        BY <2>0
      <4>2. QED
        BY <1>0, <2>5, <4>1
    <3>2. Begun(k) = Begun(k - 1) \o c[k]
      BY <2>2, <3>1
    <3> DEFINE a == Begun(k - 1)
               b == c[k]
    <3>3. Len(a) \in Nat /\ Len(b) \in Nat
      BY <3>1
    <3> HIDE DEF a, b
    <3>4. a \in Seq(Bit) /\ b \in Seq(Bit) /\ Begun(k) = a \o b
      BY <3>1, <3>2 DEF a, b
    <3>5. /\ Len(a \o b) = Len(a) + Len(b)
          /\ \A m \in 1 .. Len(a) + Len(b) : (a \o b)[m] = IF m <= Len(a) THEN a[m] ELSE b[m - Len(a)]
      BY <3>4, ConcatProperties
    <3>6. ASSUME NEW m \in 1 .. Len(a) PROVE (a \o b)[m] = a[m]
      <4>1. m \in 1 .. Len(a) + Len(b) /\ m <= Len(a)
        BY <3>3
      <4>2. QED
        BY <3>5, <4>1
    <3>7. ASSUME NEW m \in 1 .. Len(b) PROVE (a \o b)[Len(a) + m] = b[m]
      <4>1. Len(a) + m \in 1 .. Len(a) + Len(b) /\ ~(Len(a) + m <= Len(a)) /\ (Len(a) + m) - Len(a) = m
        BY <3>3
      <4>2. QED
        BY <3>5, <4>1
    <3>8. QED
      BY <3>3, <3>4, <3>5, <3>6, <3>7 DEF a, b
  <2>7. ASSUME NEW k \in 1 .. n
        PROVE  /\ Len(Begun(k)) <= Len(Begun(n))
               /\ \A m \in 1 .. Len(c[k]) : Begun(n)[Len(Begun(k - 1)) + m] = c[k][m]
    <3> DEFINE Kept(q) == /\ Len(Begun(k)) <= Len(Begun(q))
                          /\ \A m \in 1 .. Len(c[k]) : Begun(q)[Len(Begun(k - 1)) + m] = c[k][m]
               U == {q \in 0 .. n : q >= k => Kept(q)}
    <3>0. k \in 0 .. n /\ k - 1 \in 0 .. n /\ Len(Begun(k)) \in Nat /\ Len(Begun(k - 1)) \in Nat
      <4>1. k \in 0 .. n /\ k - 1 \in 0 .. n
        BY <2>0
      <4>2. QED
        BY <2>5, <4>1
    <3>1. Kept(k)
      <4>1. Len(Begun(k)) <= Len(Begun(k))
        BY <3>0
      <4>2. QED
        BY <2>6, <4>1
    <3>2. ASSUME NEW q \in k .. n - 1, Kept(q) PROVE Kept(q + 1)
      <4>1. q + 1 \in 1 .. n /\ (q + 1) - 1 = q /\ q \in 0 .. n /\ q + 1 \in 0 .. n
        BY <2>0, <3>0
      <4>2. Len(Begun(q)) \in Nat /\ Len(Begun(q + 1)) \in Nat
        BY <2>5, <4>1
      <4> DEFINE l == q + 1
      <4>3. /\ Len(Begun(q + 1)) = Len(Begun(q)) + Len(c[q + 1]) /\ Len(c[q + 1]) \in Nat
            /\ \A m \in 1 .. Len(Begun(q)) : Begun(q + 1)[m] = Begun(q)[m]
        <5>1. l \in 1 .. n /\ l - 1 = q
          BY <4>1
        <5> HIDE DEF l
        <5>2. Len(Begun(l)) = Len(Begun(l - 1)) + Len(c[l]) /\ Len(c[l]) \in Nat
          BY <2>6, <5>1
        <5>3. \A m \in 1 .. Len(Begun(l - 1)) : Begun(l)[m] = Begun(l - 1)[m]
          BY <2>6, <5>1
        <5>4. QED
          BY <5>1, <5>2, <5>3 DEF l
      <4>4. Len(Begun(k)) <= Len(Begun(q)) /\ Len(Begun(k)) = Len(Begun(k - 1)) + Len(c[k]) /\ Len(c[k]) \in Nat
        BY <2>6, <3>2
      <4> DEFINE g == Len(Begun(k - 1))
                 h == Len(Begun(k))
                 u == Len(Begun(q))
                 v == Len(Begun(q + 1))
                 d == Len(c[k])
                 e == Len(c[q + 1])
      <4>8. /\ g \in Nat /\ h \in Nat /\ u \in Nat /\ v \in Nat /\ d \in Nat /\ e \in Nat
            /\ v = u + e /\ h <= u /\ h = g + d
        BY <3>0, <4>2, <4>3, <4>4
      <4> HIDE DEF g, h, u, v, d, e
      <4>9. h <= v /\ \A m \in 1 .. d : g + m \in 1 .. u
        BY <4>8
      <4>5. Len(Begun(k)) <= Len(Begun(q + 1))
        BY <4>9 DEF h, v
      <4>6. ASSUME NEW m \in 1 .. Len(c[k]) PROVE Begun(q + 1)[Len(Begun(k - 1)) + m] = c[k][m]
        <5>1. Len(Begun(k - 1)) + m \in 1 .. Len(Begun(q))
          BY <4>9 DEF d, g, u
        <5>2. Begun(q)[Len(Begun(k - 1)) + m] = c[k][m]
          BY <3>2
        <5>3. QED
          BY <4>3, <5>1, <5>2
      <4>7. QED
        BY <4>5, <4>6
    <3> HIDE DEF Kept
    <3>3. 0 \in U
      BY <2>0, <3>0
    <3>4. ASSUME NEW q \in 0 .. n - 1, q \in U PROVE q + 1 \in U
      <4>1. q + 1 \in 0 .. n /\ (q + 1 >= k => q + 1 = k \/ q \in k .. n - 1)
        BY <2>0, <3>0
      <4>2. q \in k .. n - 1 => Kept(q)
        BY <3>0, <3>4
      <4>3. q + 1 >= k => Kept(q + 1)
        BY <3>1, <3>2, <4>1, <4>2
      <4>4. QED
        BY <4>1, <4>3
    <3> HIDE DEF U
    <3>5. 0 .. n \subseteq U
      BY <1>0, <3>3, <3>4, AlongNumbers
    <3>6. n \in 0 .. n /\ n >= k
      BY <2>0
    <3>7. Kept(n)
      BY <3>5, <3>6 DEF U
    <3>8. QED
      BY <3>7 DEF Kept
  <2> DEFINE off == [k \in 0 .. n |-> Len(Begun(k))]
  <2>8. off \in [0 .. n -> Nat] /\ \A k \in 0 .. n : off[k] = Len(Begun(k))
    BY <2>5
  <2> HIDE DEF off
  <2>9. off[0] = 0 /\ off[n] = Len(FlattenSeq(c)) /\ FlattenSeq(c) \in Seq(Bit)
    <3>1. 0 \in 0 .. n /\ n \in 0 .. n
      BY <2>0
    <3>2. QED
      BY <2>3, <2>5, <2>8, <3>1
  <2>10. ASSUME NEW k \in 1 .. n
         PROVE  /\ off[k] = off[k - 1] + Len(c[k]) /\ off[k] <= off[n]
                /\ \A m \in 1 .. Len(c[k]) : FlattenSeq(c)[off[k - 1] + m] = c[k][m]
    <3>1. k \in 0 .. n /\ k - 1 \in 0 .. n /\ n \in 0 .. n
      BY <2>0
    <3>2. off[k] = Len(Begun(k)) /\ off[k - 1] = Len(Begun(k - 1)) /\ off[n] = Len(Begun(n))
      BY <2>8, <3>1
    <3>3. QED
      BY <2>3, <2>6, <2>7, <3>2
  <2>11. QED
    BY <2>8, <2>9, <2>10 DEF n
<1>3. QED
  BY <1>1, <1>2

-----------------------------------------------------------------------------
(* The devices that have an IDCODE, counted along the chain.               *)
LEMMA IdentifiedCount ==
  ASSUME NEW c, NEW n \in Nat
  PROVE  /\ Identified(c, n) \in SUBSET (1 .. n) /\ IsFiniteSet(Identified(c, n))
         /\ Cardinality(Identified(c, n)) \in Nat
         /\ Cardinality(Identified(c, n)) = 0 <=> Identified(c, n) = {}
<1>1. Identified(c, n) \in SUBSET (1 .. n) /\ IsFiniteSet(1 .. n)
  BY FS_Interval DEF Identified
<1> DEFINE I == Identified(c, n)
<1>2. IsFiniteSet(I)
  BY <1>1, FS_Subset
<1> HIDE DEF I
<1>3. Cardinality(I) \in Nat /\ (Cardinality(I) = 0 <=> I = {})
  BY <1>2, FS_CardinalityType, FS_EmptySet
<1>4. QED
  BY <1>1, <1>2, <1>3 DEF I

LEMMA IdentifiedNext ==
  ASSUME NEW c, NEW n \in Nat
  PROVE  /\ Identified(c, 0) = {}
         /\ c[n + 1] = BYPASS => Identified(c, n + 1) = Identified(c, n)
         /\ c[n + 1] # BYPASS =>
              /\ Identified(c, n + 1) = Identified(c, n) \union {n + 1}
              /\ Cardinality(Identified(c, n + 1)) = Cardinality(Identified(c, n)) + 1
<1>1. Identified(c, 0) = {} /\ 1 .. n + 1 = (1 .. n) \union {n + 1}
  BY DEF Identified
<1>2. c[n + 1] = BYPASS => Identified(c, n + 1) = Identified(c, n)
  BY <1>1, Zenon DEF Identified
<1>3. c[n + 1] # BYPASS => Identified(c, n + 1) = Identified(c, n) \union {n + 1}
  BY <1>1, Zenon DEF Identified
<1> DEFINE I == Identified(c, n)
           J == Identified(c, n + 1)
<1>4. IsFiniteSet(I) /\ n + 1 \notin I
  BY IdentifiedCount
<1>5. c[n + 1] # BYPASS => J = I \union {n + 1}
  BY <1>3
<1> HIDE DEF I, J
<1>6. Cardinality(I \union {n + 1}) = Cardinality(I) + 1
  BY <1>4, FS_AddElement
<1>7. c[n + 1] # BYPASS => Cardinality(J) = Cardinality(I) + 1
  BY <1>5, <1>6
<1>8. QED
  BY <1>1, <1>2, <1>3, <1>7 DEF I, J

LEMMA IdentifiedRanks ==
  ASSUME NEW c, NEW n \in Nat, NEW k \in Identified(c, n)
  PROVE  Cardinality(Identified(c, k)) \in 1 .. Cardinality(Identified(c, n))
<1>1. k \in 1 .. n /\ k \in Nat /\ Identified(c, k) \in SUBSET Identified(c, n) /\ k \in Identified(c, k)
  BY DEF Identified
<1> DEFINE I == Identified(c, n)
           J == Identified(c, k)
<1>2. IsFiniteSet(I) /\ Cardinality(I) \in Nat /\ Cardinality(J) \in Nat /\ (Cardinality(J) = 0 <=> J = {})
  BY <1>1, IdentifiedCount
<1>3. J \in SUBSET I /\ k \in J
  BY <1>1
<1> HIDE DEF I, J
<1>4. Cardinality(J) <= Cardinality(I) /\ Cardinality(J) # 0
  BY <1>2, <1>3, FS_Subset
<1>5. QED
  BY <1>2, <1>4 DEF I, J

(* D is what a scan reports of the first n devices of the chain c.         *)
Found(c, D, n) ==
  /\ D \in Seq(IdCode)
  /\ Len(D) = Cardinality(Identified(c, n))
  /\ \A k \in Identified(c, n) : D[Cardinality(Identified(c, k))] = c[k]
  /\ \/ Identified(c, n) = {}
     \/ \E k \in Identified(c, n) : \A q \in Identified(c, n) : q <= k

LEMMA FoundNothing == ASSUME NEW c PROVE Found(c, <<>>, 0)
<1>1. Identified(c, 0) = {} /\ Cardinality(Identified(c, 0)) = 0
  BY IdentifiedNext, FS_EmptySet
<1>2. QED
  BY <1>1 DEF Found

LEMMA FoundMore ==
  ASSUME NEW c, NEW D, NEW n \in Nat, Found(c, D, n)
  PROVE  /\ c[n + 1] = BYPASS => Found(c, D, n + 1)
         /\ c[n + 1] \in IdCode => Found(c, Append(D, c[n + 1]), n + 1)
<1>1. c[n + 1] = BYPASS => Found(c, D, n + 1)
  BY IdentifiedNext DEF Found
<1>2. ASSUME c[n + 1] \in IdCode PROVE Found(c, Append(D, c[n + 1]), n + 1)
  <2> DEFINE A == Append(D, c[n + 1])
             I == Identified(c, n)
             J == Identified(c, n + 1)
  <2>1. J = I \union {n + 1} /\ Cardinality(J) = Cardinality(I) + 1
    BY <1>2, DevicesAreBits, IdentifiedNext
  <2>2. D \in Seq(IdCode) /\ Len(D) = Cardinality(I) /\ Cardinality(I) \in Nat
    BY IdentifiedCount DEF Found
  <2>3. /\ A \in Seq(IdCode) /\ Len(A) = Len(D) + 1 /\ A[Len(D) + 1] = c[n + 1]
        /\ \A q \in 1 .. Len(D) : A[q] = D[q]
    BY <1>2, <2>2, AppendProperties
  <2> HIDE DEF A
  <2>4. ASSUME NEW k \in J PROVE A[Cardinality(Identified(c, k))] = c[k]
    <3>1. CASE k = n + 1
      BY <2>1, <2>2, <2>3, <3>1
    <3>2. CASE k \in I
      <4>1. Cardinality(Identified(c, k)) \in 1 .. Len(D)
        BY <2>2, <3>2, IdentifiedRanks
      <4>2. D[Cardinality(Identified(c, k))] = c[k]
        BY <3>2 DEF Found
      <4>3. QED
        BY <2>3, <4>1, <4>2
    <3>3. QED
      BY <2>1, <3>1, <3>2
  <2>5. \A q \in J : q <= n + 1
    BY <2>1, IdentifiedCount
  <2>6. n + 1 \in J
    BY <2>1
  <2> HIDE DEF I, J
  <2>7. Len(A) = Cardinality(J)
    BY <2>1, <2>2, <2>3
  <2>8. QED
    BY <2>3, <2>4, <2>5, <2>6, <2>7 DEF A, J, Found
<1>3. QED
  BY <1>1, <1>2

-----------------------------------------------------------------------------
(* What the walks of a scan do: Capture-DR once, from Test-Logic-Reset.    *)
LEMMA ScanCaptures ==
  ASSUME NEW d \in DevState, NEW c
  PROVE  LET reset == WalkTo(WireAt(INIT, d), RESET)
             w == WalkTo([reset EXCEPT !.seen = {}, !.shifts = 0], DRSHIFT)
         IN  w.rc = 0 /\ Captured(c, reset, w) = FlattenSeq(c)
<1> DEFINE start == WireAt(INIT, d)
           reset == WalkTo(start, RESET)
           y == [reset EXCEPT !.seen = {}, !.shifts = 0]
           w == WalkTo(y, DRSHIFT)
<1>0. /\ INIT \in TapState /\ RESET \in Reachable /\ DRSHIFT \in Reachable /\ RESET \in DevState
      /\ RESET \in WalkTarget /\ DRSHIFT \in WalkTarget /\ DRSHIFT \in DevState
      /\ RESET # INIT /\ RESET \notin ShiftState /\ DRSHIFT # INIT
  BY DEF TapState, DevState, WalkTarget, Reachable, ShiftState, INIT, RESET, DRSHIFT, IRSHIFT,
         DREXIT2, IREXIT2, IRUPDATE, BADSTATE
<1>1. start \in Tracked /\ start.rc = 0
  BY <1>0, WireAtType DEF Tracked
<1> HIDE DEF start
<1>2. reset \in Tracked /\ reset.rc = 0 /\ reset.tap = RESET
  BY <1>0, <1>1, WalkTracks, WalkArrives
<1> HIDE DEF reset
<1>3. reset.dev = RESET
  BY <1>0, <1>2 DEF Tracked
<1>4. y \in Tracked /\ y.rc = 0 /\ y.tap = RESET /\ y.seen = {} /\ y.shifts = 0
  BY <1>0, <1>2, <1>3 DEF Tracked, Wires
<1> HIDE DEF y
<1>5. w \in Tracked /\ w.rc = 0 /\ w.tap = DRSHIFT
  BY <1>0, <1>4, WalkTracks, WalkArrives
<1>6. w.shifts = 0
  BY <1>0, <1>4, WalkShiftsNothing
<1> DEFINE Before == {IDLE, DRSELECT}
           Behind == {DRCAPTURE, DRSHIFT}
           W == {x \in Tracked : \/ x.tap \in Before \union {RESET} /\ x.seen \subseteq Before
                                 \/ /\ x.tap \in Behind /\ DRCAPTURE \in x.seen
                                    /\ x.seen \subseteq Before \union Behind}
<1>7. ASSUME NEW x \in W PROVE Stepped(x, DRSHIFT) \in W
  <2> DEFINE t == WalkStep(x.tap, DRSHIFT).to
  <2>1. CASE x.tap = DRSHIFT
    BY <1>0, <2>1, SteppedTracks
  <2>2. CASE x.tap # DRSHIFT
    <3>1. /\ x.tap \notin {INIT, DRSHIFT} /\ x.tap \in {RESET, IDLE, DRSELECT, DRCAPTURE}
          /\ x.tap \in {RESET, IDLE} => t \in Before
          /\ x.tap = DRSELECT => t = DRCAPTURE
          /\ x.tap = DRCAPTURE => t = DRSHIFT
      BY <2>2 DEF WalkStep, Clock, INIT, RESET, IDLE, DRSELECT, DRCAPTURE, DRSHIFT, DREXIT1, DRPAUSE,
         DREXIT2, DRUPDATE, IRSELECT, IRCAPTURE, IRSHIFT, IREXIT1, IRPAUSE, IREXIT2, IRUPDATE
    <3>2. Stepped(x, DRSHIFT) \in Tracked /\ Stepped(x, DRSHIFT).tap = t /\ Stepped(x, DRSHIFT).seen = x.seen \union {t}
      BY <1>0, <3>1, SteppedTracks
    <3>3. x.tap = DRCAPTURE => x.tap \notin Before \union {RESET}
      BY DEF RESET, IDLE, DRSELECT, DRCAPTURE
    <3>4. x.tap \in {RESET, IDLE, DRSELECT} => x.tap \notin Behind
      BY DEF RESET, IDLE, DRSELECT, DRCAPTURE, DRSHIFT
    <3> HIDE DEF t
    <3>5. CASE x.tap \in {RESET, IDLE}
      BY <3>1, <3>2, <3>4, <3>5
    <3>6. CASE x.tap = DRSELECT
      BY <3>1, <3>2, <3>4, <3>6
    <3>7. CASE x.tap = DRCAPTURE
      BY <3>1, <3>2, <3>3, <3>7
    <3>8. QED
      BY <3>1, <3>5, <3>6, <3>7
  <2>3. QED
    BY <2>1, <2>2
<1>8. ASSUME NEW x \in W PROVE [x EXCEPT !.rc = -1] \in W
  BY FailedIsTracked
<1>9. y \in W /\ W \in SUBSET Wires
  BY <1>4 DEF Tracked
<1> HIDE DEF W
<1>10. w \in W
  BY <1>0, <1>7, <1>8, <1>9, WalkStays
<1>11. DRCAPTURE \in w.seen /\ {RESET, IRCAPTURE} \intersect w.seen = {}
  <2>1. DRSHIFT \notin Before \union {RESET} /\ RESET \notin Before \union Behind /\ IRCAPTURE \notin Before \union Behind
    BY DEF RESET, IDLE, DRSELECT, DRCAPTURE, DRSHIFT, IRCAPTURE
  <2>2. QED
    BY <1>5, <1>10, <2>1 DEF W
<1>12. w.dev = DRSHIFT
  BY <1>0, <1>5 DEF Tracked
<1> HIDE DEF w
<1>13. Captured(c, reset, w) = FlattenSeq(c)
  BY <1>3, <1>6, <1>11, <1>12 DEF Captured
<1>14. QED
  BY <1>5, <1>13 DEF w, y, reset, start

(* The function of a scan's rounds exists, and is what the scan computes.  *)
NoneYet == [pulses |-> 0, devices |-> <<>>, over |-> FALSE]

IsScan(f, bits) ==
  f = [k \in 0 .. MaxDevices |->
         IF k = 0 THEN NoneYet
         ELSE IF f[k - 1].over THEN f[k - 1] ELSE Looked(bits, f[k - 1])]

LEMMA RoundsExist ==
  ASSUME NEW bits, MaxDevices \in Nat
  PROVE  \E f : IsScan(f, bits)
<1> DEFINE Value(f, k) == IF k = 0 THEN NoneYet
                         ELSE IF f[k - 1].over THEN f[k - 1] ELSE Looked(bits, f[k - 1])
           Is(f, m) == f = [k \in 0 .. m |-> Value(f, k)]
           n == MaxDevices
           T == {m \in 0 .. n : \E f : Is(f, m)}
<1>1. 0 \in T
  <2> DEFINE f == [k \in 0 .. 0 |-> NoneYet]
  <2>1. Is(f, 0)
    OBVIOUS
  <2> HIDE DEF f
  <2>2. \E g : Is(g, 0)
    BY <2>1
  <2> HIDE DEF Is
  <2>3. QED
    BY <2>2
<1>2. ASSUME NEW m \in 0 .. n - 1, m \in T PROVE m + 1 \in T
  <2>1. PICK f : Is(f, m)
    BY <1>2
  <2> DEFINE g == [k \in 0 .. m + 1 |-> IF k <= m THEN f[k] ELSE Value(f, m + 1)]
  <2>2. ASSUME NEW k \in 0 .. m + 1 PROVE Value(g, k) = Value(f, k)
    <3>1. CASE k = 0
      BY <3>1
    <3>2. CASE k # 0
      <4>1. k - 1 \in 0 .. m /\ k - 1 \in 0 .. m + 1 /\ k - 1 <= m
        BY <3>2
      <4>2. g[k - 1] = f[k - 1]
        BY <4>1
      <4> HIDE DEF g
      <4>3. QED
        BY <4>2
    <3>3. QED
      BY <3>1, <3>2
  <2>3. ASSUME NEW k \in 0 .. m + 1 PROVE g[k] = Value(f, k)
    <3> HIDE DEF Value
    <3>1. k <= m \/ k = m + 1
      OBVIOUS
    <3>2. k <= m => f[k] = Value(f, k)
      BY <2>1
    <3>3. QED
      BY <3>1, <3>2
  <2>4. g = [k \in 0 .. m + 1 |-> g[k]]
    OBVIOUS
  <2> HIDE DEF g, Value
  <2>5. Is(g, m + 1)
    BY <2>2, <2>3, <2>4
  <2>6. m + 1 \in 0 .. n
    OBVIOUS
  <2>7. QED
    BY <2>5, <2>6
<1> HIDE DEF T
<1>3. 0 .. n \subseteq T
  BY <1>1, <1>2, AlongNumbers
<1>4. QED
  BY <1>3 DEF T, IsScan

LEMMA ScanRounds ==
  ASSUME NEW d \in DevState, NEW c
  PROVE  \E f : /\ f[0] = NoneYet
                /\ \A k \in 1 .. MaxDevices :
                     f[k] = IF f[k - 1].over THEN f[k - 1] ELSE Looked(FlattenSeq(c), f[k - 1])
                /\ libxsvf_scan(d, c) = f[MaxDevices]
<1> DEFINE bits == FlattenSeq(c)
           F == CHOOSE f : IsScan(f, bits)
           reset == WalkTo(WireAt(INIT, d), RESET)
           w == WalkTo([reset EXCEPT !.seen = {}, !.shifts = 0], DRSHIFT)
<1>0. MaxDevices \in Nat /\ MaxDevices # 0
  BY ScanAssumption
<1>1. w.rc = 0 /\ Captured(c, reset, w) = bits
  BY ScanCaptures
<1> HIDE DEF bits
<1>2. \E f : IsScan(f, bits)
  BY <1>0, RoundsExist
<1>3. IsScan(F, bits)
  BY <1>2
<1>4. libxsvf_scan(d, c) = F[MaxDevices]
  <2>1. libxsvf_scan(d, c) =
          LET b == Captured(c, reset, w)
              round[n \in 0 .. MaxDevices] ==
                IF n = 0 THEN NoneYet
                ELSE IF round[n - 1].over THEN round[n - 1] ELSE Looked(b, round[n - 1])
          IN  IF w.rc < 0 THEN [NoneYet EXCEPT !.over = TRUE] ELSE round[MaxDevices]
    BY DEF libxsvf_scan, NoneYet
  <2> HIDE DEF reset, w
  <2>2. QED
    BY <1>1, <2>1 DEF IsScan
<1> HIDE DEF F
<1>5. F[0] = NoneYet
  BY <1>0, <1>3 DEF IsScan
<1>6. ASSUME NEW k \in 1 .. MaxDevices
      PROVE  F[k] = IF F[k - 1].over THEN F[k - 1] ELSE Looked(bits, F[k - 1])
  BY <1>0, <1>3 DEF IsScan
<1>7. QED
  BY <1>4, <1>5, <1>6 DEF bits

(* The records of a scan's rounds, the bits that may be an IDCODE.         *)
Going(p, D) == [pulses |-> p, devices |-> D, over |-> FALSE]
Ended(p, D) == [pulses |-> p, devices |-> D, over |-> TRUE]
CodeAt(bits, p)   == [k \in 1 .. IdBits |-> Tdo(bits, p + k - 1)]

LEMMA LookedNow ==
  ASSUME NEW bits, NEW p, NEW D
  PROVE  /\ Tdo(bits, p) = 0 => Looked(bits, Going(p, D)) = Going(p + 1, D)
         /\ Tdo(bits, p) # 0 /\ CodeAt(bits, p) # Ones =>
              Looked(bits, Going(p, D)) = Going(p + IdBits, Append(D, CodeAt(bits, p)))
         /\ Tdo(bits, p) # 0 /\ CodeAt(bits, p) = Ones =>
              Looked(bits, Going(p, D)) = Ended(p + IdBits, D)
<1> DEFINE r == Going(p, D)
           code == CodeAt(bits, p)
<1>1. r.pulses = p /\ r.devices = D
  BY DEF Going, Ended
<1>2. Looked(bits, r) = IF Tdo(bits, p) = 0 THEN [r EXCEPT !.pulses = p + 1]
                        ELSE [r EXCEPT !.pulses = p + IdBits, !.over = code = Ones,
                                       !.devices = IF code = Ones THEN D ELSE Append(D, code)]
  BY <1>1 DEF Looked, CodeAt
<1> HIDE DEF code
<1>0. r = [pulses |-> p, devices |-> D, over |-> FALSE]
  BY DEF Going
<1> HIDE DEF r
<1> DEFINE Type(E) == [pulses : {p, p + 1, p + IdBits}, devices : {D, E}, over : BOOLEAN]
<1>t. ASSUME NEW E, NEW x \in Type(E), NEW y \in Type(E),
             x.pulses = y.pulses, x.devices = y.devices, x.over = y.over
      PROVE  x = y
  BY <1>t
<1>3. [r EXCEPT !.pulses = p + 1] = Going(p + 1, D)
  <2> DEFINE x == [r EXCEPT !.pulses = p + 1]
             y == Going(p + 1, D)
  <2>1. y \in Type(D) /\ y.pulses = p + 1 /\ y.devices = D /\ y.over = FALSE
    BY DEF Going
  <2>2. x \in Type(D) /\ x.pulses = p + 1 /\ x.devices = D /\ x.over = FALSE
    BY <1>0
  <2> HIDE DEF x, y, Type
  <2>3. x = y
    BY <1>t, <2>1, <2>2
  <2>4. QED
    BY <2>3 DEF x, y
<1>4. ASSUME NEW E PROVE [r EXCEPT !.pulses = p + IdBits, !.over = TRUE, !.devices = E] = Ended(p + IdBits, E)
  <2> DEFINE x == [r EXCEPT !.pulses = p + IdBits, !.over = TRUE, !.devices = E]
             y == Ended(p + IdBits, E)
  <2>1. y \in Type(E) /\ y.pulses = p + IdBits /\ y.devices = E /\ y.over = TRUE
    BY DEF Ended
  <2>2. x \in Type(E) /\ x.pulses = p + IdBits /\ x.devices = E /\ x.over = TRUE
    BY <1>0
  <2> HIDE DEF x, y, Type
  <2>3. x = y
    BY <1>t, <2>1, <2>2
  <2>4. QED
    BY <2>3 DEF x, y
<1>5. ASSUME NEW E PROVE [r EXCEPT !.pulses = p + IdBits, !.over = FALSE, !.devices = E] = Going(p + IdBits, E)
  <2> DEFINE x == [r EXCEPT !.pulses = p + IdBits, !.over = FALSE, !.devices = E]
             y == Going(p + IdBits, E)
  <2>1. y \in Type(E) /\ y.pulses = p + IdBits /\ y.devices = E /\ y.over = FALSE
    BY DEF Going
  <2>2. x \in Type(E) /\ x.pulses = p + IdBits /\ x.devices = E /\ x.over = FALSE
    BY <1>0
  <2> HIDE DEF x, y, Type
  <2>3. x = y
    BY <1>t, <2>1, <2>2
  <2>4. QED
    BY <2>3 DEF x, y
<1>6. CASE Tdo(bits, p) = 0
  BY <1>2, <1>3, <1>6 DEF r
<1>7. CASE Tdo(bits, p) # 0 /\ code # Ones
  <2>1. Looked(bits, r) = [r EXCEPT !.pulses = p + IdBits, !.over = FALSE, !.devices = Append(D, code)]
    BY <1>2, <1>7
  <2>2. QED
    BY <1>5, <1>7, <2>1 DEF r, code
<1>8. CASE Tdo(bits, p) # 0 /\ code = Ones
  <2>1. Looked(bits, r) = [r EXCEPT !.pulses = p + IdBits, !.over = TRUE, !.devices = D]
    BY <1>2, <1>8
  <2>2. QED
    BY <1>4, <1>8, <2>1 DEF r, code
<1>9. QED
  BY <1>6, <1>7, <1>8 DEF code

(* Round by round, the scan is at a device's first bit.                    *)
LEMMA ScanFinds ==
  ASSUME NEW d \in DevState, NEW c \in Seq(Devices)
  PROVE  /\ Found(c, libxsvf_scan(d, c).devices, IF Len(c) <= MaxDevices THEN Len(c) ELSE MaxDevices)
         /\ libxsvf_scan(d, c).pulses <= Len(FlattenSeq(c)) + IdBits
<1> DEFINE bits == FlattenSeq(c)
           n == Len(c)
<1>0. IdBits \in Nat /\ IdBits # 0 /\ MaxDevices \in Nat /\ MaxDevices # 0
  BY ScanAssumption
<1>1. n \in Nat /\ c \in Seq(Seq(Bit)) /\ \A k \in 1 .. n : c[k] \in Devices
  BY DevicesAreBits
<1>2. PICK off \in [0 .. n -> Nat] :
        /\ off[0] = 0 /\ off[n] = Len(bits)
        /\ \A k \in 1 .. n :
             /\ off[k] = off[k - 1] + Len(c[k]) /\ off[k] <= off[n]
             /\ \A m \in 1 .. Len(c[k]) : bits[off[k - 1] + m] = c[k][m]
  BY <1>1, FlattenPlaces
<1>3. PICK f : /\ f[0] = NoneYet
               /\ \A k \in 1 .. MaxDevices :
                    f[k] = IF f[k - 1].over THEN f[k - 1] ELSE Looked(bits, f[k - 1])
               /\ libxsvf_scan(d, c) = f[MaxDevices]
  BY ScanRounds
<1> HIDE DEF bits, n
<1> DEFINE Before(k) == /\ f[k] = Going(off[k], f[k].devices)
                        /\ Found(c, f[k].devices, k)
           Behind(k) == /\ f[k] = Ended(off[n] + IdBits, f[k].devices)
                        /\ Found(c, f[k].devices, n)
<1>r. \A p, D : /\ Going(p, D).pulses = p /\ Going(p, D).devices = D /\ Going(p, D).over = FALSE
                /\ Ended(p, D).pulses = p /\ Ended(p, D).devices = D /\ Ended(p, D).over = TRUE
  BY DEF Going, Ended
<1>4. Before(0)
  <2>1. f[0] = Going(off[0], <<>>)
    BY <1>2, <1>3 DEF NoneYet, Going
  <2>2. f[0].devices = <<>>
    BY <1>r, <2>1
  <2>3. QED
    BY <2>1, <2>2, FoundNothing
<1>5. ASSUME NEW k \in 0 .. MaxDevices - 1, k < n, Before(k) PROVE Before(k + 1)
  <2> DEFINE p == off[k]
             D == f[k].devices
             device == c[k + 1]
             code == CodeAt(bits, p)
  <2>1. k \in Nat /\ k \in 0 .. n /\ k + 1 \in 1 .. n /\ k + 1 \in 1 .. MaxDevices /\ (k + 1) - 1 = k /\ k + 1 \in 0 .. n
    BY <1>0, <1>1, <1>5
  <2>2. f[k] = Going(p, D) /\ Found(c, D, k)
    BY <1>5
  <2>3. f[k + 1] = Looked(bits, f[k])
    <3>1. f[k].over = FALSE
      BY <1>r, <2>2
    <3>2. f[k + 1] = IF f[k].over THEN f[k] ELSE Looked(bits, f[k])
      BY <1>3, <2>1
    <3>3. QED
      BY <3>1, <3>2
  <2>4. /\ off[k + 1] = p + Len(device) /\ off[k + 1] <= Len(bits) /\ p \in Nat /\ device \in Devices
        /\ \A m \in 1 .. Len(device) : bits[p + m] = device[m]
    BY <1>1, <1>2, <2>1
  <2>5. Len(bits) \in Nat
    <3>1. n \in 0 .. n
      BY <1>1
    <3>2. QED
      BY <1>2, <3>1
  <2> HIDE DEF p, D, device
  <2>6. ASSUME NEW m \in 1 .. Len(device), Len(device) \in Nat PROVE Tdo(bits, p + m - 1) = device[m]
    <3>1. p + m - 1 < Len(bits) /\ (p + m - 1) + 1 = p + m
      BY <2>4, <2>5, <2>6
    <3>2. QED
      BY <2>4, <3>1 DEF Tdo
  <2>7. CASE device = BYPASS
    <3>1. Len(device) = 1 /\ device[1] = 0 /\ 1 \in 1 .. 1 /\ p + 1 - 1 = p
      BY <2>4, <2>7, DevicesAreBits
    <3>2. Tdo(bits, p) = 0
      BY <2>6, <3>1
    <3>3. f[k + 1] = Going(p + 1, D)
      <4>1. Looked(bits, f[k]) = Going(p + 1, D)
        BY <2>2, <3>2, LookedNow
      <4>2. QED
        BY <2>3, <4>1
    <3>4. f[k + 1].devices = D /\ off[k + 1] = p + 1
      BY <1>r, <2>4, <3>1, <3>3
    <3>5. Found(c, D, k + 1)
      BY <2>1, <2>2, <2>7, FoundMore DEF device
    <3>6. QED
      BY <3>3, <3>4, <3>5
  <2>8. CASE device \in IdCode
    <3>1. /\ Len(device) = IdBits /\ device[1] = 1 /\ device # Ones /\ 1 \in 1 .. IdBits /\ p + 1 - 1 = p
          /\ device = [m \in 1 .. IdBits |-> device[m]]
      BY <1>0, <2>4, <2>8, DevicesAreBits
    <3>2. Tdo(bits, p) = 1
      BY <1>0, <2>6, <3>1
    <3>3. code = device
      BY <1>0, <2>6, <3>1 DEF CodeAt
    <3>4. f[k + 1] = Going(p + IdBits, Append(D, device))
      <4>2. Tdo(bits, p) # 0 /\ code # Ones
        BY <3>1, <3>2, <3>3
      <4>3. Looked(bits, f[k]) = Going(p + IdBits, Append(D, code))
        BY <2>2, <4>2, LookedNow
      <4>4. QED
        BY <2>3, <3>3, <4>3
    <3>5. f[k + 1].devices = Append(D, device) /\ off[k + 1] = p + IdBits
      <4>1. f[k + 1].devices = Append(D, device)
        <5> DEFINE A == Append(D, device)
        <5> HIDE DEF A
        <5>1. f[k + 1] = Going(p + IdBits, A)
          BY <3>4 DEF A
        <5>2. f[k + 1].devices = A
          BY <1>r, <5>1
        <5>3. QED
          BY <5>2 DEF A
      <4>2. QED
        BY <2>4, <3>1, <4>1
    <3>6. Found(c, Append(D, device), k + 1)
      BY <2>1, <2>2, <2>8, FoundMore DEF device
    <3>7. QED
      BY <3>4, <3>5, <3>6
  <2>9. QED
    BY <2>4, <2>7, <2>8 DEF Devices
<1>6. ASSUME n \in 0 .. MaxDevices - 1, Before(n) PROVE Behind(n + 1)
  <2> DEFINE p == off[n]
             D == f[n].devices
             code == CodeAt(bits, p)
  <2>1. n + 1 \in 1 .. MaxDevices /\ (n + 1) - 1 = n /\ n \in 0 .. n
    BY <1>0, <1>1, <1>6
  <2>2. f[n] = Going(p, D) /\ Found(c, D, n)
    BY <1>6
  <2>3. f[n + 1] = Looked(bits, f[n])
    <3>1. f[n].over = FALSE
      BY <1>r, <2>2
    <3>2. f[n + 1] = IF f[n].over THEN f[n] ELSE Looked(bits, f[n])
      BY <1>3, <2>1
    <3>3. QED
      BY <3>1, <3>2
  <2>4. p \in Nat /\ p = Len(bits)
    BY <1>2, <2>1
  <2> HIDE DEF p, D
  <2>5. ASSUME NEW m \in 1 .. IdBits PROVE Tdo(bits, p + m - 1) = 1
    <3>1. ~(p + m - 1 < Len(bits))
      BY <1>0, <2>4
    <3>2. QED
      BY <3>1 DEF Tdo
  <2>6. Tdo(bits, p) = 1
    <3>1. ~(p < Len(bits))
      BY <2>4
    <3>2. QED
      BY <3>1 DEF Tdo
  <2>7. code = Ones
    BY <2>5 DEF Ones, CodeAt
  <2>8. f[n + 1] = Ended(p + IdBits, D)
    <3>2. Looked(bits, f[n]) = Ended(p + IdBits, D)
      BY <2>2, <2>6, <2>7, LookedNow
    <3>3. QED
      BY <2>3, <3>2
  <2>9. f[n + 1].devices = D
    BY <1>r, <2>8
  <2>10. QED
    BY <2>2, <2>8, <2>9 DEF p
<1>7. ASSUME NEW k \in 0 .. MaxDevices - 1, Behind(k) PROVE Behind(k + 1)
  <2>1. k + 1 \in 1 .. MaxDevices /\ (k + 1) - 1 = k
    BY <1>0
  <2>2. f[k].over = TRUE
    BY <1>r, <1>7
  <2>3. f[k + 1] = f[k]
    <3>1. f[k + 1] = IF f[k].over THEN f[k] ELSE Looked(bits, f[k])
      BY <1>3, <2>1
    <3>2. QED
      BY <2>2, <3>1
  <2>4. QED
    BY <1>7, <2>3
<1> HIDE DEF Before, Behind
<1> DEFINE T == {k \in 0 .. MaxDevices : (k <= n => Before(k)) /\ (k > n => Behind(k))}
<1>8. 0 \in T
  BY <1>0, <1>1, <1>4
<1>9. ASSUME NEW k \in 0 .. MaxDevices - 1, k \in T PROVE k + 1 \in T
  <2>1. k + 1 \in 0 .. MaxDevices /\ k \in Int
    BY <1>0
  <2>2. CASE k < n
    BY <1>1, <1>5, <1>9, <2>1, <2>2
  <2>3. CASE k = n
    <3>1. n \in 0 .. MaxDevices - 1 /\ Before(n)
      BY <1>1, <1>9, <2>3
    <3>2. Behind(n + 1)
      BY <1>6, <3>1
    <3>3. QED
      BY <1>1, <2>1, <2>3, <3>2
  <2>4. CASE k > n
    BY <1>1, <1>7, <1>9, <2>1, <2>4
  <2>5. QED
    BY <1>1, <2>1, <2>2, <2>3, <2>4
<1> HIDE DEF T
<1>10. 0 .. MaxDevices \subseteq T
  BY <1>0, <1>8, <1>9, AlongNumbers
<1>11. MaxDevices \in T
  BY <1>0, <1>10
<1> DEFINE r == f[MaxDevices]
<1>12. CASE MaxDevices <= n
  <2>1. Before(MaxDevices)
    BY <1>11, <1>12 DEF T
  <2>2. r.pulses = off[MaxDevices] /\ Found(c, r.devices, MaxDevices)
    BY <1>r, <2>1 DEF Before
  <2>3. off[MaxDevices] <= off[n] /\ off[MaxDevices] \in Nat /\ off[n] \in Nat
    <3>1. MaxDevices \in 1 .. n /\ MaxDevices \in 0 .. n /\ n \in 0 .. n
      BY <1>0, <1>1, <1>12
    <3>2. QED
      BY <1>2, <3>1
  <2>4. off[MaxDevices] <= Len(bits) + IdBits
    BY <1>0, <1>2, <2>3
  <2>5. (IF n <= MaxDevices THEN n ELSE MaxDevices) = MaxDevices
    BY <1>0, <1>1, <1>12
  <2>6. QED
    BY <1>3, <2>2, <2>4, <2>5 DEF n, bits
<1>13. CASE MaxDevices > n
  <2>1. Behind(MaxDevices)
    BY <1>11, <1>13 DEF T
  <2>2. r.pulses = off[n] + IdBits /\ Found(c, r.devices, n)
    BY <1>r, <2>1 DEF Behind
  <2>3. off[n] + IdBits <= Len(bits) + IdBits
    <3>1. n \in 0 .. n
      BY <1>1
    <3>2. off[n] \in Nat
      BY <1>2, <3>1
    <3>3. QED
      BY <1>0, <1>2, <3>2
  <2>4. (IF n <= MaxDevices THEN n ELSE MaxDevices) = n
    BY <1>0, <1>1, <1>13
  <2>5. QED
    BY <1>3, <2>2, <2>3, <2>4 DEF n, bits
<1>14. QED
  BY <1>0, <1>1, <1>12, <1>13

(* From Min and Max to numbers; then ScanFindsChain.                       *)
LEMMA ScanFindsAnyChain ==
  ASSUME NEW d \in DevState
  PROVE  ScanFindsChain(d, Seq(Devices))
<1> SUFFICES ASSUME NEW c \in Seq(Devices)
             PROVE  LET within == Identified(c, Min({Len(c), MaxDevices}))
                        scan   == libxsvf_scan(d, c)
                    IN  /\ Len(scan.devices) = Cardinality(within)
                        /\ \A k \in within : scan.devices[Cardinality(Identified(c, k))] = c[k]
                        /\ scan.pulses <= Len(FlattenSeq(c)) + IdBits
                        /\ xsvftool_esp_id(d, c) = IF within = {} THEN <<>> ELSE c[Max(within)]
  BY DEF ScanFindsChain
<1> DEFINE n == Len(c)
           m == IF n <= MaxDevices THEN n ELSE MaxDevices
           within == Identified(c, m)
           scan == libxsvf_scan(d, c)
           D == scan.devices
<1>0. n \in Nat /\ MaxDevices \in Nat
  BY ScanAssumption
<1>1. Min({n, MaxDevices}) = m
  <2> HIDE DEF n
  <2>1. m \in {n, MaxDevices} /\ \A y \in {n, MaxDevices} : m <= y
    BY <1>0
  <2>2. \A x \in {n, MaxDevices} : (\A y \in {n, MaxDevices} : x <= y) => x = m
    BY <1>0
  <2> HIDE DEF m
  <2>3. QED
    BY <2>1, <2>2 DEF Min
<1>2. Found(c, D, m) /\ scan.pulses <= Len(FlattenSeq(c)) + IdBits
  BY ScanFinds
<1>3. m \in Nat
  BY <1>0
<1> HIDE DEF m, n, scan, D
<1>4. /\ within \in SUBSET (1 .. m) /\ Cardinality(within) \in Nat
      /\ Cardinality(within) = 0 <=> within = {}
  BY <1>3, IdentifiedCount
<1>5. /\ D \in Seq(IdCode) /\ Len(D) = Cardinality(within)
      /\ \A k \in within : D[Cardinality(Identified(c, k))] = c[k]
      /\ \/ within = {}
         \/ \E k \in within : \A q \in within : q <= k
  BY <1>2 DEF Found
<1>6. xsvftool_esp_id(d, c) = IF D = <<>> THEN <<>> ELSE D[Len(D)]
  BY DEF xsvftool_esp_id, D, scan, Last
<1>7. xsvftool_esp_id(d, c) = IF within = {} THEN <<>> ELSE c[Max(within)]
  <2>1. CASE within = {}
    <3>1. D = <<>>
      BY <1>4, <1>5, <2>1, EmptySeq
    <3>2. QED
      BY <1>6, <2>1, <3>1
  <2>2. CASE within # {}
    <3>1. PICK k \in within : \A q \in within : q <= k
      BY <1>5, <2>2
    <3>2. Max(within) = k
      <4>1. \A x \in within : (\A y \in within : x >= y) => x = k
        BY <1>4, <3>1
      <4>2. \A q \in within : k >= q
        BY <1>4, <3>1
      <4> HIDE DEF within
      <4>3. QED
        BY <4>1, <4>2 DEF Max
    <3>3. Identified(c, k) = within
      <4>1. k \in 1 .. m /\ \A q \in 1 .. m : c[q] # BYPASS => q <= k
        BY <1>4, <3>1 DEF Identified
      <4>2. QED
        BY <1>3, <4>1 DEF Identified
    <3>4. D[Len(D)] = c[k] /\ D # <<>>
      BY <1>4, <1>5, <2>2, <3>3
    <3>5. QED
      BY <1>6, <2>2, <3>2, <3>4
  <2>3. QED
    BY <2>1, <2>2
<1>8. QED
  BY <1>1, <1>2, <1>5, <1>7 DEF n, D, scan

(* The scan that libxsvf_play starts finds every chain of any length,      *)
(* wherever the devices' controllers are at that moment (scan.c, tap.c).   *)
THEOREM AnyChainIsFound == Spec => []ScanFindsChain(dev, Seq(Devices))
<1>1. SyncInv => ScanFindsChain(dev, Seq(Devices))
  BY ScanFindsAnyChain DEF SyncInv, TypeOK
<1>2. QED
  BY <1>1, SyncInvHolds, PTL

(* So does it find the chains of the bounded length that the run looks at. *)
THEOREM ChainIsFoundAlways == Spec => []ChainIsFound
<1>1. ChainsUpTo(MaxDevices + 1) \subseteq Seq(Devices)
  <2>1. MaxDevices \in Nat
    BY ScanAssumption
  <2>2. ASSUME NEW n \in 0 .. MaxDevices + 1 PROVE [1 .. n -> Devices] \subseteq Seq(Devices)
    BY <2>1
  <2>3. QED
    BY <2>2 DEF ChainsUpTo, Devices
<1>2. ScanFindsChain(dev, Seq(Devices)) => ChainIsFound
  BY <1>1, Zenon DEF ChainIsFound, ScanFindsChain
<1>3. QED
  BY <1>2, AnyChainIsFound, PTL
=============================================================================
