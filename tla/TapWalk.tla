------------------------------ MODULE TapWalk -------------------------------
(***************************************************************************)
(* libxsvf_tap_walk (tap.c): the host moves the TAP of the device from     *)
(* h->tap_state to a requested state, one TCK pulse at a time. The host    *)
(* never reads the device's state: h->tap_state is its belief, and every   *)
(* command of the players relies on it being right.                        *)
(*                                                                         *)
(* A caller (a player, the final reset, a scan) asks for one walk after    *)
(* another, to any state the enum names, INIT and an unknown token's -1    *)
(* included. Between walks a player restarts from LIBXSVF_TAP_INIT         *)
(* (libxsvf_play, libxsvf_svf_packet) with the device wherever it is.      *)
(***************************************************************************)
EXTENDS TapPath

CONSTANT Targets     \* the states callers ask for

ASSUME TargetsAssumption == Targets \subseteq WalkTarget

VARIABLES
  tap_state,   \* h->tap_state
  dev,         \* state of the device's TAP controller
  pc,          \* "caller", "loop" (for header and switch), "init" (the six pulses)
  s,           \* the requested state
  i,           \* steps done by the running walk
  j,           \* pulses done by the LIBXSVF_TAP_INIT case
  rc,          \* what the last walk returned
  from,        \* history: tap_state when the last walk was called
  trail        \* history: the device states the last walk clocked through

vars == <<tap_state, dev, pc, s, i, j, rc, from, trail>>

MaxSteps == 12   \* i > 10 fails the walk at the end of its 12th iteration

TooFewPulses == 4   \* mutant
InitPulses == 6

TypeOK ==
  /\ tap_state \in TapState
  /\ dev \in DevState
  /\ pc \in {"caller", "loop", "init"}
  /\ s \in WalkTarget
  /\ i \in 0 .. MaxSteps
  /\ j \in 0 .. InitPulses
  /\ rc \in {0, -1}
  /\ from \in TapState
  /\ trail \subseteq DevState

Init ==
  /\ tap_state = INIT
  /\ dev \in DevState
  /\ pc = "caller"
  /\ s = INIT /\ i = 0 /\ j = 0 /\ rc = 0
  /\ from = INIT /\ trail = {}

(* h->pulse_tck(h, v, -1, -1, 0, 0) *)
tap_transition(v) ==
  /\ dev' = DeviceNext(dev, v)
  /\ trail' = trail \union {dev'}

(* A player starts over with an unknown device.                            *)
Open ==
  /\ pc = "caller"
  /\ tap_state' = INIT
  /\ dev' \in DevState
  /\ UNCHANGED <<pc, s, i, j, rc, from, trail>>

Call(t) ==
  /\ pc = "caller"
  /\ pc' = "loop" /\ s' = t /\ i' = 0
  /\ from' = tap_state /\ trail' = {}
  /\ UNCHANGED <<tap_state, dev, j, rc>>

Return(v) ==
  /\ pc' = "caller"
  /\ rc' = v
  /\ UNCHANGED <<s, from>>

Arrived ==
  /\ pc = "loop" /\ tap_state = s
  /\ Return(0)
  /\ UNCHANGED <<tap_state, dev, i, j, trail>>

(* Mutants of EndStep: a smaller limit, no limit, and a walk that gives up *)
(* without an error.                                                       *)
EndStepSooner ==
  \/ i > 9 /\ Return(-1) /\ UNCHANGED i
  \/ i <= 9 /\ i' = i + 1 /\ pc' = "loop" /\ UNCHANGED <<s, rc, from>>
EndStepNever ==
  i' = (IF i > 10 THEN i ELSE i + 1) /\ pc' = "loop" /\ UNCHANGED <<s, rc, from>>
EndStepSilent ==
  \/ i > 10 /\ Return(0) /\ UNCHANGED i
  \/ i <= 10 /\ i' = i + 1 /\ pc' = "loop" /\ UNCHANGED <<s, rc, from>>

(* The end of an iteration: the walk gives up after too many steps, even   *)
(* when the last one arrived.                                              *)
EndStep ==
  \/ i > 10 /\ Return(-1) /\ UNCHANGED i
  \/ i <= 10 /\ i' = i + 1 /\ pc' = "loop" /\ UNCHANGED <<s, rc, from>>

InitCase ==
  /\ pc = "loop" /\ tap_state # s /\ tap_state = INIT
  /\ pc' = "init" /\ j' = 0
  /\ UNCHANGED <<tap_state, dev, s, i, rc, from, trail>>

InitPulse ==
  /\ pc = "init" /\ j < InitPulses
  /\ tap_transition(1)
  /\ j' = j + 1
  /\ UNCHANGED <<tap_state, pc, s, i, rc, from>>

InitDone ==
  /\ pc = "init" /\ j = InitPulses
  /\ tap_state' = RESET
  /\ EndStep
  /\ UNCHANGED <<dev, j, trail>>

(* Mutants of Step: a paused scan is not resumed but updated; the data     *)
(* column is left for the instruction's at every Select-DR-Scan.           *)
StepFor(target) ==
  /\ pc = "loop" /\ tap_state # s /\ tap_state # INIT
  /\ tap_transition(WalkStep(tap_state, target).tms)
  /\ tap_state' = WalkStep(tap_state, target).to
  /\ EndStep
  /\ UNCHANGED j
StepNoResume == StepFor(IF tap_state = DREXIT2 THEN IDLE ELSE s)
StepToIr     == StepFor(IF tap_state = DRSELECT THEN IRPAUSE ELSE s)

Step ==
  /\ pc = "loop" /\ tap_state # s /\ tap_state # INIT
  /\ tap_transition(WalkStep(tap_state, s).tms)
  /\ tap_state' = WalkStep(tap_state, s).to
  /\ EndStep
  /\ UNCHANGED j

Walk == Arrived \/ InitCase \/ InitPulse \/ InitDone \/ Step

Next == Open \/ (\E t \in Targets : Call(t)) \/ Walk

Spec == Init /\ [][Next]_vars

(* The walker is a loop that runs once it is called; its caller need not   *)
(* call it again.                                                          *)
FairSpec == Spec /\ WF_vars(Walk)

-----------------------------------------------------------------------------
(* After k pulses with TMS high from an unknown state, the device is at    *)
(* most 5 - k such pulses away from Test-Logic-Reset.                      *)
OnesToReset(d) ==
  CASE d = RESET                                            -> 0
    [] d = IRSELECT                                         -> 1
    [] d = DRSELECT                                         -> 2
    [] d \in {IDLE, DRUPDATE, IRUPDATE}                     -> 3
    [] d \in {DREXIT1, DREXIT2, IREXIT1, IREXIT2}           -> 4
    [] d \in {DRCAPTURE, DRSHIFT, DRPAUSE,
              IRCAPTURE, IRSHIFT, IRPAUSE}                  -> 5

(* The host's belief is the device's state at every step of every walk, on *)
(* failing walks too, although the host never observes the device. Only    *)
(* INIT stands for "unknown"; leaving it must have reset the device.       *)
BeliefIsDevice == tap_state # INIT => dev = tap_state

(* The inductive strengthening of BeliefIsDevice: how far the six pulses   *)
(* of the LIBXSVF_TAP_INIT case have brought an unknown device.            *)
SyncInv ==
  /\ TypeOK
  /\ BeliefIsDevice
  /\ pc = "init" => tap_state = INIT /\ (OnesToReset(dev) + j <= 5 \/ dev = RESET)

(* A walk that ends well ends where it was asked to, one that gave up is   *)
(* for a target that the walker's table cannot reach (INIT, -1, Exit2 from *)
(* outside its Pause).                                                     *)
ResultIsHonest ==
  pc = "caller" /\ trail # {} /\ tap_state # INIT =>
    \/ rc = 0 /\ (s = tap_state)
    \/ rc = -1 /\ s \in {INIT, BADSTATE, DREXIT2, IREXIT2}

(* A walk has no side effect on a register that its route need not touch:  *)
(* resetting an idle device captures and updates nothing; Shift and Pause  *)
(* of one column are reached from one another without an Update, so a      *)
(* scan that was paused is resumed and not latched half-shifted.           *)
NoStrayUpdate ==
  /\ s = RESET /\ from \in {RESET, IDLE} =>
       trail \subseteq {IDLE, DRSELECT, IRSELECT, RESET}
  /\ s \in {DRSHIFT, DRPAUSE} /\ from \in {DRSHIFT, DRPAUSE} =>
       trail \subseteq {DRSHIFT, DREXIT1, DRPAUSE, DREXIT2}
  /\ s \in {IRSHIFT, IRPAUSE} /\ from \in {IRSHIFT, IRPAUSE} =>
       trail \subseteq {IRSHIFT, IREXIT1, IRPAUSE, IREXIT2}

(* A walk for the data register leaves the instruction register alone, and *)
(* the reverse, unless it starts inside the other column.                  *)
ColumnsAreSeparate ==
  /\ s \in DRSHIFT .. DRPAUSE /\ from \in (RESET .. DRUPDATE) =>
       trail \cap {IRCAPTURE, IRUPDATE} = {}
  /\ s \in IRSHIFT .. IRPAUSE /\ from \in ({RESET, IDLE} \union (IRSELECT .. IRUPDATE)) =>
       trail \cap {DRCAPTURE, DRUPDATE} = {}

(* The step-by-step walker computes the wire that TapPath gives for a      *)
(* whole walk: its result, the state believed and every device state on    *)
(* the way; and n + 1 pulses with TMS low are n of them and one more.      *)
MatchesPath ==
  /\ pc = "caller" /\ trail # {} /\ tap_state # INIT =>
       \E d \in DevState :
         LET w == WalkTo(WireAt(from, d), s)
         IN  /\ from # INIT => d = from
             /\ rc = w.rc /\ tap_state = w.tap /\ dev = w.dev /\ trail = w.seen
  /\ Lows(WireAt(tap_state, dev), 0) = WireAt(tap_state, dev)
  /\ \A n \in 0 .. 3 :
       Lows(WireAt(tap_state, dev), n + 1) = Pulse(Lows(WireAt(tap_state, dev), n), 0)

(* Every walk returns: the limit of the loop ends even the walks that      *)
(* circle through the table for ever.                                      *)
WalkReturns == pc # "caller" ~> pc = "caller"
=============================================================================
