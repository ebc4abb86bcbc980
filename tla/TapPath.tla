------------------------------ MODULE TapPath -------------------------------
(***************************************************************************)
(* The wire record that the players' commands thread through their calls:  *)
(* single TCK pulses, runs of them with TMS low, and a whole call of       *)
(* libxsvf_tap_walk as one operator. (TapWalk takes the walk pulse by      *)
(* pulse, and computes the same: MatchesPath.)                             *)
(***************************************************************************)
EXTENDS Tap, FiniteSets

ShiftState == {DRSHIFT, IRSHIFT}

(* The believed state, the device, the states it has gone through and the  *)
(* TCK edges that met it in a shift state since the command began, the     *)
(* result of the calls so far.                                             *)
WireAt(t, d) == [tap |-> t, dev |-> d, seen |-> {}, shifts |-> 0, rc |-> 0]

(* One pulse_tck.                                                          *)
Pulse(w, tms) ==
  LET d == DeviceNext(w.dev, tms)
  IN  [w EXCEPT !.dev = d, !.seen = @ \union {d},
                !.shifts = IF w.dev \in ShiftState THEN @ + 1 ELSE @]

(* The device after k pulses with TMS low, which settle it within two.     *)
Low(d, k) == IF k = 0 THEN d ELSE IF k = 1 THEN OnLow(d) ELSE OnLow(OnLow(d))

(* n pulses with TMS low, unless the command has failed already.           *)
Lows(w, n) ==
  IF w.rc < 0 THEN w
  ELSE [w EXCEPT !.dev = Low(@, n), !.seen = @ \union {Low(w.dev, k) : k \in 1 .. n},
                 !.shifts = @ + Cardinality({k \in 0 .. n - 1 : Low(w.dev, k) \in ShiftState})]

(* The pulses for n > 0 bits of a register: with the last one the shift    *)
(* state is left or not.                                                   *)
Shifted(w, n, leaves) == IF leaves THEN Pulse(Lows(w, n - 1), 1) ELSE Lows(w, n)

-----------------------------------------------------------------------------
TwoHigh(w) == Pulse(Pulse(w, 1), 1)
SixHigh(w) == TwoHigh(TwoHigh(TwoHigh(w)))

(* Mutant: a paused scan is resumed wherever the walk is to end.           *)
StepResumes(w, s) ==
  IF w.tap = s THEN w
  ELSE IF w.tap = INIT THEN [SixHigh(w) EXCEPT !.tap = RESET]
  ELSE LET step == IF w.tap \in {DREXIT2, IREXIT2} THEN Clock(0, w.tap - 3) ELSE WalkStep(w.tap, s)
       IN  [Pulse(w, step.tms) EXCEPT !.tap = step.to]

(* One iteration of the walk's loop; it ends where it was asked to go.     *)
Stepped(w, s) ==
  IF w.tap = s THEN w
  ELSE IF w.tap = INIT THEN [SixHigh(w) EXCEPT !.tap = RESET]
  ELSE [Pulse(w, WalkStep(w.tap, s).tms) EXCEPT !.tap = WalkStep(w.tap, s).to]

(* The wire behind eleven iterations.                                      *)
ElevenSteps(w, s) ==
  LET x[i \in 0 .. 11] == IF i = 0 THEN w ELSE Stepped(x[i - 1], s)
  IN  x[11]

(* Mutant: the walk is believed to arrive, whatever its result.            *)
WalkToArrives(w, s) ==
  IF w.rc < 0 THEN w
  ELSE LET x == ElevenSteps(w, s)
       IN  IF x.tap = s THEN x ELSE [Stepped(x, s) EXCEPT !.tap = s, !.rc = -1]

(* A call of libxsvf_tap_walk, unless the command has failed already. A    *)
(* twelfth iteration (i > 10) fails the walk, even if it arrives.          *)
WalkTo(w, s) ==
  IF w.rc < 0 THEN w
  ELSE LET x == ElevenSteps(w, s)
       IN  IF x.tap = s THEN x ELSE [Stepped(x, s) EXCEPT !.rc = -1]
=============================================================================
