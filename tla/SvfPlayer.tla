----------------------------- MODULE SvfPlayer ------------------------------
(***************************************************************************)
(* The interpreter of libxsvf_feed (svf.c): what each SVF command does to  *)
(* the host's TAP state, to the device, and to the bitdata registers that  *)
(* live in static variables across packets and uploads. One action is one  *)
(* command. The text of the commands is SvfReader's subject; here a        *)
(* command is its parameters.                                              *)
(*                                                                         *)
(* Of the bits themselves only their number is kept, and for every bit     *)
(* array how many bytes it has, for which length it was written and        *)
(* whether this upload wrote it. Whether a TDO comparison fails is the     *)
(* device's choice.                                                        *)
(*                                                                         *)
(* libxsvf_svf interprets the same commands with registers of its own that *)
(* it frees at the end: an upload that follows one that was finished.      *)
(***************************************************************************)
EXTENDS TapPath, SvfNumbers

CONSTANTS
  Lengths,     \* register lengths a command may give, in bits
  Regs,        \* the registers used: a subset of Register
  Params,      \* the parameters given: a subset of Param
  ArrayRegs,   \* the registers that are given parameters,
  ArrayLengths,  \* and the lengths that only they are given
  EndStates,   \* what ENDIR and ENDDR may name
  RunStates,   \* what RUNTEST may name
  GoStates,    \* what STATE may name
  TckCounts,   \* TCK counts of RUNTEST
  Found,       \* the states a device may be found in when an upload starts
  Abandons     \* whether an upload may break off

Register == {"HDR", "SDR", "TDR", "HIR", "SIR", "TIR"}
Param    == {"TDI", "TDO", "SMASK", "MASK", "RMASK"}

ASSUME CommandsAssumption ==
  /\ Lengths \subseteq Nat /\ TckCounts \subseteq Nat
  /\ Regs \subseteq Register /\ Params \subseteq Param
  /\ ArrayRegs \subseteq Register /\ ArrayLengths \subseteq Nat
  /\ EndStates \subseteq RESET .. BADSTATE
  /\ Found \subseteq DevState
  /\ RunStates \subseteq DevState /\ GoStates \subseteq DevState
  /\ Abandons \in BOOLEAN

VARIABLES
  tap_state,     \* h->tap_state
  dev,           \* the device's TAP controller
  bd,            \* the six bitdata_s
  state_endir, state_enddr, state_run, state_endrun,
  rc,            \* 0, or -1 after the first error of the upload
  playing,       \* an upload is being played
  last           \* history: what the last command did on the wire

player == <<state_endir, state_enddr, state_run, state_endrun, rc, playing>>
vars == <<tap_state, dev, bd, player, last>>

-----------------------------------------------------------------------------
NULL == [bytes |-> -1, for |-> 0, own |-> FALSE]
ByteLength(n) == (n + 7) \div 8

(* alloced_len and alloced_bytes follow the last length parsed.            *)
Empty == [len |-> 0, has_tdo_data |-> FALSE, array |-> [p \in Param |-> NULL]]

Quiet == [op |-> "none", from |-> INIT, bits |-> 0, shifted |-> 0, seen |-> {}, reads |-> {}]

TypeOK ==
  /\ tap_state \in TapState /\ dev \in DevState
  /\ DOMAIN bd = Register
  /\ \A r \in Register :
       /\ bd[r].len \in Lengths \union {0} /\ bd[r].has_tdo_data \in BOOLEAN
       /\ \A p \in Param : bd[r].array[p] # NULL => bd[r].array[p].for \in Lengths
  /\ {state_endir, state_enddr} \subseteq EndStates \union {IDLE}
  /\ {state_run, state_endrun} \subseteq RunStates \union {IDLE}
  /\ rc \in {0, -1} /\ playing \in BOOLEAN

Init ==
  /\ tap_state = INIT /\ dev \in Found
  /\ bd = [r \in Register |-> Empty]
  /\ state_endir = IDLE /\ state_enddr = IDLE /\ state_run = IDLE /\ state_endrun = IDLE
  /\ rc = 0 /\ playing = FALSE /\ last = Quiet

-----------------------------------------------------------------------------
Wire == WireAt(tap_state, dev)

(* Mutants: the belief does not follow the last bit; every array leaves    *)
(* the shift state, also when another one follows.                         *)
PlayStays(w, n, estate, mismatch) ==
  IF w.rc < 0 \/ n = 0 THEN w
  ELSE [Shifted(w, n, w.tap # estate) EXCEPT !.rc = IF mismatch THEN -1 ELSE 0]

PlayLeaves(w, n, estate, mismatch) ==
  IF w.rc < 0 \/ n = 0 THEN w
  ELSE [Shifted(w, n, TRUE)
          EXCEPT !.tap = IF @ # estate THEN @ + 1 ELSE @, !.rc = IF mismatch THEN -1 ELSE 0]

(* bitdata_play: one pulse a bit with TMS low, except that the last bit    *)
(* leaves the shift state when the scan is to end elsewhere. All bits are  *)
(* clocked before a mismatch is reported.                                  *)
Play(w, n, estate, mismatch) ==
  IF w.rc < 0 \/ n = 0 THEN w
  ELSE LET leaves == w.tap # estate
       IN  [Shifted(w, n, leaves) EXCEPT !.tap = IF leaves THEN @ + 1 ELSE @,
                                         !.rc  = IF mismatch THEN -1 ELSE 0]

(* bitdata_parse without an error: the arrays named are reallocated and    *)
(* written, the others stay as they are.                                   *)
Written(n) == [bytes |-> ByteLength(n), for |-> n, own |-> TRUE]

(* Mutant: has_tdo_data is set but never cleared.                          *)
ParsedSticky(b, n, ps) ==
  [len |-> n, has_tdo_data |-> b.has_tdo_data \/ "TDO" \in ps,
   array |-> [p \in Param |-> IF p \in ps THEN Written(n) ELSE b.array[p]]]

Parsed(b, n, ps) ==
  [len |-> n, has_tdo_data |-> "TDO" \in ps,
   array |-> [p \in Param |-> IF p \in ps THEN Written(n) ELSE b.array[p]]]

(* The input: arrays of no bytes cannot be allocated.                      *)
MayGive(r, n, ps) ==
  /\ ps # {} => n > 0 /\ r \in ArrayRegs
  /\ n \in ArrayLengths => r \in ArrayRegs

(* The arrays bitdata_play looks into.                                     *)
Consulted(b) ==
  LET has(p) == b.array[p] # NULL
  IN  {p \in Param : /\ b.len > 0 /\ has(p)
                     /\ p = "SMASK" => has("TDI")
                     /\ p = "TDO"   => b.has_tdo_data
                     /\ p = "MASK"  => has("TDO") /\ b.has_tdo_data}

Compares(b) == "TDO" \in Consulted(b)

Reads(regs) ==
  UNION {{[reg |-> r, param |-> p, need |-> ByteLength(bd'[r].len), len |-> bd'[r].len,
           array |-> bd'[r].array[p]] : p \in Consulted(bd'[r])} : r \in regs}

-----------------------------------------------------------------------------
Running == playing /\ rc = 0

(* Every command: the wire's final state, and the history. Shifts before   *)
(* the scan proper has begun are not counted.                              *)
Wired(op, w, before, bits, regs) ==
  /\ tap_state' = w.tap /\ dev' = w.dev
  /\ rc' = w.rc
  /\ last' = [op |-> op, from |-> tap_state, bits |-> bits, shifted |-> w.shifts - before,
              seen |-> w.seen, reads |-> Reads(regs)]
  /\ UNCHANGED playing

Unwired == last' = Quiet /\ UNCHANGED <<tap_state, dev, playing>>

EndIr(s) ==
  /\ Running
  /\ s # BADSTATE
  /\ state_endir' = s
  /\ Unwired /\ UNCHANGED <<bd, state_enddr, state_run, state_endrun, rc>>

(* An unknown ENDIR state is a syntax error, after it has been stored.     *)
EndIrFails ==
  /\ Running /\ BADSTATE \in EndStates
  /\ state_endir' = BADSTATE /\ rc' = -1
  /\ Unwired /\ UNCHANGED <<bd, state_enddr, state_run, state_endrun>>

(* ENDDR looks at state_endir for the result of its own conversion: an     *)
(* unknown state is accepted.                                              *)
EndDr(s) ==
  /\ Running
  /\ state_enddr' = s
  /\ rc' = IF state_endir = BADSTATE THEN -1 ELSE 0
  /\ Unwired /\ UNCHANGED <<bd, state_endir, state_run, state_endrun>>

(* HDR, HIR, TDR, TIR                                                      *)
SetPadding(r, n, ps) ==
  /\ Running /\ r \in Regs \ {"SDR", "SIR"} /\ MayGive(r, n, ps)
  /\ bd' = [bd EXCEPT ![r] = Parsed(@, n, ps)]
  /\ Unwired
  /\ UNCHANGED <<state_endir, state_enddr, state_run, state_endrun, rc>>

Without(b, lost) ==
  [b EXCEPT !.array = [p \in Param |-> IF p \in lost THEN NULL ELSE b.array[p]]]

(* bitdata_parse fails after the parameters in ps, at bad syntax or at the *)
(* allocation for the last of them, whose pointer is NULL then. The new    *)
(* length stays, and so do the other arrays.                               *)
ParseFails(r, n, ps) ==
  /\ Running /\ r \in Regs /\ MayGive(r, n, ps)
  /\ \E lost \in {{}} \union {{p} : p \in ps} :
       bd' = [bd EXCEPT ![r] = Without(Parsed(@, n, ps), lost)]
  /\ rc' = -1
  /\ Unwired
  /\ UNCHANGED <<state_endir, state_enddr, state_run, state_endrun>>

(* RUNTEST: go to the run state, clock it, go to the end state. The clocks *)
(* are udelay's, with TMS low whatever the run state is.                   *)
Runtest(run, endrun, tck) ==
  /\ Running
  /\ state_run' = run /\ state_endrun' = endrun
  /\ Wired("RUNTEST", WalkTo(Lows(WalkTo(Wire, run), tck), endrun), 0, 0, {})
  /\ UNCHANGED <<bd, state_endir, state_enddr>>

(* SDR and SIR: header, data and trailer in one stay in the shift state,   *)
(* the last of them that has bits leaves it.                               *)
Scan(data, head, tail, shift, end, n, ps) ==
  /\ Running /\ data \in Regs /\ MayGive(data, n, ps)
  /\ bd' = [bd EXCEPT ![data] = Parsed(@, n, ps)]
  /\ \E bad \in SUBSET {r \in {head, data, tail} : Compares(bd'[r])} :
       LET h  == bd[head].len
           t  == bd[tail].len
           w1 == WalkTo(Wire, shift)
           w2 == Play(w1, h, IF n + t > 0 THEN shift ELSE end, head \in bad)
           w3 == Play(w2, n, IF t > 0 THEN shift ELSE end, data \in bad)
           w4 == Play(w3, t, end, tail \in bad)
       IN  Wired(data, WalkTo(w4, end), w1.shifts, h + n + t, {head, data, tail})
  /\ UNCHANGED <<state_endir, state_enddr, state_run, state_endrun>>

(* Mutant: SDR shifts in the column of SIR.                                *)
SdrInIr(n, ps) == Scan("SDR", "HDR", "TDR", IRSHIFT, state_enddr, n, ps)

Sdr(n, ps) == Scan("SDR", "HDR", "TDR", DRSHIFT, state_enddr, n, ps)
Sir(n, ps) == Scan("SIR", "HIR", "TIR", IRSHIFT, state_endir, n, ps)

(* STATE walks to each of the states it lists; one at a time is the same.  *)
State(s) ==
  /\ Running
  /\ Wired("STATE", WalkTo(Wire, s), 0, 0, {})
  /\ UNCHANGED <<bd, state_endir, state_enddr, state_run, state_endrun>>

(* Syntax errors, unsupported commands, a FREQUENCY the host refuses.      *)
CommandError ==
  /\ Running /\ rc' = -1
  /\ Unwired /\ UNCHANGED <<bd, state_endir, state_enddr, state_run, state_endrun>>

(* libxsvf_svf_packet with index 0: the TAP is unknown, feed(0) zeroes the *)
(* lengths of the registers and keeps their arrays. It does not matter     *)
(* whether an upload was still being played.                               *)
Start ==
  /\ playing => Abandons
  /\ tap_state' = INIT /\ dev' \in Found
  /\ bd' = [r \in Register |-> [bd[r] EXCEPT !.len = 0, !.has_tdo_data = FALSE,
             !.array = [p \in Param |-> [@[p] EXCEPT !.own = FALSE]]]]
  /\ state_endir' = IDLE /\ state_enddr' = IDLE /\ state_run' = IDLE /\ state_endrun' = IDLE
  /\ rc' = 0 /\ playing' = TRUE /\ last' = Quiet

(* The final packet: reset the TAP; feed(-1) frees the arrays and keeps    *)
(* the lengths they were allocated for.                                    *)
Finish ==
  /\ playing
  /\ LET w == WalkTo(Wire, RESET) IN tap_state' = w.tap /\ dev' = w.dev
  /\ bd' = [r \in Register |-> [bd[r] EXCEPT !.array = Empty.array]]
  /\ playing' = FALSE /\ last' = Quiet
  /\ UNCHANGED <<state_endir, state_enddr, state_run, state_endrun, rc>>

Next ==
  \/ Start \/ Finish \/ EndIrFails \/ CommandError
  \/ \E s \in EndStates : EndIr(s) \/ EndDr(s)
  \/ \E s \in GoStates : State(s)
  \/ \E run \in RunStates \union {state_run}, endrun \in RunStates \union {state_endrun},
        k \in TckCounts : Runtest(run, endrun, k)
  \/ \E n \in Lengths, ps \in SUBSET Params :
       \/ Sdr(n, ps) \/ Sir(n, ps)
       \/ \E r \in Regs : SetPadding(r, n, ps) \/ ParseFails(r, n, ps)

Spec == Init /\ [][Next]_vars

-----------------------------------------------------------------------------
(* h->tap_state is the device's state after every command: walks, scans    *)
(* that end by incrementing it, and clocks that udelay runs.               *)
BeliefIsDevice == tap_state # INIT => dev = tap_state

(* A scan with bits shifts exactly header, data and trailer, whichever of  *)
(* them are empty and wherever it ends: one bit more or less displaces     *)
(* every device of the chain.                                              *)
ScanIsExact ==
  last.op \in {"SDR", "SIR"} /\ last.bits > 0 /\ rc = 0 => last.shifted = last.bits

(* Commands other than scans shift nothing: no walk between two commands   *)
(* takes a way through a shift state. (Leaving INIT may shift: the device  *)
(* is anywhere.)                                                           *)
OnlyScansShift ==
  last.op \in {"RUNTEST", "STATE"} /\ last.from # INIT => last.shifted = 0

(* Scanning data does not disturb the instruction, nor the reverse, unless *)
(* the scan begins or ends in the other column.                            *)
ScansKeepTheirColumn ==
  /\ /\ last.op = "SDR"
     /\ {last.from, state_enddr} \subseteq RESET .. DRUPDATE
     => last.seen \intersect {IRCAPTURE, IRUPDATE} = {}
  /\ /\ last.op = "SIR"
     /\ {last.from, state_endir} \subseteq {RESET, IDLE} \union (IRSELECT .. IRUPDATE)
     => last.seen \intersect {DRCAPTURE, DRUPDATE} = {}

(* The arrays a scan looks into are as long as the scan.                   *)
ReadsInBounds == \A x \in last.reads : x.array.bytes >= x.need

(* TDO is only compared with data given for this scan's register in this   *)
(* upload and at this length, also after broken uploads and changes of     *)
(* length.                                                                 *)
ComparisonIsAsked ==
  \A x \in last.reads :
    x.param = "TDO" => x.array.own /\ x.array.for = x.len

(* The bits of scans and the delays are the numbers that were given.       *)
(* Looked at once, before the first upload.                                *)
NumbersAreRead ==
  tap_state = INIT /\ ~playing =>
    /\ BitsAreNumbers(Lens, HexNumbers, OtherNumbers, Given)
    /\ DelaysAreNumbers(Decimals, Exponents)
=============================================================================
