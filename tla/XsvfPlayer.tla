----------------------------- MODULE XsvfPlayer -----------------------------
(***************************************************************************)
(* libxsvf_xsvf and shift_data (xsvf.c) within libxsvf_play (play.c): an   *)
(* XSVF file played into a device. One action is one command up to its     *)
(* first data shift, one try of a data shift, or one step of XSDRINC's     *)
(* loop. Whether the TDO bits of a try match is the device's choice.       *)
(*                                                                         *)
(* A register's bits are only kept where the code computes with them: in   *)
(* XSDRINC, at getbit's positions 0, 1, ... from the first byte's high     *)
(* bit. A byte has Unit bits.                                              *)
(***************************************************************************)
EXTENDS TapPath

CONSTANTS
  Sizes,       \* register lengths a file may give
  Unit,        \* bits in a byte: 8 in the code
  Repeats,     \* what XREPEAT may give
  Counts,      \* how many increments XSDRINC may ask for
  AddrMasks, DataMasks,   \* positions XSETSDRMASKS may name
  GoStates,    \* what XSTATE and XWAIT may name
  Found        \* the states a device may be found in

ASSUME XsvfAssumption ==
  /\ Sizes \subseteq Nat \ {0} /\ Unit \in Nat \ {0}
  /\ Repeats \union Counts \subseteq 0 .. 255   \* one byte of the file each
  /\ \A m \in AddrMasks \union DataMasks : m \subseteq Nat
  /\ GoStates \subseteq WalkTarget /\ Found \subseteq DevState

VARIABLES
  pc,          \* "closed", "command", "scan" (in shift_data), "inc" (in XSDRINC), "end"
  tap_state, dev,
  st,          \* libxsvf_xsvf's state_* variables, masks, and what was written to them
  ran,         \* the last command was XRUNTEST
  scan,        \* the arguments of the running shift_data, and XSDRINC's variables
  pending,     \* a buffered transaction has mismatched
  rc,
  missed, broke,   \* history: an unrepeated mismatch; another error
  last         \* history: what a try did on the wire, in the step after it

vars == <<pc, tap_state, dev, st, ran, scan, pending, rc, missed, broke, last>>

-----------------------------------------------------------------------------
left_padding(n) == (Unit - (n % Unit)) % Unit
Positions(n) == 0 .. n + left_padding(n) - 1

Fresh  == [dr_size |-> 0, runtest |-> FALSE, xendir |-> FALSE, xenddr |-> FALSE, retries |-> 0,
           tdo_mask |-> FALSE, addr_mask |-> {}, data_mask |-> {}, masks_for |-> 0]
NoScan == [shift |-> INIT, end |-> INIT, delay |-> FALSE, retries |-> 0, with |-> FALSE,
           len |-> 0, compares |-> FALSE, inc |-> FALSE, num |-> 0, tdi |-> <<>>]
NoTry  == [first |-> TRUE, paused |-> FALSE, shifted |-> 0, len |-> 0, seen |-> {}]

TypeOK ==
  /\ pc \in {"closed", "command", "scan", "inc", "end"}
  /\ tap_state \in TapState /\ dev \in DevState
  /\ {st.dr_size, st.masks_for} \subseteq Sizes \union {0}
  /\ scan.retries \in 0 .. st.retries /\ st.retries \in Repeats \union {0}
  /\ {st.runtest, st.xendir, st.xenddr, st.tdo_mask, ran, pending} \subseteq BOOLEAN
  /\ scan.num \in 0 .. 255 /\ rc \in {0, -1}

Init ==
  /\ pc = "closed" /\ tap_state = INIT /\ dev \in Found
  /\ st = Fresh /\ ran = FALSE /\ scan = NoScan /\ pending = FALSE /\ rc = 0
  /\ missed = FALSE /\ broke = FALSE /\ last = NoTry

NoTried == last' = NoTry

(* libxsvf_play: setup; and libxsvf_xsvf begins with fresh variables.      *)
Open ==
  /\ pc = "closed" /\ pc' = "command"
  /\ tap_state' = INIT /\ dev' \in Found
  /\ st' = Fresh /\ ran' = FALSE /\ rc' = 0 /\ missed' = FALSE /\ broke' = FALSE
  /\ NoTried
  /\ UNCHANGED <<scan, pending>>

-----------------------------------------------------------------------------
Command == pc = "command"

Wire == WireAt(tap_state, dev)

Fails ==
  /\ pc' = "end" /\ rc' = -1 /\ broke' = TRUE
  /\ UNCHANGED missed

(* Commands that only set variables. XCOMMENT and XTRST set none.          *)
Sets(new) ==
  /\ Command /\ ran' = FALSE
  /\ st' = new
  /\ UNCHANGED <<pc, tap_state, dev, scan, pending, rc, missed, broke>> /\ NoTried

XCOMMENT   == Sets(st)
XREPEAT(n) == Sets([st EXCEPT !.retries = n])
XENDIR(v)  == Sets([st EXCEPT !.xendir = v])
XENDDR(v)  == Sets([st EXCEPT !.xenddr = v])

XTDOMASK == \E some \in BOOLEAN : Sets([st EXCEPT !.tdo_mask = some])

XRUNTEST(v) ==
  /\ Command /\ ran' = TRUE
  /\ st' = [st EXCEPT !.runtest = v]
  /\ UNCHANGED <<pc, tap_state, dev, scan, pending, rc, missed, broke>> /\ NoTried

(* The new buffers' contents are what realloc leaves in them.              *)
XSDRSIZE(n) == \E some \in BOOLEAN : Sets([st EXCEPT !.dr_size = n, !.tdo_mask = some])

XSETSDRMASKS(a, d) ==
  /\ a \union d \subseteq Positions(st.dr_size) /\ a \intersect d = {}   \* the input: no bit in both
  /\ Sets([st EXCEPT !.addr_mask = a, !.data_mask = d, !.masks_for = st.dr_size])

(* XSTATE waits in IDLE first when XRUNTEST came right before it; the file *)
(* may end before the state's byte.                                        *)
XSTATE(s) ==
  /\ Command /\ ran' = FALSE
  /\ LET waits == st.runtest /\ ran
         w == IF waits THEN Lows(WalkTo(Wire, IDLE), 1) ELSE Wire
         z == WalkTo(w, s)
     IN  \/ /\ tap_state' = z.tap /\ dev' = z.dev
            /\ IF z.rc < 0 THEN Fails ELSE UNCHANGED <<pc, rc, missed, broke>>
         \/ /\ waits /\ tap_state' = w.tap /\ dev' = w.dev
            /\ Fails
  /\ UNCHANGED <<st, scan, pending>> /\ NoTried

(* XWAIT, XWAITSTATE: the delay between the states is without clocks; an   *)
(* XWAITSTATE whose last bytes are missing fails behind its walks.         *)
XWAIT(s1, s2) ==
  /\ Command /\ ran' = FALSE
  /\ LET z == WalkTo(WalkTo(Wire, s1), s2)
     IN  /\ tap_state' = z.tap /\ dev' = z.dev
         /\ \/ Fails
            \/ z.rc >= 0 /\ UNCHANGED <<pc, rc, missed, broke>>
  /\ UNCHANGED <<st, scan, pending>> /\ NoTried

XCOMPLETE ==
  /\ Command /\ pc' = "end" /\ ran' = FALSE
  /\ UNCHANGED <<tap_state, dev, st, scan, pending, rc, missed, broke>> /\ NoTried

(* An unknown command, the end of the file anywhere, no memory.            *)
Broken ==
  /\ pc \in {"command", "inc"}
  /\ Fails
  /\ ran' = FALSE /\ UNCHANGED <<tap_state, dev, st, scan, pending>> /\ NoTried

-----------------------------------------------------------------------------
(* Mutant: no look at older mismatches before a scan with retries.         *)
ShiftUnsynced(job) ==
  /\ pc' = "scan" /\ scan' = job /\ NoTried
  /\ UNCHANGED <<tap_state, dev, pending, rc, missed, broke>>

(* The entry of shift_data: before a scan with retries the host is asked   *)
(* for older mismatches, for which the scan must not be repeated.          *)
Shift(job) ==
  IF job.with /\ pending
  THEN /\ pc' = "end" /\ rc' = -1 /\ pending' = FALSE
       /\ UNCHANGED <<scan, tap_state, dev, missed, broke>> /\ NoTried
  ELSE /\ pc' = "scan" /\ scan' = job
       /\ NoTried
       /\ UNCHANGED <<tap_state, dev, pending, rc, missed, broke>>

EndOf(pause, stop) == IF pause THEN stop ELSE IDLE

DrScan(retries, end, delay, compares) ==
  [NoScan EXCEPT !.shift = DRSHIFT, !.end = end, !.delay = delay, !.retries = retries,
                 !.with = retries > 0, !.len = st.dr_size, !.compares = compares]

Scans(job) == Command /\ ran' = FALSE /\ Shift(job) /\ UNCHANGED st

(* XSIR and XSIR2                                                          *)
XSIR(n) ==
  Scans([NoScan EXCEPT !.shift = IRSHIFT, !.end = EndOf(st.xendir, IRPAUSE),
           !.delay = st.runtest, !.retries = st.retries,
           !.with = st.retries > 0, !.len = n])

(* XSDR and XSDRTDO                                                        *)
FullScan == DrScan(st.retries, EndOf(st.xenddr, DRPAUSE), st.runtest, st.tdo_mask)

XSDR == Scans(FullScan)

XSDRINC(tdi, num) ==
  /\ st.masks_for = st.dr_size   \* the input: masks of the register's size
  /\ Scans([FullScan EXCEPT !.inc = TRUE, !.num = num, !.tdi = tdi])

(* XSDRB, XSDRC, XSDRTDOB, XSDRTDOC: with no mask nothing is compared.     *)
XSDRB == Scans(DrScan(0, DRSHIFT, FALSE, FALSE))

(* XSDRE, XSDRTDOE                                                         *)
XSDRE == Scans(DrScan(0, EndOf(st.xenddr, DRPAUSE), FALSE, FALSE))

Leaves(w, job) == job.len > 0 /\ w.tap # job.end

(* Mutant: the last bit leaves the shift state, tap_state does not.        *)
BitsStaying(w, job) == Shifted(w, job.len, Leaves(w, job))

(* Mutant: the bit before the last one leaves the shift state.             *)
BitsEarly(w, job) ==
  IF Leaves(w, job) THEN [Pulse(Shifted(w, job.len - 1, TRUE), 0) EXCEPT !.tap = @ + 1]
  ELSE Shifted(w, job.len, FALSE)

(* The loop over the register's bits.                                      *)
Bits(w, job) ==
  [Shifted(w, job.len, Leaves(w, job)) EXCEPT !.tap = IF Leaves(w, job) THEN @ + 1 ELSE @]

(* Mutant: the delay is spent in the end state.                            *)
RestInPlace(w, job) == WalkTo(w, job.end)

Rest(w, job) ==
  IF job.delay THEN Lows(WalkTo(w, IDLE), 1) ELSE WalkTo(w, job.end)

(* One try: shift, then wait in IDLE or go to the end state.               *)
Tried(job) ==
  LET w1 == WalkTo(Wire, job.shift)
      w2 == IF w1.rc < 0 THEN w1 ELSE Bits(w1, job)
  IN  [wire |-> Rest(w2, job), shifted |-> w2.shifts - w1.shifts, seen |-> w1.seen]

(* A host may buffer its pulses, and is then sure to tell of a mismatch    *)
(* only when the last bit is synced; a simple host always tells at once.   *)
Outcomes(job) ==
  {o \in [bad : BOOLEAN, seen : BOOLEAN] :
     /\ o.bad => job.compares /\ job.len > 0
     /\ o.seen => o.bad \/ pending
     /\ job.with /\ job.len > 0 => o.seen = (o.bad \/ pending)}

(* Mutant: one repetition too many.                                        *)
MayRepeatOnceMore == scan.retries >= 0

MayRepeat == scan.retries > 0

Try ==
  /\ pc = "scan"
  /\ LET t == Tried(scan)
     IN  /\ tap_state' = t.wire.tap /\ dev' = t.wire.dev
         /\ last' = [first |-> ~scan.with \/ scan.retries = st.retries,
                     paused |-> scan.end # IDLE /\ ~scan.delay,
                     shifted |-> t.shifted, len |-> scan.len, seen |-> t.seen]
         /\ broke' = (t.wire.rc < 0)
  /\ \E o \in Outcomes(scan) :
       /\ pending' = ((pending \/ o.bad) /\ ~o.seen)
       /\ \/ /\ ~broke' /\ ~o.seen
             /\ \/ scan.inc /\ pc' = "inc" /\ UNCHANGED scan
                \/ ~scan.inc /\ pc' = "command" /\ scan' = NoScan
             /\ missed' = (missed \/ o.bad) /\ UNCHANGED rc
          \/ /\ broke' \/ (o.seen /\ ~MayRepeat)
             /\ pc' = "end" /\ rc' = -1
             /\ missed' = (missed \/ o.bad) /\ UNCHANGED scan
          \/ /\ ~broke' /\ o.seen /\ MayRepeat
             /\ scan' = [scan EXCEPT !.retries = @ - 1] /\ UNCHANGED <<pc, rc, missed>>
  /\ UNCHANGED <<st, ran>>

-----------------------------------------------------------------------------
(* Mutant: the carry is never cleared.                                     *)
IncrementedAll(tdi, n) ==
  [i \in DOMAIN tdi |-> IF i \in st.addr_mask \intersect (0 .. n - 1) THEN 1 - tdi[i] ELSE tdi[i]]

(* XSDRINC between two scans: the address bits are incremented by a carry  *)
(* from the highest position down, then new data bits are read.            *)
Incremented(tdi, n) ==
  LET address == st.addr_mask \intersect (0 .. n - 1)
      carries(i) == \A k \in address : k > i => tdi[k] = 1
  IN  [i \in DOMAIN tdi |-> IF i \in address /\ carries(i) THEN 1 - tdi[i] ELSE tdi[i]]

(* The register with the data bits that were read.                         *)
WithData(tdi, data) == [i \in DOMAIN tdi |-> IF i \in DOMAIN data THEN data[i] ELSE tdi[i]]

Increment ==
  /\ pc = "inc"
  /\ \/ /\ scan.num <= 0 /\ pc' = "command" /\ scan' = NoScan
        /\ UNCHANGED <<tap_state, dev, pending, rc, missed, broke>> /\ NoTried
     \/ /\ scan.num > 0
        /\ \E data \in [st.data_mask \intersect (0 .. st.dr_size - 1) -> {0, 1}] :
             Shift([FullScan EXCEPT !.inc = TRUE, !.num = scan.num - 1,
                                    !.tdi = WithData(Incremented(scan.tdi, st.dr_size), data)])
  /\ UNCHANGED <<st, ran>>

(* got_complete_command and error: a last look for mismatches; then        *)
(* libxsvf_play resets the TAP and shuts down.                             *)
Close ==
  /\ pc = "end" /\ pc' = "closed"
  /\ rc' = IF pending THEN -1 ELSE rc
  /\ pending' = FALSE
  /\ LET w == WalkTo(Wire, RESET) IN tap_state' = w.tap /\ dev' = w.dev
  /\ scan' = NoScan
  /\ UNCHANGED <<st, ran, missed, broke>> /\ NoTried

Next ==
  \/ Open \/ XCOMMENT \/ XTDOMASK \/ XCOMPLETE \/ Broken \/ XSDR \/ XSDRB \/ XSDRE
  \/ Try \/ Increment \/ Close
  \/ \E v \in BOOLEAN : XENDIR(v) \/ XENDDR(v) \/ XRUNTEST(v)
  \/ \E n \in Repeats : XREPEAT(n)
  \/ \E n \in Sizes : XSDRSIZE(n) \/ XSIR(n)
  \/ \E a \in AddrMasks, d \in DataMasks : XSETSDRMASKS(a, d)
  \/ \E s1 \in GoStates : XSTATE(s1) \/ \E s2 \in GoStates : XWAIT(s1, s2)
  \/ \E tdi \in [Positions(st.dr_size) -> {0, 1}], n \in Counts : XSDRINC(tdi, n)

Spec == Init /\ [][Next]_vars

-----------------------------------------------------------------------------
(* h->tap_state is the device's state after every command and every try,   *)
(* retries, unreachable states and clocked delays included; the variables  *)
(* keep their types and a scan's count of tries never wraps.               *)
BeliefIsDevice == tap_state # INIT => dev = tap_state
SyncInv == TypeOK /\ BeliefIsDevice

(* Every try of a scan, the repeated ones too, shifts its bits exactly,    *)
(* whether it begins in IDLE, in a Pause, or in the shift state where      *)
(* XSDRB or XSDRC left the register.                                       *)
TryIsExact == last.len > 0 => last.shifted = last.len

(* A repeated try looks at newly captured bits, unless the scan ends in a  *)
(* Pause without a delay: then the walker goes back to Shift and the bits  *)
(* compared are those the try before has shifted in.                       *)
RetryIsFresh ==
  ~last.first /\ ~last.paused => last.seen \intersect {DRCAPTURE, IRCAPTURE} # {}

(* A file is played without an error exactly when every comparison was     *)
(* right in its last try, on a host that buffers as well: no mismatch is   *)
(* forgotten, none is counted that a repetition has made good.             *)
VerdictIsHonest == pc = "closed" => (rc = 0 <=> ~missed /\ ~broke)

(* The number that the address bits of a register of n bits are; its       *)
(* lowest bit is the last one.                                             *)
Address(tdi, n) ==
  LET value[k \in 0 .. n] ==
        IF k = 0 THEN 0
        ELSE IF k - 1 \in st.addr_mask THEN 2 * value[k - 1] + tdi[k - 1] ELSE value[k - 1]
  IN  value[n]

(* From one scan of XSDRINC to the next, the address in a register of      *)
(* whole bytes grows by one, and begins at 0 again when it was all ones;   *)
(* only address and data bits change.                                      *)
XsdrincCounts ==
  [][pc = "inc" /\ pc' = "scan" /\ st.dr_size % Unit = 0 =>
       /\ Address(scan'.tdi, st.dr_size) =
            IF \A i \in st.addr_mask : scan.tdi[i] = 1 THEN 0 ELSE Address(scan.tdi, st.dr_size) + 1
       /\ \A i \in DOMAIN scan.tdi \ (st.addr_mask \union st.data_mask) :
            scan'.tdi[i] = scan.tdi[i]]_vars
=============================================================================
