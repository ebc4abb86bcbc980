-------------------------- MODULE XsvfPlayerProofs --------------------------
(***************************************************************************)
(* Proofs about XsvfPlayer for all files, any registers and repetitions,   *)
(* on hosts that tell of a mismatch at once or long after it: the verdict  *)
(* is right (ScanInv, MissedInv); belief is device, every try shifts just  *)
(* its bits and a repeated one compares new ones (TryInv, WireInv);        *)
(* XSDRINC counts in any register of whole bytes (CountInv).               *)
(***************************************************************************)
EXTENDS XsvfPlayer, TapPathProofs

(* A try is only repeated in a scan that began with no mismatch pending.   *)
ScanInv ==
  /\ DOMAIN st = DOMAIN Fresh /\ DOMAIN scan = DOMAIN NoScan
  /\ st.retries \in Nat /\ scan.retries \in Nat /\ scan.with \in BOOLEAN
  /\ scan.retries > 0 => scan.with
  /\ pc = "scan" /\ scan.with => ~pending

(* While the file is played, a mismatch that was not repeated is pending;  *)
(* at its end it has been reported, or is pending still.                   *)
MissedInv ==
  /\ rc \in {0, -1}
  /\ pending => missed
  /\ pc \in {"command", "scan", "inc"} => rc = 0 /\ ~broke /\ (missed => pending)
  /\ pc = "end" => (rc = -1 \/ pending <=> missed \/ broke)
  /\ pc = "closed" => ~pending

VerdictInv == ScanInv /\ MissedInv /\ VerdictIsHonest

-----------------------------------------------------------------------------
LEMMA Retries == Repeats \subseteq Nat
BY XsvfAssumption

LEMMA VerdictInit == Init => VerdictInv
<1> SUFFICES ASSUME Init PROVE VerdictInv
  OBVIOUS
<1>1. /\ pc = "closed" /\ rc = 0 /\ ~pending /\ ~missed /\ ~broke
      /\ st = Fresh /\ scan = NoScan
      /\ st.retries = 0 /\ scan.retries = 0 /\ ~scan.with /\ scan.with \in BOOLEAN
  BY DEF Init, Fresh, NoScan
<1>2. QED
  BY <1>1 DEF VerdictInv, ScanInv, MissedInv, VerdictIsHonest

(* A job begins with as many tries as it has retries.                      *)
Job(job) ==
  DOMAIN job = DOMAIN NoScan /\ job.retries \in Nat /\ job.with \in BOOLEAN /\ (job.retries > 0 => job.with)

(* shift_data is entered with nothing pending, or not at all.              *)
LEMMA ShiftKeeps ==
  ASSUME VerdictInv, pc \in {"command", "inc"}, NEW job, Job(job), Shift(job), UNCHANGED st
  PROVE  VerdictInv'
<1>1. CASE job.with /\ pending
  BY <1>1 DEF VerdictInv, ScanInv, MissedInv, VerdictIsHonest, Shift
<1>2. CASE ~(job.with /\ pending)
  BY <1>2 DEF VerdictInv, ScanInv, MissedInv, VerdictIsHonest, Shift, Job
<1>3. QED
  BY <1>1, <1>2

LEMMA JobsAreJobs ==
  ASSUME VerdictInv, NEW end, NEW delay, NEW compares, NEW inc, NEW num, NEW tdi, NEW n
  PROVE  /\ Job(FullScan)
         /\ Job([FullScan EXCEPT !.inc = inc, !.num = num, !.tdi = tdi])
         /\ Job(DrScan(0, end, delay, compares))
         /\ Job([NoScan EXCEPT !.shift = IRSHIFT, !.end = end, !.delay = delay,
                   !.retries = st.retries, !.with = st.retries > 0, !.len = n])
<1>1. st.retries \in Nat /\ (st.retries > 0) \in BOOLEAN /\ (0 > 0) = FALSE
  BY DEF VerdictInv, ScanInv
<1>2. /\ DOMAIN FullScan = DOMAIN NoScan /\ FullScan.retries = st.retries
      /\ FullScan.with = (st.retries > 0)
  BY DEF FullScan, DrScan, NoScan
<1>3. Job(FullScan)
  BY <1>1, <1>2 DEF Job
<1>4. ASSUME NEW job, job = [FullScan EXCEPT !.inc = inc, !.num = num, !.tdi = tdi]
      PROVE  Job(job)
  <2>1. DOMAIN job = DOMAIN FullScan /\ job.retries = FullScan.retries /\ job.with = FullScan.with
    BY <1>4 DEF FullScan, DrScan, NoScan
  <2>2. QED
    BY <2>1, <1>3 DEF Job
<1>5. ASSUME NEW job, job = DrScan(0, end, delay, compares) PROVE Job(job)
  <2>1. DOMAIN job = DOMAIN NoScan /\ job.retries = 0 /\ job.with = (0 > 0)
    BY <1>5 DEF DrScan, NoScan
  <2>2. job.with \in BOOLEAN /\ job.retries \in Nat /\ ~(job.retries > 0)
    BY <1>1, <2>1
  <2>3. QED
    BY <2>1, <2>2 DEF Job
<1>6. ASSUME NEW job,
             job = [NoScan EXCEPT !.shift = IRSHIFT, !.end = end, !.delay = delay,
                      !.retries = st.retries, !.with = st.retries > 0, !.len = n]
      PROVE  Job(job)
  <2>1. DOMAIN job = DOMAIN NoScan /\ job.retries = st.retries /\ job.with = (st.retries > 0)
    BY <1>6 DEF NoScan
  <2>2. QED
    BY <2>1, <1>1 DEF Job
<1>7. QED
  BY <1>3, <1>4, <1>5, <1>6

(* Setting variables, and whatever fails.                                  *)
LEMMA SetsKeeps ==
  ASSUME VerdictInv, NEW new, DOMAIN new = DOMAIN st, new.retries \in Nat, Sets(new)
  PROVE  VerdictInv'
BY DEF VerdictInv, ScanInv, MissedInv, VerdictIsHonest, Sets, Command

LEMMA FailsKeeps ==
  ASSUME VerdictInv, pc \in {"command", "inc"}, Fails, UNCHANGED <<st, scan, pending>>
  PROVE  VerdictInv'
BY DEF VerdictInv, ScanInv, MissedInv, VerdictIsHonest, Fails

LEMMA StaysKeeps ==
  ASSUME VerdictInv, UNCHANGED <<pc, rc, missed, broke, st, scan, pending>>
  PROVE  VerdictInv'
BY DEF VerdictInv, ScanInv, MissedInv, VerdictIsHonest

(* One try: the mismatch of a repeated one is forgotten, any other is      *)
(* pending or ends the file.                                               *)
LEMMA TryKeeps == ASSUME VerdictInv, Try PROVE VerdictInv'
<1>1. pc = "scan" /\ st' = st /\ broke' \in BOOLEAN
  BY DEF Try
<1>2. PICK o \in Outcomes(scan) :
        /\ pending' = ((pending \/ o.bad) /\ ~o.seen)
        /\ \/ /\ ~broke' /\ ~o.seen
              /\ \/ scan.inc /\ pc' = "inc" /\ UNCHANGED scan
                 \/ ~scan.inc /\ pc' = "command" /\ scan' = NoScan
              /\ missed' = (missed \/ o.bad) /\ UNCHANGED rc
           \/ /\ broke' \/ (o.seen /\ ~MayRepeat)
              /\ pc' = "end" /\ rc' = -1
              /\ missed' = (missed \/ o.bad) /\ UNCHANGED scan
           \/ /\ ~broke' /\ o.seen /\ MayRepeat
              /\ scan' = [scan EXCEPT !.retries = @ - 1] /\ UNCHANGED <<pc, rc, missed>>
  BY DEF Try
<1>3. o.bad \in BOOLEAN /\ o.seen \in BOOLEAN /\ (o.seen => o.bad \/ pending)
  BY DEF Outcomes
<1>4. rc = 0 /\ (missed <=> pending) /\ (pending' <=> (pending \/ o.bad) /\ ~o.seen)
  BY <1>1, <1>2 DEF VerdictInv, MissedInv
<1>5. CASE ~broke' /\ ~o.seen
  <2>1. /\ pc' \in {"inc", "command"} /\ rc' = 0 /\ (missed' <=> missed \/ o.bad)
        /\ scan' \in {scan, NoScan}
    BY <1>2, <1>4, <1>5
  <2>2. ScanInv'
    <3>1. NoScan.retries \in Nat /\ NoScan.with \in BOOLEAN /\ ~(NoScan.retries > 0)
      <4>1. NoScan.retries = 0
        BY DEF NoScan
      <4>2. NoScan.with \in BOOLEAN
        BY DEF NoScan
      <4>3. QED
        BY <4>1, <4>2, SMT
    <3>2. /\ DOMAIN scan' = DOMAIN NoScan /\ scan'.retries \in Nat /\ scan'.with \in BOOLEAN
          /\ (scan'.retries > 0 => scan'.with)
      <4>1. CASE scan' = scan
        BY <4>1 DEF VerdictInv, ScanInv
      <4>2. CASE scan' = NoScan
        BY <3>1, <4>2
      <4>3. QED
        BY <2>1, <4>1, <4>2
    <3>3. pc' # "scan"
      BY <2>1
    <3>4. QED
      BY <1>1, <3>2, <3>3 DEF VerdictInv, ScanInv
  <2>3. QED
    BY <1>4, <1>5, <2>1, <2>2 DEF VerdictInv, MissedInv, VerdictIsHonest
<1>6. CASE broke' \/ (o.seen /\ ~MayRepeat)
  <2>1. pc' = "end" /\ rc' = -1 /\ (missed' <=> missed \/ o.bad) /\ scan' = scan
    BY <1>2, <1>6
  <2>2. ScanInv'
    BY <1>1, <2>1 DEF VerdictInv, ScanInv
  <2>3. missed' \/ broke'
    BY <1>3, <1>4, <1>6, <2>1
  <2>4. pending' => missed'
    BY <1>4, <2>1
  <2>5. QED
    BY <2>1, <2>2, <2>3, <2>4 DEF VerdictInv, MissedInv, VerdictIsHonest
<1>7. CASE ~broke' /\ o.seen /\ MayRepeat
  <2>1. /\ scan' = [scan EXCEPT !.retries = @ - 1]
        /\ pc' = pc /\ rc' = rc /\ missed' = missed
    BY <1>2, <1>7
  <2>2. scan.retries > 0 /\ scan.with
    BY <1>7 DEF VerdictInv, ScanInv, MayRepeat
  <2>3. ~pending /\ ~missed /\ ~pending'
    BY <1>1, <1>4, <1>7, <2>2 DEF VerdictInv, ScanInv
  <2>4. ScanInv'
    <3>1. {"retries", "with"} \subseteq DOMAIN scan
      BY DEF VerdictInv, ScanInv, NoScan
    <3>2. /\ DOMAIN scan' = DOMAIN scan /\ scan'.retries = scan.retries - 1
          /\ scan'.with = scan.with
      BY <2>1, <3>1
    <3>3. scan'.retries \in Nat
      BY <2>2, <3>2 DEF VerdictInv, ScanInv
    <3>4. QED
      BY <1>1, <2>2, <2>3, <3>2, <3>3 DEF VerdictInv, ScanInv
  <2>5. QED
    BY <1>1, <1>4, <1>7, <2>1, <2>3, <2>4 DEF VerdictInv, MissedInv, VerdictIsHonest
<1>8. QED
  BY <1>2, <1>5, <1>6, <1>7

-----------------------------------------------------------------------------
(* Every step keeps the invariant.                                         *)
LEMMA VerdictNext == VerdictInv /\ [Next]_vars => VerdictInv'
<1> SUFFICES ASSUME VerdictInv, [Next]_vars PROVE VerdictInv'
  OBVIOUS
<1> USE Retries
<1>1. CASE Open
  <2>1. /\ pc = "closed" /\ pc' = "command" /\ rc' = 0 /\ ~missed' /\ ~broke'
        /\ DOMAIN st' = DOMAIN Fresh /\ st'.retries = 0 /\ scan' = scan /\ pending' = pending
    BY <1>1 DEF Open, Fresh
  <2>2. QED
    BY <2>1 DEF VerdictInv, ScanInv, MissedInv, VerdictIsHonest
<1>2. CASE XCOMMENT \/ XTDOMASK \/ \E v \in BOOLEAN : XENDIR(v) \/ XENDDR(v)
  <2>1. PICK new : Sets(new) /\ DOMAIN new = DOMAIN st /\ new.retries = st.retries
    <3>1. "retries" \in DOMAIN st
      BY DEF VerdictInv, ScanInv, Fresh
    <3>2. CASE XCOMMENT
      BY <3>2 DEF XCOMMENT
    <3>3. CASE XTDOMASK
      BY <3>1, <3>3 DEF XTDOMASK
    <3>4. CASE \E v \in BOOLEAN : XENDIR(v) \/ XENDDR(v)
      BY <3>1, <3>4 DEF XENDIR, XENDDR
    <3>5. QED
      BY <1>2, <3>2, <3>3, <3>4
  <2>2. QED
    BY <2>1, SetsKeeps DEF VerdictInv, ScanInv
<1>3. ASSUME NEW n \in Repeats, XREPEAT(n) PROVE VerdictInv'
  BY <1>3, SetsKeeps DEF XREPEAT, VerdictInv, ScanInv, Fresh
<1>4. ASSUME NEW n \in Sizes, XSDRSIZE(n) PROVE VerdictInv'
  BY <1>4, SetsKeeps DEF XSDRSIZE, VerdictInv, ScanInv, Fresh
<1>5. ASSUME NEW a, NEW d, XSETSDRMASKS(a, d) PROVE VerdictInv'
  BY <1>5, SetsKeeps DEF XSETSDRMASKS, VerdictInv, ScanInv, Fresh
<1>6. ASSUME NEW v, XRUNTEST(v) PROVE VerdictInv'
  BY <1>6 DEF XRUNTEST, VerdictInv, ScanInv, MissedInv, VerdictIsHonest, Command, Fresh
<1>7. ASSUME NEW s, XSTATE(s) PROVE VerdictInv'
  <2>1. pc = "command" /\ UNCHANGED <<st, scan, pending>>
        /\ (Fails \/ UNCHANGED <<pc, rc, missed, broke>>)
    BY <1>7 DEF XSTATE, Command
  <2>2. QED
    BY <2>1, FailsKeeps, StaysKeeps
<1>8. ASSUME NEW s1, NEW s2, XWAIT(s1, s2) PROVE VerdictInv'
  <2>1. pc = "command" /\ UNCHANGED <<st, scan, pending>>
        /\ (Fails \/ UNCHANGED <<pc, rc, missed, broke>>)
    BY <1>8 DEF XWAIT, Command
  <2>2. QED
    BY <2>1, FailsKeeps, StaysKeeps
<1>9. CASE XCOMPLETE
  BY <1>9 DEF XCOMPLETE, Command, VerdictInv, ScanInv, MissedInv, VerdictIsHonest
<1>10. CASE Broken
  BY <1>10, FailsKeeps DEF Broken
<1>11. ASSUME NEW job, Job(job), Scans(job) PROVE VerdictInv'
  BY <1>11, ShiftKeeps DEF Scans, Command
<1>12. CASE XSDR \/ XSDRB \/ XSDRE
  BY <1>11, <1>12, JobsAreJobs DEF XSDR, XSDRB, XSDRE
<1>13. ASSUME NEW n, XSIR(n) PROVE VerdictInv'
  BY <1>11, <1>13, JobsAreJobs DEF XSIR
<1>14. ASSUME NEW tdi, NEW n, XSDRINC(tdi, n) PROVE VerdictInv'
  BY <1>11, <1>14, JobsAreJobs DEF XSDRINC
<1>15. CASE Try
  BY <1>15, TryKeeps
<1>16. CASE Increment
  <2>1. /\ pc = "inc" /\ st' = st
        /\ \/ /\ pc' = "command" /\ scan' = NoScan
              /\ UNCHANGED <<pending, rc, missed, broke>>
           \/ \E tdi : Shift([FullScan EXCEPT !.inc = TRUE, !.num = scan.num - 1, !.tdi = tdi])
    BY <1>16 DEF Increment
  <2>2. CASE pc' = "command" /\ scan' = NoScan /\ UNCHANGED <<pending, rc, missed, broke>>
    BY <2>1, <2>2 DEF VerdictInv, ScanInv, MissedInv, VerdictIsHonest, NoScan
  <2>3. CASE \E tdi : Shift([FullScan EXCEPT !.inc = TRUE, !.num = scan.num - 1, !.tdi = tdi])
    BY <2>1, <2>3, ShiftKeeps, JobsAreJobs
  <2>4. QED
    BY <2>1, <2>2, <2>3
<1>17. CASE Close
  <2>1. /\ pc = "end" /\ pc' = "closed" /\ rc' = (IF pending THEN -1 ELSE rc) /\ ~pending'
        /\ scan' = NoScan /\ UNCHANGED <<st, missed, broke>>
    BY <1>17 DEF Close
  <2>2. QED
    BY <2>1 DEF VerdictInv, ScanInv, MissedInv, VerdictIsHonest, NoScan
<1>18. CASE UNCHANGED vars
  BY <1>18, StaysKeeps DEF vars
<1>19. QED
  BY <1>1, <1>2, <1>3, <1>4, <1>5, <1>6, <1>7, <1>8, <1>9, <1>10, <1>12, <1>13, <1>14, <1>15,
     <1>16, <1>17, <1>18 DEF Next

(* A file is played without an error exactly when every comparison was     *)
(* right in its last try.                                                  *)
THEOREM VerdictIsHonestAlways == Spec => []VerdictIsHonest
<1>1. VerdictInv => VerdictIsHonest
  BY DEF VerdictInv
<1>2. QED
  BY <1>1, VerdictInit, VerdictNext, PTL DEF Spec

-----------------------------------------------------------------------------
(* What the player does on the wire. A scan is of one register, and ends   *)
(* in IDLE, in a Pause or in Shift; between commands none runs. When a try *)
(* is repeated, the one before has arrived where the scan ends.            *)
FirstTry == ~scan.with \/ scan.retries = st.retries

Scanning ==
  /\ scan.shift \in ShiftState /\ scan.end \in {IDLE, DRPAUSE, IRPAUSE, DRSHIFT}
  /\ scan.delay \in BOOLEAN /\ scan.len \in Nat
  /\ ~FirstTry /\ (scan.delay \/ scan.end = IDLE) => tap_state = IDLE

FieldsInv == DOMAIN st = DOMAIN Fresh /\ DOMAIN scan = DOMAIN NoScan /\ DOMAIN last = DOMAIN NoTry

WireInv ==
  /\ SyncInv /\ FieldsInv
  /\ pc \in {"closed", "command"} => scan = NoScan
  /\ pc = "scan" => Scanning

TryInv == WireInv /\ TryIsExact /\ RetryIsFresh

LEMMA Inputs ==
  /\ \A n \in Repeats \union {0} : n \in Nat
  /\ Sizes \subseteq Nat /\ Repeats \subseteq 0 .. 255 /\ Counts \subseteq 0 .. 255
  /\ GoStates \subseteq WalkTarget /\ Found \subseteq DevState
BY XsvfAssumption

LEMMA StatesAreTargets ==
  /\ INIT \in TapState /\ DevState \subseteq TapState /\ TapState = DevState \union {INIT}
  /\ TapState \subseteq WalkTarget
  /\ {RESET, IDLE, DRPAUSE, IRPAUSE, DRSHIFT, IRSHIFT} \subseteq WalkTarget
  /\ ShiftState \subseteq Reachable /\ ShiftState \subseteq WalkTarget
  /\ INIT \notin ShiftState /\ IDLE \notin ShiftState /\ INIT # IDLE
BY DEF TapState, DevState, WalkTarget, ShiftState, Reachable, INIT, RESET, IDLE, DRSELECT,
       DRCAPTURE, DRSHIFT, DREXIT1, DRPAUSE, DREXIT2, DRUPDATE, IRSELECT, IRCAPTURE,
       IRSHIFT, IREXIT1, IRPAUSE, IREXIT2, IRUPDATE, BADSTATE

(* The wire a command begins on; and a delay's clocks in IDLE.             *)
LEMMA WireTracked ==
  ASSUME WireInv
  PROVE  /\ Wire \in Tracked /\ Wire.tap = tap_state /\ Wire.dev = dev /\ Wire.rc = 0
         /\ Wire.seen = {} /\ Wire.shifts = 0
BY WireAtType DEF WireInv, SyncInv, TypeOK, BeliefIsDevice, Wire, Tracked

LEMMA WaitsInIdle ==
  ASSUME NEW w \in Tracked
  PROVE  LET z == Lows(WalkTo(w, IDLE), 1)
         IN  /\ z \in Tracked /\ z.rc \in {0, -1}
             /\ z.rc = 0 => w.rc = 0 /\ z.tap = IDLE
<1> DEFINE x == WalkTo(w, IDLE)
           z == Lows(x, 1)
<1>1. x \in Tracked /\ x \in Wires /\ (x.rc = 0 => w.rc = 0 /\ x.tap = IDLE) /\ x.rc \in {0, -1}
  BY WalkTracks, StatesAreTargets DEF Tracked, Wires
<1>2. OnLow(IDLE) = IDLE
  BY RestsOnLow
<1> HIDE DEF x
<1>3. z \in Wires /\ z.tap = x.tap /\ z.rc = x.rc
  BY <1>1, LowsFacts
<1>4. x.rc = 0 => z.dev = x.dev
  BY <1>1, <1>2, LowsFacts, StatesAreTargets DEF Tracked
<1>5. x.rc = -1 => z = x
  BY <1>1, LowsFacts
<1> HIDE DEF z
<1>6. z \in Tracked
  BY <1>1, <1>3, <1>4, <1>5 DEF Tracked
<1>7. QED
  BY <1>1, <1>3, <1>6 DEF x, z

(* One try of a scan: it arrives in the shift state, shifts the register   *)
(* once, and keeps the belief right.                                       *)
LEMMA TriedFacts ==
  ASSUME WireInv, pc = "scan"
  PROVE  LET t == Tried(scan)
         IN  /\ t.wire \in Tracked /\ t.wire.rc \in {0, -1}
             /\ t.shifted = scan.len
             /\ tap_state = IDLE => t.seen \intersect {DRCAPTURE, IRCAPTURE} # {}
             /\ t.wire.rc = 0 /\ (scan.delay \/ scan.end = IDLE) => t.wire.tap = IDLE
<1> DEFINE w1 == WalkTo(Wire, scan.shift)
           w2 == Bits(w1, scan)
           w3 == Rest(w2, scan)
<1>1. /\ scan.shift \in ShiftState /\ scan.end \in WalkTarget /\ scan.end \in {IDLE, DRPAUSE, IRPAUSE, DRSHIFT}
      /\ scan.len \in Nat /\ scan.delay \in BOOLEAN
  BY StatesAreTargets DEF WireInv, Scanning
<1>2. /\ w1 \in Tracked /\ w1.rc = 0 /\ w1.tap = scan.shift /\ w1.dev = scan.shift
      /\ w1 \in Wires /\ w1.shifts \in Nat
      /\ tap_state = IDLE => w1.seen \intersect {DRCAPTURE, IRCAPTURE} # {}
  <2>1. w1.rc = 0 /\ w1.tap = scan.shift
    BY <1>1, WireTracked, WalkArrives, StatesAreTargets
  <2>2. w1 \in Tracked
    BY <1>1, WireTracked, WalkTracks, StatesAreTargets
  <2>3. tap_state = IDLE => w1.seen \intersect {DRCAPTURE, IRCAPTURE} # {}
    BY <1>1, WireTracked, WalkCaptures
  <2> HIDE DEF w1
  <2>4. QED
    BY <1>1, <2>1, <2>2, <2>3, StatesAreTargets DEF Tracked, Wires
<1>3. Tried(scan) = [wire |-> w3, shifted |-> w2.shifts - w1.shifts, seen |-> w1.seen]
  BY <1>2 DEF Tried
<1> HIDE DEF w1
<1>4. w2 \in Tracked /\ w2.rc = 0 /\ w2.shifts = w1.shifts + scan.len
  <2> DEFINE leaves == Leaves(w1, scan)
             x == Shifted(w1, scan.len, leaves)
  <2>1. leaves \in BOOLEAN /\ (leaves => scan.len # 0)
    BY <1>1 DEF Leaves
  <2>2. /\ x \in Wires /\ x.tap = w1.tap /\ x.rc = 0 /\ x.shifts = w1.shifts + scan.len
        /\ x.dev = IF leaves THEN w1.dev + 1 ELSE w1.dev
    <3>1. CASE scan.len # 0
      BY <1>1, <1>2, <2>1, <3>1, ShiftedFacts
    <3>2. CASE scan.len = 0
      <4>1. x = Lows(w1, 0) /\ ~leaves
        BY <2>1, <3>2 DEF Shifted
      <4>2. OnLow(w1.dev) = w1.dev
        BY <1>1, <1>2, RestsOnLow
      <4> HIDE DEF x, leaves
      <4>3. QED
        BY <1>1, <1>2, <3>2, <4>1, <4>2, LowsFacts
    <3>3. QED
      BY <3>1, <3>2
  <2>3. w2 = [x EXCEPT !.tap = IF leaves THEN @ + 1 ELSE @]
    BY DEF Bits
  <2>4. scan.shift + 1 \in TapState
    BY <1>1 DEF ShiftState, TapState, INIT, DRSHIFT, IRSHIFT, IRUPDATE
  <2> HIDE DEF x, leaves
  <2>5. QED
    BY <1>2, <2>1, <2>2, <2>3, <2>4 DEF Tracked, Wires
<1> HIDE DEF w2
<1>5. /\ w3 \in Tracked /\ w3.rc \in {0, -1}
      /\ w3.rc = 0 /\ (scan.delay \/ scan.end = IDLE) => w3.tap = IDLE
  <2>1. CASE scan.delay
    BY <1>4, <2>1, WaitsInIdle DEF Rest
  <2>2. CASE ~scan.delay
    <3>1. w3 = WalkTo(w2, scan.end)
      BY <2>2 DEF Rest
    <3> HIDE DEF w3
    <3>2. QED
      BY <1>1, <1>4, <2>2, <3>1, WalkTracks DEF Tracked, Wires
  <2>3. QED
    BY <2>1, <2>2
<1> HIDE DEF w3
<1>6. QED
  BY <1>1, <1>2, <1>3, <1>4, <1>5

-----------------------------------------------------------------------------
LEMMA NoTryFacts == NoTry.len = 0 /\ NoTry.first = TRUE /\ DOMAIN NoTry = DOMAIN NoTry
BY DEF NoTry

LEMMA NoScanFacts == NoScan.retries = 0 /\ NoScan.num = 0 /\ DOMAIN NoScan = DOMAIN NoScan
BY DEF NoScan

(* A step that tries nothing says nothing of a try.                        *)
LEMMA NotTried == ASSUME WireInv', last' = NoTry PROVE TryInv'
BY NoTryFacts DEF TryInv, TryIsExact, RetryIsFresh

LEMMA TryInit == Init => TryInv
<1> SUFFICES ASSUME Init PROVE TryInv
  OBVIOUS
<1>1. /\ pc = "closed" /\ tap_state = INIT /\ dev \in DevState /\ st = Fresh /\ ran = FALSE
      /\ scan = NoScan /\ pending = FALSE /\ rc = 0 /\ last = NoTry
  BY Inputs DEF Init
<1>2. Fresh.dr_size = 0 /\ Fresh.masks_for = 0 /\ Fresh.retries = 0
      /\ {Fresh.runtest, Fresh.xendir, Fresh.xenddr, Fresh.tdo_mask} \subseteq BOOLEAN
  BY DEF Fresh
<1>3. TypeOK
  <2>1. scan.retries = 0 /\ scan.num = 0 /\ st.dr_size = 0 /\ st.masks_for = 0 /\ st.retries = 0
        /\ {st.runtest, st.xendir, st.xenddr, st.tdo_mask, ran, pending} \subseteq BOOLEAN
    BY <1>1, <1>2, NoScanFacts
  <2>2. QED
    BY <1>1, <2>1, StatesAreTargets DEF TypeOK
<1>4. WireInv
  BY <1>1, <1>3 DEF WireInv, SyncInv, BeliefIsDevice, FieldsInv
<1>5. QED
  BY <1>1, <1>4, NoTryFacts DEF TryInv, TryIsExact, RetryIsFresh

(* The variables of a file.                                                *)
Settings(new) ==
  /\ DOMAIN new = DOMAIN Fresh
  /\ {new.dr_size, new.masks_for} \subseteq Sizes \union {0}
  /\ {new.runtest, new.xendir, new.xenddr, new.tdo_mask} \subseteq BOOLEAN
  /\ new.retries \in Repeats \union {0}

LEMMA SetsKeepTry ==
  ASSUME TryInv, NEW new, Settings(new), pc = "command", pc' = pc, st' = new, ran' \in BOOLEAN,
         UNCHANGED <<tap_state, dev, scan, pending, rc>>, last' = NoTry
  PROVE  TryInv'
<1>1. scan = NoScan /\ scan.retries = 0 /\ new.retries \in Nat
  BY Inputs, NoScanFacts DEF TryInv, WireInv, Settings
<1>2. TypeOK'
  BY <1>1 DEF TryInv, WireInv, SyncInv, TypeOK, Settings
<1>3. WireInv'
  BY <1>1, <1>2 DEF TryInv, WireInv, SyncInv, BeliefIsDevice, FieldsInv, Settings
<1>4. QED
  BY <1>3, NotTried

(* The wire moves, or the file ends, with the registers as they are.       *)
LEMMA MovesKeepTry ==
  ASSUME TryInv, pc' \in {pc, "end", "command", "closed"}, pc # "scan", rc' \in {0, -1}, ran' \in BOOLEAN,
         pending' \in BOOLEAN, NEW w \in Tracked, tap_state' = w.tap, dev' = w.dev, st' = st,
         scan' \in {scan, NoScan}, pc' \in {"closed", "command"} => scan' = NoScan, last' = NoTry
  PROVE  TryInv'
<1>1. tap_state' \in TapState /\ dev' \in DevState /\ (tap_state' # INIT => dev' = tap_state')
  BY DEF Tracked, Wires
<1>2. st.retries \in Nat /\ scan'.retries \in 0 .. st.retries /\ scan'.num \in 0 .. 255
      /\ DOMAIN scan' = DOMAIN NoScan
  <2>1. st.retries \in Nat /\ scan.retries \in 0 .. st.retries /\ scan.num \in 0 .. 255
        /\ DOMAIN scan = DOMAIN NoScan
    BY Inputs DEF TryInv, WireInv, SyncInv, TypeOK, FieldsInv
  <2>2. CASE scan' = scan
    BY <2>1, <2>2
  <2>3. CASE scan' = NoScan
    BY <2>1, <2>3, NoScanFacts
  <2>4. QED
    BY <2>2, <2>3
<1>3. TypeOK'
  BY <1>1, <1>2 DEF TryInv, WireInv, SyncInv, TypeOK
<1>4. WireInv'
  BY <1>1, <1>2, <1>3 DEF TryInv, WireInv, SyncInv, BeliefIsDevice, FieldsInv
<1>5. QED
  BY <1>4, NotTried

(* A scan is entered with all its tries left.                              *)
TryJob(job) ==
  /\ DOMAIN job = DOMAIN NoScan
  /\ job.shift \in ShiftState /\ job.end \in {IDLE, DRPAUSE, IRPAUSE, DRSHIFT}
  /\ job.delay \in BOOLEAN /\ job.len \in Nat /\ job.num \in 0 .. 255
  /\ job.retries \in {0, st.retries}
  /\ ~job.with \/ job.retries = st.retries

LEMMA ShiftKeepsTry ==
  ASSUME TryInv, pc \in {"command", "inc"}, NEW job, TryJob(job), Shift(job), UNCHANGED st, ran' \in BOOLEAN
  PROVE  TryInv'
<1>1. st.retries \in Nat
  BY Inputs DEF TryInv, WireInv, SyncInv, TypeOK
<1>2. CASE job.with /\ pending
  <2>1. /\ pc' = "end" /\ rc' = -1 /\ pending' = FALSE /\ last' = NoTry
        /\ UNCHANGED <<scan, tap_state, dev>>
    BY <1>2 DEF Shift, NoTried
  <2>2. TypeOK'
    BY <2>1 DEF TryInv, WireInv, SyncInv, TypeOK
  <2>3. WireInv'
    BY <2>1, <2>2 DEF TryInv, WireInv, SyncInv, BeliefIsDevice, FieldsInv
  <2>4. QED
    BY <2>1, <2>3, NotTried
<1>3. CASE ~(job.with /\ pending)
  <2>1. /\ pc' = "scan" /\ scan' = job /\ last' = NoTry
        /\ UNCHANGED <<tap_state, dev, pending, rc>>
    BY <1>3 DEF Shift, NoTried
  <2>2. TypeOK'
    BY <1>1, <2>1 DEF TryInv, WireInv, SyncInv, TypeOK, TryJob
  <2>3. Scanning'
    BY <2>1 DEF Scanning, FirstTry, TryJob
  <2>4. WireInv'
    BY <2>1, <2>2, <2>3 DEF TryInv, WireInv, SyncInv, BeliefIsDevice, FieldsInv, TryJob
  <2>5. QED
    BY <2>1, <2>4, NotTried
<1>4. QED
  BY <1>2, <1>3

(* The jobs of the commands.                                               *)
LEMMA DrScanFields ==
  ASSUME NEW retries \in Nat, NEW e, NEW d, NEW c
  PROVE  LET job == DrScan(retries, e, d, c)
         IN  /\ DOMAIN job = DOMAIN NoScan /\ job.shift = DRSHIFT /\ job.end = e /\ job.delay = d
             /\ job.retries = retries /\ job.with = (retries > 0) /\ job.len = st.dr_size /\ job.num = 0
BY DEF DrScan, NoScan

LEMMA JobTypes ==
  ASSUME TryInv
  PROVE  /\ st.retries \in Nat /\ st.dr_size \in Nat /\ st.runtest \in BOOLEAN
         /\ DRSHIFT \in ShiftState /\ IRSHIFT \in ShiftState /\ 0 \in 0 .. 255
<1>1. TypeOK
  BY DEF TryInv, WireInv, SyncInv
<1>2. st.retries \in Nat
  BY <1>1, Inputs DEF TypeOK
<1>3. st.dr_size \in Nat
  BY <1>1, Inputs DEF TypeOK
<1>4. st.runtest \in BOOLEAN
  BY <1>1 DEF TypeOK
<1>5. DRSHIFT \in ShiftState /\ IRSHIFT \in ShiftState /\ 0 \in 0 .. 255
  BY DEF ShiftState
<1>6. QED
  BY <1>2, <1>3, <1>4, <1>5

LEMMA FullIsTryJob == ASSUME TryInv PROVE TryJob(FullScan)
<1>1. EndOf(st.xenddr, DRPAUSE) \in {IDLE, DRPAUSE, IRPAUSE, DRSHIFT}
  BY DEF EndOf
<1>2. QED
  BY <1>1, JobTypes, DrScanFields DEF FullScan, TryJob

LEMMA IncIsTryJob ==
  ASSUME TryInv, NEW num \in 0 .. 255, NEW tdi
  PROVE  TryJob([FullScan EXCEPT !.inc = TRUE, !.num = num, !.tdi = tdi])
<1> DEFINE job == [FullScan EXCEPT !.inc = TRUE, !.num = num, !.tdi = tdi]
<1>1. DOMAIN FullScan = DOMAIN NoScan
  BY FullIsTryJob DEF TryJob
<1>2. /\ DOMAIN job = DOMAIN FullScan /\ job.shift = FullScan.shift /\ job.end = FullScan.end
      /\ job.delay = FullScan.delay /\ job.retries = FullScan.retries /\ job.with = FullScan.with
      /\ job.len = FullScan.len /\ job.num = num
  BY <1>1 DEF NoScan
<1> HIDE DEF job
<1>3. TryJob(job)
  BY <1>2, FullIsTryJob DEF TryJob
<1>4. QED
  BY <1>3 DEF job

LEMMA DrIsTryJob ==
  ASSUME TryInv, NEW end \in {IDLE, DRPAUSE, IRPAUSE, DRSHIFT}
  PROVE  TryJob(DrScan(0, end, FALSE, FALSE))
<1> DEFINE no  == FALSE
           job == DrScan(0, end, no, no)
<1>1. 0 \in Nat /\ no \in BOOLEAN
  OBVIOUS
<1> HIDE DEF no
<1>2. /\ DOMAIN job = DOMAIN NoScan /\ job.shift = DRSHIFT /\ job.end = end /\ job.delay = no
      /\ job.retries = 0 /\ job.with = (0 > 0) /\ job.len = st.dr_size /\ job.num = 0
  BY <1>1, DrScanFields
<1> HIDE DEF job
<1>3. (0 > 0) = FALSE
  OBVIOUS
<1>4. ~job.with
  BY <1>2, <1>3, Zenon
<1>5. TryJob(job)
  BY <1>1, <1>2, <1>4, JobTypes DEF TryJob
<1>6. QED
  BY <1>5 DEF job, no

LEMMA IrIsTryJob ==
  ASSUME TryInv, NEW end \in {IDLE, DRPAUSE, IRPAUSE, DRSHIFT}, NEW n \in Sizes
  PROVE  TryJob([NoScan EXCEPT !.shift = IRSHIFT, !.end = end, !.delay = st.runtest,
                   !.retries = st.retries, !.with = st.retries > 0, !.len = n])
<1> DEFINE job == [NoScan EXCEPT !.shift = IRSHIFT, !.end = end, !.delay = st.runtest,
                     !.retries = st.retries, !.with = st.retries > 0, !.len = n]
<1>1. /\ DOMAIN job = DOMAIN NoScan /\ job.shift = IRSHIFT /\ job.end = end /\ job.delay = st.runtest
      /\ job.retries = st.retries /\ job.len = n /\ job.num = 0
  BY DEF NoScan
<1>2. n \in Nat
  BY Inputs
<1> HIDE DEF job
<1>3. TryJob(job)
  BY <1>1, <1>2, JobTypes DEF TryJob
<1>4. QED
  BY <1>3 DEF job

(* One try, repeated or not.                                               *)
LEMMA TryKeepsTry == ASSUME TryInv, Try PROVE TryInv'
<1> DEFINE t == Tried(scan)
<1>1. /\ pc = "scan" /\ st' = st /\ ran' = ran
      /\ tap_state' = t.wire.tap /\ dev' = t.wire.dev
      /\ last' = [first |-> ~scan.with \/ scan.retries = st.retries,
                  paused |-> scan.end # IDLE /\ ~scan.delay,
                  shifted |-> t.shifted, len |-> scan.len, seen |-> t.seen]
      /\ broke' = (t.wire.rc < 0)
  BY DEF Try
<1>2. PICK o \in Outcomes(scan) :
        /\ pending' = ((pending \/ o.bad) /\ ~o.seen)
        /\ \/ /\ ~broke' /\ ~o.seen
              /\ \/ scan.inc /\ pc' = "inc" /\ UNCHANGED scan
                 \/ ~scan.inc /\ pc' = "command" /\ scan' = NoScan
              /\ missed' = (missed \/ o.bad) /\ UNCHANGED rc
           \/ /\ broke' \/ (o.seen /\ ~MayRepeat)
              /\ pc' = "end" /\ rc' = -1
              /\ missed' = (missed \/ o.bad) /\ UNCHANGED scan
           \/ /\ ~broke' /\ o.seen /\ MayRepeat
              /\ scan' = [scan EXCEPT !.retries = @ - 1] /\ UNCHANGED <<pc, rc, missed>>
  BY DEF Try
<1>3. /\ t.wire \in Tracked /\ t.wire.rc \in {0, -1} /\ t.shifted = scan.len
      /\ tap_state = IDLE => t.seen \intersect {DRCAPTURE, IRCAPTURE} # {}
      /\ t.wire.rc = 0 /\ (scan.delay \/ scan.end = IDLE) => t.wire.tap = IDLE
  BY <1>1, TriedFacts DEF TryInv
<1> HIDE DEF t
<1>4. tap_state' \in TapState /\ dev' \in DevState /\ (tap_state' # INIT => dev' = tap_state')
  BY <1>1, <1>3 DEF Tracked, Wires
<1>5. pending' \in BOOLEAN
  BY <1>2
<1>6. /\ DOMAIN scan = DOMAIN NoScan /\ scan.retries \in 0 .. st.retries /\ scan.num \in 0 .. 255
      /\ st.retries \in Nat /\ Scanning
  BY <1>1, Inputs DEF TryInv, WireInv, SyncInv, TypeOK, FieldsInv
<1>7. TryIsExact'
  BY <1>1, <1>3 DEF TryIsExact
<1>8. RetryIsFresh'
  <2>1. ~last'.first => ~FirstTry
    BY <1>1 DEF FirstTry
  <2>2. ~last'.paused => scan.delay \/ scan.end = IDLE
    BY <1>1
  <2>3. last'.seen = t.seen
    BY <1>1
  <2>4. QED
    BY <1>3, <1>6, <2>1, <2>2, <2>3 DEF RetryIsFresh, Scanning
<1>9. DOMAIN last' = DOMAIN NoTry
  BY <1>1 DEF NoTry
<1>10. CASE pc' = "inc" /\ scan' = scan /\ rc' = rc
  <2>1. TypeOK'
    BY <1>1, <1>4, <1>5, <1>6, <1>10 DEF TryInv, WireInv, SyncInv, TypeOK
  <2>2. WireInv'
    BY <1>1, <1>4, <1>9, <1>10, <2>1 DEF TryInv, WireInv, SyncInv, BeliefIsDevice, FieldsInv
  <2>3. QED
    BY <1>7, <1>8, <2>2 DEF TryInv
<1>11. CASE pc' = "command" /\ scan' = NoScan /\ rc' = rc
  <2>1. TypeOK'
    BY <1>1, <1>4, <1>5, <1>6, <1>11, NoScanFacts DEF TryInv, WireInv, SyncInv, TypeOK
  <2>2. WireInv'
    BY <1>1, <1>4, <1>9, <1>11, <2>1 DEF TryInv, WireInv, SyncInv, BeliefIsDevice, FieldsInv
  <2>3. QED
    BY <1>7, <1>8, <2>2 DEF TryInv
<1>12. CASE pc' = "end" /\ scan' = scan /\ rc' = -1
  <2>1. TypeOK'
    BY <1>1, <1>4, <1>5, <1>6, <1>12 DEF TryInv, WireInv, SyncInv, TypeOK
  <2>2. WireInv'
    BY <1>1, <1>4, <1>9, <1>12, <2>1 DEF TryInv, WireInv, SyncInv, BeliefIsDevice, FieldsInv
  <2>3. QED
    BY <1>7, <1>8, <2>2 DEF TryInv
<1>13. CASE ~broke' /\ MayRepeat /\ scan' = [scan EXCEPT !.retries = @ - 1] /\ pc' = pc /\ rc' = rc
  <2>1. /\ scan'.shift = scan.shift /\ scan'.end = scan.end /\ scan'.delay = scan.delay
        /\ scan'.len = scan.len /\ scan'.num = scan.num /\ scan'.retries = scan.retries - 1
        /\ DOMAIN scan' = DOMAIN NoScan
    BY <1>6, <1>13 DEF NoScan
  <2>2. scan'.retries \in 0 .. st.retries
    BY <1>6, <1>13, <2>1 DEF MayRepeat
  <2>3. TypeOK'
    BY <1>1, <1>4, <1>5, <1>6, <1>13, <2>1, <2>2 DEF TryInv, WireInv, SyncInv, TypeOK
  <2>4. t.wire.rc = 0
    <3>1. ~(t.wire.rc < 0)
      BY <1>1, <1>13, Zenon
    <3>2. QED
      BY <1>3, <3>1
  <2>5. Scanning'
    BY <1>1, <1>3, <1>6, <2>1, <2>4 DEF Scanning
  <2>6. WireInv'
    BY <1>1, <1>4, <1>9, <1>13, <2>1, <2>3, <2>5 DEF TryInv, WireInv, SyncInv, BeliefIsDevice, FieldsInv
  <2>7. QED
    BY <1>7, <1>8, <2>6 DEF TryInv
<1>14. QED
  BY <1>2, <1>10, <1>11, <1>12, <1>13

(* Every step keeps it.                                                    *)
LEMMA TryNext == TryInv /\ [Next]_vars => TryInv'
<1> SUFFICES ASSUME TryInv, [Next]_vars PROVE TryInv'
  OBVIOUS
<1>0. /\ WireInv /\ Wire \in Tracked /\ DOMAIN st = DOMAIN Fresh
      /\ Wire.tap = tap_state /\ Wire.dev = dev
      /\ tap_state \in TapState /\ dev \in DevState /\ rc \in {0, -1}
      /\ pending \in BOOLEAN /\ ran \in BOOLEAN /\ scan.num \in 0 .. 255
      /\ DOMAIN scan = DOMAIN NoScan /\ (pc = "command" => scan = NoScan)
  BY WireTracked DEF TryInv, WireInv, SyncInv, TypeOK, FieldsInv
<1>00. Settings(st)
  BY <1>0 DEF WireInv, SyncInv, TypeOK, Settings
<1>1. CASE Open
  <2>1. /\ pc = "closed" /\ pc' = "command" /\ rc' = 0 /\ ran' = FALSE
        /\ tap_state' = INIT /\ dev' \in DevState /\ st' = Fresh /\ scan' = scan /\ pending' = pending
        /\ last' = NoTry
    BY <1>1, Inputs DEF Open, NoTried
  <2>2. scan = NoScan
    BY <1>0, <2>1 DEF WireInv
  <2>3. /\ Fresh.dr_size = 0 /\ Fresh.masks_for = 0 /\ Fresh.retries = 0
        /\ {Fresh.runtest, Fresh.xendir, Fresh.xenddr, Fresh.tdo_mask} \subseteq BOOLEAN
    BY DEF Fresh
  <2>4. st'.dr_size = 0 /\ st'.masks_for = 0 /\ st'.retries = 0 /\ scan'.retries = 0 /\ scan'.num = 0
        /\ {st'.runtest, st'.xendir, st'.xenddr, st'.tdo_mask, ran', pending'} \subseteq BOOLEAN
    BY <1>0, <2>1, <2>2, <2>3, NoScanFacts
  <2>5. TypeOK'
    BY <2>1, <2>4, StatesAreTargets DEF TypeOK
  <2>6. WireInv'
    BY <2>1, <2>2, <2>5, <1>0 DEF WireInv, SyncInv, BeliefIsDevice, FieldsInv
  <2>7. QED
    BY <2>1, <2>6, NotTried
<1>2. ASSUME NEW new, Settings(new), Sets(new) PROVE TryInv'
  BY <1>2, SetsKeepTry DEF Sets, Command, NoTried
<1>3. CASE XCOMMENT \/ XTDOMASK \/ \E v \in BOOLEAN : XENDIR(v) \/ XENDDR(v)
  <2>1. ASSUME NEW v \in BOOLEAN
        PROVE  /\ Settings([st EXCEPT !.xendir = v]) /\ Settings([st EXCEPT !.xenddr = v])
               /\ Settings([st EXCEPT !.tdo_mask = v])
    BY <1>0, <1>00 DEF Settings, Fresh
  <2>2. CASE XCOMMENT
    BY <1>00, <1>2, <2>2 DEF XCOMMENT
  <2>3. CASE XTDOMASK
    BY <1>2, <2>1, <2>3 DEF XTDOMASK
  <2>4. CASE \E v \in BOOLEAN : XENDIR(v) \/ XENDDR(v)
    BY <1>2, <2>1, <2>4 DEF XENDIR, XENDDR
  <2>5. QED
    BY <1>3, <2>2, <2>3, <2>4
<1>4. ASSUME NEW n \in Repeats, XREPEAT(n) PROVE TryInv'
  <2>1. Settings([st EXCEPT !.retries = n])
    BY <1>0, <1>00 DEF Settings, Fresh
  <2>2. QED
    BY <1>2, <1>4, <2>1 DEF XREPEAT
<1>5. ASSUME NEW n \in Sizes, XSDRSIZE(n) PROVE TryInv'
  <2>1. PICK some \in BOOLEAN : Sets([st EXCEPT !.dr_size = n, !.tdo_mask = some])
    BY <1>5 DEF XSDRSIZE
  <2>2. Settings([st EXCEPT !.dr_size = n, !.tdo_mask = some])
    BY <1>0, <1>00 DEF Settings, Fresh
  <2>3. QED
    BY <1>2, <2>1, <2>2
<1>6. ASSUME NEW a, NEW d, XSETSDRMASKS(a, d) PROVE TryInv'
  <2>1. Settings([st EXCEPT !.addr_mask = a, !.data_mask = d, !.masks_for = st.dr_size])
    BY <1>0, <1>00 DEF Settings, Fresh
  <2>2. QED
    BY <1>2, <1>6, <2>1 DEF XSETSDRMASKS
<1>7. ASSUME NEW v \in BOOLEAN, XRUNTEST(v) PROVE TryInv'
  <2>1. Settings([st EXCEPT !.runtest = v])
    BY <1>0, <1>00 DEF Settings, Fresh
  <2>2. QED
    BY <1>7, <2>1, SetsKeepTry DEF XRUNTEST, Command, NoTried
<1>8. ASSUME NEW w \in Tracked, pc \in {"command", "inc"}, tap_state' = w.tap, dev' = w.dev,
             Fails \/ (pc = "command" /\ UNCHANGED <<pc, rc, missed, broke>>), ran' = FALSE,
             UNCHANGED <<st, scan, pending>>, last' = NoTry
      PROVE  TryInv'
  BY <1>0, <1>8, MovesKeepTry DEF Fails
<1>9. ASSUME NEW s \in GoStates, XSTATE(s) PROVE TryInv'
  <2> DEFINE w == IF st.runtest /\ ran THEN Lows(WalkTo(Wire, IDLE), 1) ELSE Wire
             z == WalkTo(w, s)
  <2>1. w \in Tracked
    BY <1>0, WaitsInIdle
  <2>2. z \in Tracked
    BY <2>1, WalkTracks, Inputs
  <2>3. /\ pc = "command" /\ ran' = FALSE /\ UNCHANGED <<st, scan, pending>> /\ last' = NoTry
        /\ \/ /\ tap_state' = z.tap /\ dev' = z.dev
              /\ IF z.rc < 0 THEN Fails ELSE UNCHANGED <<pc, rc, missed, broke>>
           \/ tap_state' = w.tap /\ dev' = w.dev /\ Fails
    BY <1>9 DEF XSTATE, Command, NoTried
  <2> HIDE DEF w, z
  <2>4. QED
    BY <1>8, <2>1, <2>2, <2>3
<1>10. ASSUME NEW s1 \in GoStates, NEW s2 \in GoStates, XWAIT(s1, s2) PROVE TryInv'
  <2> DEFINE z == WalkTo(WalkTo(Wire, s1), s2)
  <2>1. z \in Tracked
    BY <1>0, WalkTracks, Inputs
  <2>2. /\ pc = "command" /\ ran' = FALSE /\ UNCHANGED <<st, scan, pending>> /\ last' = NoTry
        /\ tap_state' = z.tap /\ dev' = z.dev
        /\ Fails \/ UNCHANGED <<pc, rc, missed, broke>>
    BY <1>10 DEF XWAIT, Command, NoTried
  <2> HIDE DEF z
  <2>3. QED
    BY <1>8, <2>1, <2>2
<1>11. CASE XCOMPLETE
  <2>1. pc = "command" /\ pc' = "end" /\ ran' = FALSE /\ last' = NoTry
        /\ UNCHANGED <<tap_state, dev, st, scan, pending, rc>>
    BY <1>11 DEF XCOMPLETE, Command, NoTried
  <2>2. QED
    BY <1>0, <2>1, MovesKeepTry
<1>12. CASE Broken
  <2>1. pc \in {"command", "inc"} /\ Fails /\ ran' = FALSE /\ last' = NoTry
        /\ UNCHANGED <<tap_state, dev, st, scan, pending>>
    BY <1>12 DEF Broken, NoTried
  <2>2. QED
    BY <1>0, <1>8, <2>1
<1>13. ASSUME NEW job, TryJob(job), Scans(job) PROVE TryInv'
  BY <1>13, ShiftKeepsTry DEF Scans, Command
<1>14. CASE XSDR \/ XSDRB \/ XSDRE
  <2>1. EndOf(st.xenddr, DRPAUSE) \in {IDLE, DRPAUSE, IRPAUSE, DRSHIFT}
    BY DEF EndOf
  <2>2. TryJob(FullScan) /\ TryJob(DrScan(0, DRSHIFT, FALSE, FALSE))
        /\ TryJob(DrScan(0, EndOf(st.xenddr, DRPAUSE), FALSE, FALSE))
    BY <2>1, FullIsTryJob, DrIsTryJob
  <2>3. QED
    BY <1>13, <1>14, <2>2 DEF XSDR, XSDRB, XSDRE
<1>15. ASSUME NEW n \in Sizes, XSIR(n) PROVE TryInv'
  <2>1. EndOf(st.xendir, IRPAUSE) \in {IDLE, DRPAUSE, IRPAUSE, DRSHIFT} /\ st.runtest \in BOOLEAN
    BY <1>00 DEF EndOf, Settings
  <2>2. QED
    BY <1>13, <1>15, <2>1, IrIsTryJob DEF XSIR
<1>16. ASSUME NEW tdi, NEW n \in Counts, XSDRINC(tdi, n) PROVE TryInv'
  BY <1>13, <1>16, IncIsTryJob, Inputs DEF XSDRINC
<1>17. CASE Try
  BY <1>17, TryKeepsTry
<1>18. CASE Increment
  <2>1. /\ pc = "inc" /\ st' = st /\ ran' = ran
        /\ \/ /\ pc' = "command" /\ scan' = NoScan /\ last' = NoTry
              /\ UNCHANGED <<tap_state, dev, pending, rc>>
           \/ /\ scan.num > 0
              /\ \E tdi : Shift([FullScan EXCEPT !.inc = TRUE, !.num = scan.num - 1, !.tdi = tdi])
    BY <1>18 DEF Increment, NoTried
  <2>2. CASE pc' = "command" /\ scan' = NoScan /\ last' = NoTry /\ UNCHANGED <<tap_state, dev, pending, rc>>
    BY <1>0, <2>1, <2>2, MovesKeepTry
  <2>3. CASE /\ scan.num > 0
             /\ \E tdi : Shift([FullScan EXCEPT !.inc = TRUE, !.num = scan.num - 1, !.tdi = tdi])
    <3>1. scan.num - 1 \in 0 .. 255
      BY <1>0, <2>3
    <3>2. PICK tdi : Shift([FullScan EXCEPT !.inc = TRUE, !.num = scan.num - 1, !.tdi = tdi])
      BY <2>3
    <3>3. TryJob([FullScan EXCEPT !.inc = TRUE, !.num = scan.num - 1, !.tdi = tdi])
      BY <3>1, IncIsTryJob
    <3>4. QED
      BY <1>0, <2>1, <3>2, <3>3, ShiftKeepsTry
  <2>4. QED
    BY <2>1, <2>2, <2>3
<1>19. CASE Close
  <2>1. /\ pc = "end" /\ pc' = "closed" /\ rc' \in {0, -1} /\ pending' = FALSE /\ scan' = NoScan
        /\ UNCHANGED <<st, ran>> /\ last' = NoTry
        /\ tap_state' = WalkTo(Wire, RESET).tap /\ dev' = WalkTo(Wire, RESET).dev
    BY <1>0, <1>19 DEF Close, NoTried
  <2>2. WalkTo(Wire, RESET) \in Tracked
    BY <1>0, WalkTracks, StatesAreTargets
  <2>3. QED
    BY <1>0, <2>1, <2>2, MovesKeepTry
<1>20. CASE UNCHANGED vars
  BY <1>20 DEF vars, TryInv, WireInv, SyncInv, TypeOK, BeliefIsDevice, FieldsInv, Scanning,
     FirstTry, TryIsExact, RetryIsFresh
<1>21. QED
  BY <1>1, <1>3, <1>4, <1>5, <1>6, <1>7, <1>9, <1>10, <1>11, <1>12, <1>14, <1>15, <1>16,
     <1>17, <1>18, <1>19, <1>20 DEF Next

(* h->tap_state is the device's state after every command and every try,   *)
(* for all files: whatever they name, and however often they repeat.       *)
THEOREM SyncInvAlways == Spec => []SyncInv
<1>1. TryInv => SyncInv
  BY DEF TryInv, WireInv
<1>2. QED
  BY <1>1, TryInit, TryNext, PTL DEF Spec

(* Every try of a scan shifts as many bits as the register has, for        *)
(* registers of any length.                                                *)
THEOREM TryIsExactAlways == Spec => []TryIsExact
<1>1. TryInv => TryIsExact
  BY DEF TryInv
<1>2. QED
  BY <1>1, TryInit, TryNext, PTL DEF Spec

(* A repeated try looks at newly captured bits, unless the scan ends in a  *)
(* Pause without a delay.                                                  *)
THEOREM RetryIsFreshAlways == Spec => []RetryIsFresh
<1>1. TryInv => RetryIsFresh
  BY DEF TryInv
<1>2. QED
  BY <1>1, TryInit, TryNext, PTL DEF Spec

-----------------------------------------------------------------------------
(* XSDRINC's counter: the address bits in a register of n bits.            *)
IsValue(f, tdi, n) ==
  f = [k \in 0 .. n |-> IF k = 0 THEN 0
                        ELSE IF k - 1 \in st.addr_mask THEN 2 * f[k - 1] + tdi[k - 1] ELSE f[k - 1]]

LEMMA ValueExists == ASSUME NEW tdi, NEW n \in Nat PROVE \E f : IsValue(f, tdi, n)
<1> DEFINE Value(f, k) == IF k = 0 THEN 0
                          ELSE IF k - 1 \in st.addr_mask THEN 2 * f[k - 1] + tdi[k - 1] ELSE f[k - 1]
           Is(f, m) == f = [k \in 0 .. m |-> Value(f, k)]
           T == {m \in 0 .. n : \E f : Is(f, m)}
<1>1. 0 \in T
  <2> DEFINE f == [k \in 0 .. 0 |-> 0]
  <2>1. Is(f, 0)
    OBVIOUS
  <2> HIDE DEF f
  <2>2. \E g : Is(g, 0)
    BY <2>1
  <2> HIDE DEF Is
  <2>3. QED
    BY <2>2
<1>2. ASSUME NEW m \in 0 .. n - 1, m \in T PROVE m + 1 \in T
  <2>1. PICK f : Is(f, m)
    BY <1>2
  <2> DEFINE g == [k \in 0 .. m + 1 |-> IF k <= m THEN f[k] ELSE Value(f, m + 1)]
  <2>2. ASSUME NEW k \in 0 .. m + 1 PROVE Value(g, k) = Value(f, k)
    <3>1. CASE k = 0
      BY <3>1
    <3>2. CASE k # 0
      <4>1. k - 1 \in 0 .. m /\ k - 1 \in 0 .. m + 1 /\ k - 1 <= m
        BY <3>2
      <4>2. g[k - 1] = f[k - 1]
        BY <4>1
      <4> HIDE DEF g
      <4>3. QED
        BY <4>2
    <3>3. QED
      BY <3>1, <3>2
  <2>3. ASSUME NEW k \in 0 .. m + 1 PROVE g[k] = Value(f, k)
    <3> HIDE DEF Value
    <3>1. k <= m \/ k = m + 1
      OBVIOUS
    <3>2. k <= m => f[k] = Value(f, k)
      BY <2>1
    <3>3. QED
      BY <3>1, <3>2
  <2>4. g = [k \in 0 .. m + 1 |-> g[k]]
    OBVIOUS
  <2> HIDE DEF g, Value
  <2>5. Is(g, m + 1)
    BY <2>2, <2>3, <2>4
  <2>6. m + 1 \in 0 .. n
    OBVIOUS
  <2>7. QED
    BY <2>5, <2>6
<1> HIDE DEF T
<1>3. 0 .. n \subseteq T
  BY <1>1, <1>2, AlongNumbers
<1>4. QED
  BY <1>3 DEF T, IsValue

LEMMA AddressSteps ==
  ASSUME NEW tdi, NEW n \in Nat
  PROVE  \E f : /\ f[0] = 0 /\ Address(tdi, n) = f[n]
                /\ \A k \in 0 .. n - 1 :
                     f[k + 1] = IF k \in st.addr_mask THEN 2 * f[k] + tdi[k] ELSE f[k]
<1> DEFINE F == CHOOSE f : IsValue(f, tdi, n)
<1>1. IsValue(F, tdi, n)
  BY ValueExists
<1>2. Address(tdi, n) = F[n]
  BY DEF Address, IsValue
<1> HIDE DEF F
<1>3. F[0] = 0
  BY <1>1 DEF IsValue
<1>4. ASSUME NEW k \in 0 .. n - 1
      PROVE  F[k + 1] = IF k \in st.addr_mask THEN 2 * F[k] + tdi[k] ELSE F[k]
  <2>1. k + 1 \in 0 .. n /\ k + 1 # 0 /\ (k + 1) - 1 = k
    OBVIOUS
  <2>2. QED
    BY <1>1, <2>1 DEF IsValue
<1>5. QED
  BY <1>2, <1>3, <1>4

(* The number f[n] is read off the digits t at the places A; u is t counted *)
(* up by a carry from the last digit.                                      *)
ReadsOff(f, A, n, t) ==
  f[0] = 0 /\ \A k \in 0 .. n - 1 : f[k + 1] = IF k \in A THEN 2 * f[k] + t[k] ELSE f[k]

Carried(A, t, u) ==
  \A k \in A : /\ t[k] \in {0, 1}
              /\ u[k] = IF \A q \in A : q > k => t[q] = 1 THEN 1 - t[k] ELSE t[k]

(* All ones become zeros, else one is added.                               *)
LEMMA CarryAddsOne ==
  ASSUME NEW n \in Nat, NEW A \in SUBSET (0 .. n - 1), NEW t, NEW u, NEW f, NEW g,
         Carried(A, t, u), ReadsOff(f, A, n, t), ReadsOff(g, A, n, u)
  PROVE  g[n] = IF \A k \in A : t[k] = 1 THEN 0 ELSE f[n] + 1
<1> USE DEF Carried, ReadsOff
<1> DEFINE On(k) == \A q \in A : q >= k => t[q] = 1
           In(k) == IF On(k) THEN 1 ELSE 0
<1>1. ASSUME NEW k \in A
      PROVE  /\ (\A q \in A : q > k => t[q] = 1) <=> On(k + 1)
             /\ On(k) <=> On(k + 1) /\ t[k] = 1
  <2>1. \A q \in A : q \in Int /\ (q > k <=> q >= k + 1) /\ (q >= k <=> q > k \/ q = k)
    OBVIOUS
  <2>2. QED
    BY <2>1
<1>2. ASSUME NEW k \in 0 .. n - 1, k \notin A PROVE On(k) <=> On(k + 1)
  <2>1. \A q \in A : q \in Int /\ (q >= k <=> q >= k + 1)
    BY <1>2
  <2>2. QED
    BY <2>1
<1>3. On(n)
  OBVIOUS
<1>4. On(0) <=> \A k \in A : t[k] = 1
  OBVIOUS
<1>5. ASSUME NEW k \in A
      PROVE  /\ On(k + 1) => u[k] = 1 - t[k]
             /\ ~On(k + 1) => u[k] = t[k]
             /\ t[k] = 0 \/ t[k] = 1
  BY <1>1
<1> HIDE DEF On
<1>6. CASE On(0)
  <2> DEFINE T == {k \in 0 .. n : g[k] = 0}
  <2>1. \A k \in A : t[k] = 1
    BY <1>4, <1>6
  <2>2. ASSUME NEW k \in 0 .. n - 1, k \in T PROVE k + 1 \in T
    <3>1. k \in A => u[k] = 0
      BY <2>1
    <3>2. g[k + 1] = IF k \in A THEN 2 * g[k] + u[k] ELSE g[k]
      OBVIOUS
    <3>3. g[k] = 0
      BY <2>2
    <3>4. QED
      BY <3>1, <3>2, <3>3
  <2>3. 0 \in T
    OBVIOUS
  <2> HIDE DEF T
  <2>4. 0 .. n \subseteq T
    BY <2>2, <2>3, AlongNumbers
  <2>5. n \in T
    BY <2>4
  <2>6. QED
    BY <1>4, <1>6, <2>5 DEF T
<1>7. CASE ~On(0)
  <2> DEFINE T == {k \in 0 .. n : f[k] \in Int /\ g[k] = f[k] + In(k)}
  <2>1. 0 \in T
    BY <1>7
  <2>2. ASSUME NEW k \in 0 .. n - 1, k \in T PROVE k + 1 \in T
    <3>1. /\ g[k + 1] = IF k \in A THEN 2 * g[k] + u[k] ELSE g[k]
          /\ f[k + 1] = IF k \in A THEN 2 * f[k] + t[k] ELSE f[k]
      OBVIOUS
    <3>2. f[k] \in Int /\ (On(k) => g[k] = f[k] + 1) /\ (~On(k) => g[k] = f[k] + 0)
      BY <2>2
    <3>3. k + 1 \in 0 .. n
      OBVIOUS
    <3>4. CASE k \notin A
      <4>1. On(k) <=> On(k + 1)
        BY <1>2, <3>4
      <4>2. f[k + 1] = f[k] /\ g[k + 1] = g[k]
        BY <3>1, <3>4
      <4>3. g[k + 1] = f[k + 1] + In(k + 1) /\ f[k + 1] \in Int
        BY <3>2, <4>1, <4>2
      <4>4. QED
        BY <3>3, <4>3
    <3>5. CASE k \in A
      <4>1. f[k + 1] = 2 * f[k] + t[k] /\ g[k + 1] = 2 * g[k] + u[k]
        BY <3>1, <3>5
      <4>2. On(k) <=> On(k + 1) /\ t[k] = 1
        BY <1>1, <3>5
      <4>3. CASE ~On(k + 1)
        <5>1. g[k] = f[k] + 0 /\ u[k] = t[k] /\ (t[k] = 0 \/ t[k] = 1)
          BY <1>5, <3>2, <3>5, <4>2, <4>3
        <5>2. f[k + 1] \in Int /\ g[k + 1] = f[k + 1] + 0
          BY <3>2, <4>1, <5>1
        <5>3. QED
          BY <3>3, <4>3, <5>2
      <4>4. CASE On(k + 1)
        <5>1. u[k] = 1 - t[k] /\ (t[k] = 0 \/ t[k] = 1)
          BY <1>5, <3>5, <4>4
        <5>2. /\ t[k] = 1 => g[k] = f[k] + 1
              /\ t[k] = 0 => g[k] = f[k] + 0
          BY <3>2, <4>2, <4>4
        <5>3. f[k + 1] \in Int /\ g[k + 1] = f[k + 1] + 1
          BY <3>2, <4>1, <5>1, <5>2
        <5>4. QED
          BY <3>3, <4>4, <5>3
      <4>5. QED
        BY <4>3, <4>4
    <3>6. QED
      BY <3>4, <3>5
  <2> HIDE DEF T
  <2>3. 0 .. n \subseteq T
    BY <2>1, <2>2, AlongNumbers
  <2>4. n \in T
    BY <2>3
  <2>5. QED
    BY <1>3, <1>4, <1>7, <2>4 DEF T
<1>8. QED
  BY <1>6, <1>7

(* The masks were made for the register that XSDRINC shifts, and no bit is *)
(* in both; its TDI bits are bits.                                         *)
Masks(new) ==
  /\ new.dr_size \in Nat /\ new.masks_for \in Nat
  /\ new.addr_mask \union new.data_mask \subseteq Positions(new.masks_for)
  /\ new.addr_mask \intersect new.data_mask = {}

Register(tdi) == tdi \in [Positions(st.dr_size) -> {0, 1}] /\ st.masks_for = st.dr_size

CountInv ==
  /\ VerdictInv
  /\ Masks(st)
  /\ pc = "inc" => scan.inc
  /\ pc \in {"scan", "inc"} /\ scan.inc => Register(scan.tdi)

LEMMA CountInit == Init => CountInv
<1> SUFFICES ASSUME Init PROVE CountInv
  OBVIOUS
<1>1. pc = "closed" /\ st = Fresh /\ VerdictInv
  BY VerdictInit DEF Init
<1>2. Masks(Fresh)
  BY DEF Masks, Fresh
<1>3. QED
  BY <1>1, <1>2 DEF CountInv

(* A step that starts no scan.                                             *)
LEMMA CountKeeps ==
  ASSUME CountInv, VerdictInv', Masks(st'), pc' \notin {"scan", "inc"}
  PROVE  CountInv'
BY DEF CountInv, Masks, Positions, left_padding

LEMMA CountShift ==
  ASSUME CountInv, VerdictInv', NEW job, Shift(job), UNCHANGED st, job.inc => Register(job.tdi)
  PROVE  CountInv'
<1>1. CASE job.with /\ pending
  BY <1>1, CountKeeps DEF Shift, CountInv
<1>2. CASE ~(job.with /\ pending)
  <2>1. pc' = "scan" /\ scan' = job
    BY <1>2 DEF Shift
  <2>2. Masks(st)' /\ VerdictInv'
    BY DEF CountInv
  <2>3. scan'.inc => Register(scan.tdi)'
    BY <2>1 DEF Register
  <2>4. QED
    BY <2>1, <2>2, <2>3 DEF CountInv
<1>3. QED
  BY <1>1, <1>2

(* Which scans are XSDRINC's.                                              *)
LEMMA ScansCount ==
  ASSUME NEW retries, NEW e, NEW d, NEW c, NEW n, NEW num, NEW tdi
  PROVE  /\ FullScan.inc = FALSE /\ DrScan(retries, e, d, c).inc = FALSE
         /\ [NoScan EXCEPT !.shift = IRSHIFT, !.end = e, !.delay = d, !.retries = retries,
                           !.with = retries > 0, !.len = n].inc = FALSE
         /\ [FullScan EXCEPT !.inc = TRUE, !.num = num, !.tdi = tdi].tdi = tdi
BY DEF FullScan, DrScan, NoScan

(* Between two scans the register keeps its bits' places.                  *)
LEMMA CountedRegister ==
  ASSUME CountInv, NEW tdi, Register(tdi), NEW D, NEW data \in [D -> {0, 1}]
  PROVE  /\ Register(WithData(Incremented(tdi, st.dr_size), data))
         /\ \A i \in Positions(st.dr_size) \ D :
              WithData(Incremented(tdi, st.dr_size), data)[i] = Incremented(tdi, st.dr_size)[i]
<1> DEFINE P == Positions(st.dr_size)
           u == Incremented(tdi, st.dr_size)
           v == WithData(u, data)
<1>1. DOMAIN tdi = P /\ \A i \in P : tdi[i] \in {0, 1}
  BY DEF Register
<1>2. u \in [P -> {0, 1}]
  <2>1. DOMAIN u = P
    BY <1>1 DEF Incremented
  <2>2. ASSUME NEW i \in P PROVE u[i] \in {0, 1}
    <3>1. u[i] = 1 - tdi[i] \/ u[i] = tdi[i]
      BY <1>1 DEF Incremented
    <3>2. tdi[i] = 0 \/ tdi[i] = 1
      BY <1>1
    <3>3. QED
      BY <3>1, <3>2
  <2>3. u = [i \in P |-> u[i]]
    BY <1>1 DEF Incremented
  <2> HIDE DEF u, P
  <2>4. QED
    BY <2>2, <2>3
<1> HIDE DEF u, P
<1>3. /\ v = [i \in P |-> IF i \in D THEN data[i] ELSE u[i]]
  BY <1>2 DEF WithData
<1>4. \A i \in P : v[i] \in {0, 1} /\ (i \notin D => v[i] = u[i])
  BY <1>2, <1>3
<1>5. v \in [P -> {0, 1}]
  BY <1>2, <1>3
<1>6. QED
  BY <1>4, <1>5 DEF u, P, Register

LEMMA CountNext == CountInv /\ [Next]_vars => CountInv'
<1> SUFFICES ASSUME CountInv, [Next]_vars PROVE CountInv'
  OBVIOUS
<1>0. VerdictInv /\ VerdictInv' /\ DOMAIN st = DOMAIN Fresh /\ Masks(st) /\ Sizes \subseteq Nat
  BY VerdictNext, Inputs DEF CountInv, VerdictInv, ScanInv
<1>f. DOMAIN Fresh = {"dr_size", "runtest", "xendir", "xenddr", "retries", "tdo_mask", "addr_mask",
                      "data_mask", "masks_for"}
  BY DEF Fresh
<1>1. CASE Open
  BY <1>0, <1>1, CountKeeps DEF Open, Fresh, Masks
<1>2. ASSUME NEW new, Sets(new), Masks(new) PROVE CountInv'
  BY <1>0, <1>2, CountKeeps DEF Sets, Command
<1>3. ASSUME NEW new, Sets(new), UNCHANGED <<>>, new.dr_size = st.dr_size, new.masks_for = st.masks_for,
             new.addr_mask = st.addr_mask, new.data_mask = st.data_mask
      PROVE  CountInv'
  BY <1>0, <1>2, <1>3 DEF Masks
<1>4. CASE XCOMMENT \/ XTDOMASK \/ \E v \in BOOLEAN : XENDIR(v) \/ XENDDR(v)
  BY <1>0, <1>f, <1>3, <1>4 DEF XCOMMENT, XTDOMASK, XENDIR, XENDDR
<1>5. ASSUME NEW n \in Repeats, XREPEAT(n) PROVE CountInv'
  BY <1>0, <1>f, <1>3, <1>5 DEF XREPEAT
<1>6. ASSUME NEW n \in Sizes, XSDRSIZE(n) PROVE CountInv'
  <2>1. PICK some \in BOOLEAN : Sets([st EXCEPT !.dr_size = n, !.tdo_mask = some])
    BY <1>6 DEF XSDRSIZE
  <2>2. Masks([st EXCEPT !.dr_size = n, !.tdo_mask = some])
    BY <1>0, <1>f DEF Masks
  <2>3. QED
    BY <1>2, <2>1, <2>2
<1>7. ASSUME NEW a, NEW d, XSETSDRMASKS(a, d) PROVE CountInv'
  <2>1. /\ a \union d \subseteq Positions(st.dr_size) /\ a \intersect d = {}
        /\ Sets([st EXCEPT !.addr_mask = a, !.data_mask = d, !.masks_for = st.dr_size])
    BY <1>7 DEF XSETSDRMASKS
  <2>2. Masks([st EXCEPT !.addr_mask = a, !.data_mask = d, !.masks_for = st.dr_size])
    BY <1>0, <1>f, <2>1 DEF Masks
  <2>3. QED
    BY <1>2, <2>1, <2>2
<1>8. ASSUME NEW v, XRUNTEST(v) PROVE CountInv'
  <2>1. pc' = "command" /\ st' = [st EXCEPT !.runtest = v]
    BY <1>8 DEF XRUNTEST, Command
  <2>2. Masks(st')
    BY <1>0, <1>f, <2>1 DEF Masks
  <2>3. QED
    BY <1>0, <2>1, <2>2, CountKeeps
<1>9. CASE \/ \E s \in GoStates : XSTATE(s)
           \/ \E s1 \in GoStates, s2 \in GoStates : XWAIT(s1, s2)
           \/ XCOMPLETE \/ Broken \/ Close
  <2>1. st' = st /\ pc' \notin {"scan", "inc"}
    BY <1>9 DEF XSTATE, XWAIT, XCOMPLETE, Broken, Close, Fails, Command
  <2>2. QED
    BY <1>0, <2>1, CountKeeps
<1>10. ASSUME NEW job, Scans(job), job.inc = FALSE PROVE CountInv'
  BY <1>0, <1>10, CountShift DEF Scans
<1>11. CASE XSDR \/ XSDRB \/ XSDRE
  BY <1>10, <1>11, ScansCount DEF XSDR, XSDRB, XSDRE
<1>12. ASSUME NEW n, XSIR(n) PROVE CountInv'
  <2> DEFINE e == EndOf(st.xendir, IRPAUSE)
             job == [NoScan EXCEPT !.shift = IRSHIFT, !.end = e, !.delay = st.runtest,
                                   !.retries = st.retries, !.with = st.retries > 0, !.len = n]
  <2>1. Scans(job)
    BY <1>12 DEF XSIR
  <2> HIDE DEF e
  <2>2. job.inc = FALSE
    BY DEF NoScan
  <2> HIDE DEF job
  <2>3. QED
    BY <1>10, <2>1, <2>2
<1>13. ASSUME NEW tdi \in [Positions(st.dr_size) -> {0, 1}], NEW n, XSDRINC(tdi, n) PROVE CountInv'
  <2> DEFINE job == [FullScan EXCEPT !.inc = TRUE, !.num = n, !.tdi = tdi]
  <2>1. st.masks_for = st.dr_size /\ Shift(job) /\ UNCHANGED st
    BY <1>13 DEF XSDRINC, Scans
  <2>2. job.tdi = tdi
    BY ScansCount
  <2> HIDE DEF job
  <2>3. Register(job.tdi)
    BY <2>1, <2>2 DEF Register
  <2>4. QED
    BY <1>0, <2>1, <2>3, CountShift
<1>14. CASE Try
  <2>1. pc = "scan" /\ st' = st
    BY <1>14 DEF Try
  <2>2. \/ scan.inc /\ pc' = "inc" /\ scan' = scan
        \/ pc' \in {"command", "end"}
        \/ pc' = "scan" /\ scan' = [scan EXCEPT !.retries = @ - 1]
    BY <1>14 DEF Try
  <2>3. CASE scan.inc /\ pc' = "inc" /\ scan' = scan
    BY <1>0, <2>1, <2>3 DEF CountInv, Register, Masks
  <2>4. CASE pc' \in {"command", "end"}
    BY <1>0, <2>1, <2>4, CountKeeps
  <2>5. CASE pc' = "scan" /\ scan' = [scan EXCEPT !.retries = @ - 1]
    <3>1. scan'.inc = scan.inc /\ scan'.tdi = scan.tdi
      BY <2>5 DEF CountInv, VerdictInv, ScanInv, NoScan
    <3>2. QED
      BY <1>0, <2>1, <2>5, <3>1 DEF CountInv, Register, Masks
  <2>6. QED
    BY <2>2, <2>3, <2>4, <2>5
<1>15. CASE Increment
  <2>1. pc = "inc" /\ st' = st /\ Register(scan.tdi)
    BY <1>15 DEF Increment, CountInv
  <2>2. CASE pc' = "command"
    BY <1>0, <2>1, <2>2, CountKeeps
  <2>3. CASE pc' # "command"
    <3> DEFINE D == st.data_mask \intersect (0 .. st.dr_size - 1)
               next(data) == WithData(Incremented(scan.tdi, st.dr_size), data)
               job(data) == [FullScan EXCEPT !.inc = TRUE, !.num = scan.num - 1, !.tdi = next(data)]
    <3>1. PICK data \in [D -> {0, 1}] : Shift(job(data))
      BY <1>15, <2>3 DEF Increment
    <3>2. Register(next(data))
      BY <2>1, CountedRegister
    <3> HIDE DEF next
    <3>3. job(data).tdi = next(data)
      BY ScansCount
    <3> HIDE DEF job
    <3>4. QED
      BY <1>0, <2>1, <3>1, <3>2, <3>3, CountShift
  <2>4. QED
    BY <2>2, <2>3
<1>16. CASE UNCHANGED vars
  BY <1>0, <1>16 DEF vars, CountInv, Register, Masks
<1>17. QED
  BY <1>1, <1>4, <1>5, <1>6, <1>7, <1>8, <1>9, <1>11, <1>12, <1>13, <1>14, <1>15, <1>16 DEF Next

(* One step of XSDRINC's loop.                                             *)
LEMMA IncrementCounts ==
  ASSUME CountInv, Increment, pc' = "scan", st.dr_size % Unit = 0
  PROVE  /\ Address(scan'.tdi, st.dr_size) =
              IF \A i \in st.addr_mask : scan.tdi[i] = 1 THEN 0 ELSE Address(scan.tdi, st.dr_size) + 1
         /\ \A i \in DOMAIN scan.tdi \ (st.addr_mask \union st.data_mask) : scan'.tdi[i] = scan.tdi[i]
<1> DEFINE n == st.dr_size
           A == st.addr_mask
           D == st.data_mask \intersect (0 .. n - 1)
           t == scan.tdi
           u == Incremented(t, n)
           next(data) == WithData(u, data)
           job(data) == [FullScan EXCEPT !.inc = TRUE, !.num = scan.num - 1, !.tdi = next(data)]
<1>1. PICK data \in [D -> {0, 1}] : Shift(job(data))
  BY DEF Increment
<1>2. n \in Nat /\ Register(t) /\ A \subseteq Positions(n) /\ A \intersect D = {} /\ D \subseteq st.data_mask
  BY DEF CountInv, Increment, Masks, Register
<1>3. Positions(n) = 0 .. n - 1
  <2>1. left_padding(n) = 0
    <3>1. Unit \in Nat /\ Unit # 0 /\ n % Unit = 0
      BY XsvfAssumption
    <3>2. Unit - 0 = Unit /\ Unit % Unit = 0
      BY <3>1
    <3>3. QED
      BY <3>1, <3>2 DEF left_padding
  <2>2. QED
    BY <1>2, <2>1 DEF Positions
<1>4. \A i \in Positions(n) \ D : next(data)[i] = u[i]
  BY <1>2, CountedRegister
<1>5. scan'.tdi = next(data)
  <2>1. job(data).tdi = next(data)
    BY ScansCount
  <2> HIDE DEF job, next
  <2>2. scan' = job(data)
    BY <1>1 DEF Shift
  <2>3. QED
    BY <2>1, <2>2
<1> DEFINE v == scan'.tdi
<1>6. DOMAIN t = Positions(n) /\ \A i \in Positions(n) : t[i] \in {0, 1}
  BY <1>2 DEF Register
<1>7. ASSUME NEW i \in Positions(n)
      PROVE  u[i] = IF i \in A /\ \A q \in A : q > i => t[q] = 1 THEN 1 - t[i] ELSE t[i]
  <2>1. A \intersect (0 .. n - 1) = A
    BY <1>2, <1>3
  <2>2. u = [k \in DOMAIN t |-> IF k \in A /\ \A q \in A : q > k => t[q] = 1 THEN 1 - t[k] ELSE t[k]]
    BY <2>1 DEF Incremented
  <2> HIDE DEF u, t
  <2>3. QED
    BY <1>6, <2>2
<1> HIDE DEF u, next
<1>8. \A i \in Positions(n) \ D : v[i] = u[i]
  BY <1>4, <1>5
<1> HIDE DEF v, t, n, A, D
<1>9. \A k \in A : t[k] \in {0, 1} /\ v[k] = IF \A q \in A : q > k => t[q] = 1 THEN 1 - t[k] ELSE t[k]
  BY <1>2, <1>6, <1>7, <1>8
<1>10. PICK f : /\ f[0] = 0 /\ Address(t, n) = f[n]
                /\ \A k \in 0 .. n - 1 : f[k + 1] = IF k \in A THEN 2 * f[k] + t[k] ELSE f[k]
  BY <1>2, AddressSteps DEF A
<1>11. PICK g : /\ g[0] = 0 /\ Address(v, n) = g[n]
                /\ \A k \in 0 .. n - 1 : g[k + 1] = IF k \in A THEN 2 * g[k] + v[k] ELSE g[k]
  BY <1>2, AddressSteps DEF A
<1>12. g[n] = IF \A k \in A : t[k] = 1 THEN 0 ELSE f[n] + 1
  <2>1. n \in Nat /\ A \in SUBSET (0 .. n - 1)
    BY <1>2, <1>3
  <2>2. Carried(A, t, v)
    BY <1>9 DEF Carried
  <2>3. ReadsOff(f, A, n, t) /\ ReadsOff(g, A, n, v)
    BY <1>10, <1>11 DEF ReadsOff
  <2>4. QED
    BY <2>1, <2>2, <2>3, CarryAddsOne
<1>13. Address(v, n) = IF \A k \in A : t[k] = 1 THEN 0 ELSE Address(t, n) + 1
  BY <1>10, <1>11, <1>12
<1>14. \A i \in DOMAIN t \ (A \union st.data_mask) : v[i] = t[i]
  BY <1>2, <1>6, <1>7, <1>8
<1>15. QED
  BY <1>13, <1>14 DEF v, t, n, A

(* XSDRINC counts: for registers of any whole bytes and any masks, the     *)
(* address of every scan is one more than the address before (xsvf.c).     *)
THEOREM XsdrincCountsAlways == Spec => XsdrincCounts
<1> DEFINE Counted == pc = "inc" /\ pc' = "scan" /\ st.dr_size % Unit = 0 =>
             /\ Address(scan'.tdi, st.dr_size) =
                  IF \A i \in st.addr_mask : scan.tdi[i] = 1 THEN 0 ELSE Address(scan.tdi, st.dr_size) + 1
             /\ \A i \in DOMAIN scan.tdi \ (st.addr_mask \union st.data_mask) :
                  scan'.tdi[i] = scan.tdi[i]
<1>1. CountInv /\ [Next]_vars => [Counted]_vars
  <2> SUFFICES ASSUME CountInv, Next, pc = "inc", pc' = "scan", st.dr_size % Unit = 0 PROVE Counted
    BY DEF vars
  <2>1. \A new : ~Sets(new) /\ ~Scans(new)
    BY DEF Sets, Scans, Command
  <2>2. ~XCOMMENT /\ ~XTDOMASK /\ ~XSDR /\ ~XSDRB /\ ~XSDRE
    BY <2>1 DEF XCOMMENT, XTDOMASK, XSDR, XSDRB, XSDRE
  <2>3. \A v : ~XENDIR(v) /\ ~XENDDR(v) /\ ~XREPEAT(v) /\ ~XSDRSIZE(v) /\ ~XSIR(v)
    BY <2>1 DEF XENDIR, XENDDR, XREPEAT, XSDRSIZE, XSIR
  <2>4. \A v, w : ~XSETSDRMASKS(v, w) /\ ~XSDRINC(v, w)
    BY <2>1 DEF XSETSDRMASKS, XSDRINC
  <2>5. \A v, w : ~XRUNTEST(v) /\ ~XSTATE(v) /\ ~XWAIT(v, w)
    BY DEF XRUNTEST, XSTATE, XWAIT, Command
  <2>6. ~Open /\ ~XCOMPLETE /\ ~Broken /\ ~Try /\ ~Close
    BY DEF Open, XCOMPLETE, Broken, Fails, Try, Close, Command
  <2>7. Increment
    BY <2>2, <2>3, <2>4, <2>5, <2>6 DEF Next
  <2>8. QED
    BY <2>7, IncrementCounts
<1>2. QED
  BY <1>1, CountInit, CountNext, PTL DEF Spec, XsdrincCounts
=============================================================================
