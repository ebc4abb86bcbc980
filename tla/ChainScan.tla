----------------------------- MODULE ChainScan ------------------------------
(***************************************************************************)
(* libxsvf_scan (scan.c) within libxsvf_play, and what xsvftool_esp_scan   *)
(* keeps of it: the IDCODEs of a chain of devices, found by shifting ones  *)
(* through the chain after a reset.                                        *)
(*                                                                         *)
(* A device is the sequence of bits it captures: its IDCODE from bit 0 up, *)
(* which is one, or the single zero of a bypass register. A chain begins   *)
(* with the device whose bits come out first.                              *)
(***************************************************************************)
EXTENDS TapWalk, SequencesExt

CONSTANTS
  IdBits,      \* length of an IDCODE: 32 in the code
  MaxDevices   \* how many devices are looked for: 256

ASSUME ScanAssumption == {IdBits, MaxDevices} \subseteq Nat \ {0}

BYPASS == <<0>>
Ones   == [k \in 1 .. IdBits |-> 1]   \* manufacturer 127: no device has it
IdCode == {id \in [1 .. IdBits -> {0, 1}] : id[1] = 1 /\ id # Ones}

-----------------------------------------------------------------------------
(* The registers that a walk from Test-Logic-Reset leaves in front of TDO: *)
(* what was captured under the reset instruction, or nobody knows what.    *)
Captured(chain, reset, w) ==
  IF /\ reset.dev = RESET /\ w.dev = DRSHIFT /\ w.shifts = 0
     /\ DRCAPTURE \in w.seen /\ {RESET, IRCAPTURE} \intersect w.seen = {}
  THEN FlattenSeq(chain) ELSE <<>>

(* The bit that the pulse after n others returns: behind the chain's own   *)
(* bits come the ones that were shifted in.                                *)
Tdo(bits, n) == IF n < Len(bits) THEN bits[n + 1] ELSE 1

(* Mutant: a bypassed device is taken for as long as the others.           *)
LookedWide(bits, r) ==
  LET code == [k \in 1 .. IdBits |-> Tdo(bits, r.pulses + k - 1)]
  IN  [r EXCEPT !.pulses = @ + IdBits, !.over = code = Ones,
                !.devices = IF code[1] = 0 \/ code = Ones THEN @ ELSE Append(@, code)]

(* One round of libxsvf_scan's loop.                                       *)
Looked(bits, r) ==
  IF Tdo(bits, r.pulses) = 0 THEN [r EXCEPT !.pulses = @ + 1]
  ELSE LET code == [k \in 1 .. IdBits |-> Tdo(bits, r.pulses + k - 1)]
       IN  [r EXCEPT !.pulses = @ + IdBits, !.over = code = Ones,
                     !.devices = IF code = Ones THEN @ ELSE Append(@, code)]

(* The scan from the device state d: what LIBXSVF_HOST_REPORT_DEVICE is    *)
(* called with.                                                            *)
libxsvf_scan(d, chain) ==
  LET reset == WalkTo(WireAt(INIT, d), RESET)
      w == WalkTo([reset EXCEPT !.seen = {}, !.shifts = 0], DRSHIFT)
      bits == Captured(chain, reset, w)
      none == [pulses |-> 0, devices |-> <<>>, over |-> FALSE]
      round[n \in 0 .. MaxDevices] ==
        IF n = 0 THEN none
        ELSE IF round[n - 1].over THEN round[n - 1] ELSE Looked(bits, round[n - 1])
  IN  IF w.rc < 0 THEN [none EXCEPT !.over = TRUE] ELSE round[MaxDevices]

(* xsvftool_esp_id: the last device's IDCODE, or none (0).                 *)
xsvftool_esp_id(d, chain) ==
  LET found == libxsvf_scan(d, chain).devices
  IN  IF found = <<>> THEN <<>> ELSE Last(found)

-----------------------------------------------------------------------------
(* The places of the first n devices of a chain that have an IDCODE.       *)
Identified(chain, n) == {k \in 1 .. n : chain[k] # BYPASS}

(* A scan reports each device that has an IDCODE once, in the chain's      *)
(* order, bypassed ones in between or at the ends notwithstanding, from    *)
(* the state d of the devices, up to the limit; it stops with the chain;   *)
(* the IDCODE shown to the user is that of the last of them.               *)
ScanFindsChain(d, chains) ==
  \A chain \in chains :
    LET within == Identified(chain, Min({Len(chain), MaxDevices}))
        scan   == libxsvf_scan(d, chain)
    IN  /\ Len(scan.devices) = Cardinality(within)
        /\ \A k \in within : scan.devices[Cardinality(Identified(chain, k))] = chain[k]
        /\ scan.pulses <= Len(FlattenSeq(chain)) + IdBits
        /\ xsvftool_esp_id(d, chain) = IF within = {} THEN <<>> ELSE chain[Max(within)]

(* Every chain of up to n devices.                                         *)
ChainsUpTo(n) == UNION {[1 .. m -> IdCode \union {BYPASS}] : m \in 0 .. n}

(* Wherever the devices are when the host begins, a scan finds every chain *)
(* up to one device more than are looked for.                              *)
ChainIsFound ==
  pc = "caller" /\ tap_state = INIT /\ trail = {} =>
    ScanFindsChain(dev, ChainsUpTo(MaxDevices + 1))
=============================================================================
