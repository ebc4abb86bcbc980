-------------------------------- MODULE Tap ---------------------------------
(***************************************************************************)
(* The TAP states of libxsvf.h, the step table of the walker in tap.c, and *)
(* the TAP controller of the JTAG device at the other end of the cable.    *)
(*                                                                         *)
(* States are numbers, as in the C enum: tap.c compares them (s >=         *)
(* LIBXSVF_TAP_IRSELECT) and svf.c increments them (h->tap_state++).       *)
(***************************************************************************)
EXTENDS Integers

INIT      == 0
RESET     == 1
IDLE      == 2
DRSELECT  == 3
DRCAPTURE == 4
DRSHIFT   == 5
DREXIT1   == 6
DRPAUSE   == 7
DREXIT2   == 8
DRUPDATE  == 9
IRSELECT  == 10
IRCAPTURE == 11
IRSHIFT   == 12
IREXIT1   == 13
IRPAUSE   == 14
IREXIT2   == 15
IRUPDATE  == 16

(* token2tapstate returns -1 for an unknown token. Stored into the enum,   *)
(* which gcc gives an unsigned type, it is larger than every state.        *)
BADSTATE  == 17

TapState   == INIT .. IRUPDATE
DevState   == RESET .. IRUPDATE
WalkTarget == INIT .. BADSTATE

-----------------------------------------------------------------------------
(* One iteration of the walker's switch: the TMS level it clocks and the   *)
(* state it then believes in. INIT, which clocks TMS six times, is not in  *)
(* the table.                                                              *)
Clock(v, t) == [tms |-> v, to |-> t]

WalkStep(t, s) ==
  CASE t = RESET     -> Clock(0, IDLE)
    [] t = IDLE      -> Clock(1, DRSELECT)
    [] t = DRSELECT  -> IF s >= IRSELECT \/ s = RESET THEN Clock(1, IRSELECT)
                                                      ELSE Clock(0, DRCAPTURE)
    [] t = DRCAPTURE -> IF s = DRSHIFT THEN Clock(0, DRSHIFT) ELSE Clock(1, DREXIT1)
    [] t = DRSHIFT   -> Clock(1, DREXIT1)
    [] t = DREXIT1   -> IF s = DRPAUSE THEN Clock(0, DRPAUSE) ELSE Clock(1, DRUPDATE)
    [] t = DRPAUSE   -> Clock(1, DREXIT2)
    [] t = DREXIT2   -> IF s = DRSHIFT THEN Clock(0, DRSHIFT) ELSE Clock(1, DRUPDATE)
    [] t = DRUPDATE  -> IF s = IDLE THEN Clock(0, IDLE) ELSE Clock(1, DRSELECT)
    [] t = IRSELECT  -> IF s = RESET THEN Clock(1, RESET) ELSE Clock(0, IRCAPTURE)
    [] t = IRCAPTURE -> IF s = IRSHIFT THEN Clock(0, IRSHIFT) ELSE Clock(1, IREXIT1)
    [] t = IRSHIFT   -> Clock(1, IREXIT1)
    [] t = IREXIT1   -> IF s = IRPAUSE THEN Clock(0, IRPAUSE) ELSE Clock(1, IRUPDATE)
    [] t = IRPAUSE   -> Clock(1, IREXIT2)
    [] t = IREXIT2   -> IF s = IRSHIFT THEN Clock(0, IRSHIFT) ELSE Clock(1, IRUPDATE)
    [] t = IRUPDATE  -> IF s = IDLE THEN Clock(0, IDLE) ELSE Clock(1, DRSELECT)

-----------------------------------------------------------------------------
(* The TAP controller of IEEE 1149.1: the state after a rising TCK edge    *)
(* with TMS low (high).                                                    *)
OnLow(d) ==
  CASE d \in {RESET, IDLE, DRUPDATE, IRUPDATE}  -> IDLE
    [] d = DRSELECT                             -> DRCAPTURE
    [] d \in {DRCAPTURE, DRSHIFT, DREXIT2}      -> DRSHIFT
    [] d \in {DREXIT1, DRPAUSE}                 -> DRPAUSE
    [] d = IRSELECT                             -> IRCAPTURE
    [] d \in {IRCAPTURE, IRSHIFT, IREXIT2}      -> IRSHIFT
    [] d \in {IREXIT1, IRPAUSE}                 -> IRPAUSE

OnHigh(d) ==
  CASE d \in {RESET, IRSELECT}                  -> RESET
    [] d \in {IDLE, DRUPDATE, IRUPDATE}         -> DRSELECT
    [] d = DRSELECT                             -> IRSELECT
    [] d \in {DRCAPTURE, DRSHIFT}               -> DREXIT1
    [] d \in {DREXIT1, DREXIT2}                 -> DRUPDATE
    [] d = DRPAUSE                              -> DREXIT2
    [] d \in {IRCAPTURE, IRSHIFT}               -> IREXIT1
    [] d \in {IREXIT1, IREXIT2}                 -> IRUPDATE
    [] d = IRPAUSE                              -> IREXIT2

DeviceNext(d, tms) == IF tms = 0 THEN OnLow(d) ELSE OnHigh(d)
=============================================================================
