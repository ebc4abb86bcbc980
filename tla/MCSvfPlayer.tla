---------------------------- MODULE MCSvfPlayer -----------------------------
(***************************************************************************)
(* Model checking of SvfPlayer: the sets the configurations choose from,   *)
(* and the numbers that are looked at.                                     *)
(***************************************************************************)
EXTENDS SvfPlayer, SequencesExt

\* ENDIR, ENDDR beside IDLE, which they start from: a state of each column,
\* and a name that token2tapstate does not know
FileEnds == {DRPAUSE, IRPAUSE, BADSTATE}
IdleOnly == {IDLE}
\* run states in which TCK with TMS low changes nothing
QuietRuns  == {IDLE, DRPAUSE}
\* STATE, with a state that only a Pause leads to
FileStates == {DRPAUSE, DREXIT2}
\* a device in reset or in the middle of a scan
FoundStates == {RESET, DRSHIFT}
ResetOnly   == {RESET}

ScanRegs  == {"HDR", "SDR", "TDR", "SIR"}
\* registers that are given arrays, and lengths beside the others'
DataOnly    == {"SDR"}
DataAndTail == {"SDR", "TDR"}

\* registers of one byte and two, up to two digits too many
ByteLens    == {1, 3, 8, 9, 15}
SixDigits   == SeqOf({0, 3, 10}, 6)
SomeNumbers == {<<10>>, <<0, 12>>, <<5, 0, 6, 9>>}
SomeGiven   == {{"TDI"}, {"TDI", "SMASK", "RMASK"}, {"TDI", "TDO"}, {"TDO", "MASK", "SMASK"}}
\* delays from rounded away to past what an int holds
ThreeDigits == SeqOf({0, 3, 9}, 3)
SomeExps    == {<<>>} \union {<<e>> : e \in -5 .. 2}
=============================================================================
