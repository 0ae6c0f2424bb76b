---------------------------- MODULE MCTpAverages ----------------------------
(* An instance of TpAverages for TLC: durations of a few milliseconds, one of *)
(* them measured across a clock that was set back, in numbers of ten bits.    *)
EXTENDS TpAverages

MCDurations == {-2, 0, 1, 5}
=============================================================================
