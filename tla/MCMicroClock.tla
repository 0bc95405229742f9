----------------------------- MODULE MCMicroClock -----------------------------
(* Instances of MicroClock: a millisecond of 4 microseconds and registers of *)
(* 16 values; 36, 64 and 60 are slow clocks, 68 has no factors.              *)
EXTENDS MicroClock

MCFreqs == {36, 60, 64, 68, 72, 80, 96, 128}
=============================================================================
