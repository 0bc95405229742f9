-------------------------------- MODULE MCRtc --------------------------------
(* Instances of RtcTest: tests on the days around the ends of months, of a   *)
(* leap February and of a year, and on those around the test date.           *)
EXTENDS RtcTest

MCStartSeconds == {86398, 40000}
MCTestDays == {59, 365, 36523}
=============================================================================
