--------------------------- MODULE MCErrorRecovery ---------------------------
(***************************************************************************)
(* Instances of ErrorRecovery: the codes that the handlers distinguish, in *)
(* the order of SOUL_STATUS, and one error of an ordinary watchdog.        *)
(***************************************************************************)
EXTENDS ErrorRecovery

MCErrors == 1..6   \* SYS_TICK, RTC, POWER, MEMORY, LOAD, HARD_FAULT
MCAppErrors == {4}
=============================================================================
