----------------------------- MODULE MCScheduler -----------------------------
(***************************************************************************)
(* Instances of Scheduler: the job that scales the delays, which is always *)
(* first here, the check that may call the error handler, one job of the   *)
(* application in the main program and two in the interrupt.               *)
(***************************************************************************)
EXTENDS Scheduler

CONSTANTS scaling, errorCheck, task, fastIsr, slowIsr

MCSystemJobs == <<scaling, errorCheck>>
MCUserJobs == {task, fastIsr, slowIsr}
MCIsrJobs == {fastIsr, slowIsr}
MCErrorJobs == {scaling, errorCheck, fastIsr}
MCPeriod == [j \in Ids |-> IF j = slowIsr THEN 2 ELSE 1]
=============================================================================
