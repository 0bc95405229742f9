---------------------------- MODULE MCJobScaling ----------------------------
(***************************************************************************)
(* Instances of JobScaling with a task of the application and a job that   *)
(* is not scaled.  All units are scaled down: a second is 10, 100 % is    *)
(* 100, 1 % is 1, the cap 120 and a word 4096, so that the product of the  *)
(* task's delay wraps when its two scales exceed 173 together.             *)
(***************************************************************************)
EXTENDS JobScaling

CONSTANTS task, realtime

MCPeriod == [j \in Jobs |-> IF j = task THEN 15 ELSE 2]
MCPriority == [j \in Jobs |-> IF j = task THEN 100 ELSE 0]
=============================================================================
