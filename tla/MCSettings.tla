------------------------------ MODULE MCSettings ------------------------------
(***************************************************************************)
(* Instances of SettingsUpdater: contents are small numbers.  0 is the     *)
(* all-zero factory content, which the application rejects; 1 is its       *)
(* default; 2 and 3 are edits; 4 differs from 3 only in the tail of the    *)
(* structure, which the change hash does not cover.                        *)
(***************************************************************************)
EXTENDS SettingsUpdater

MCVals == 0..4
MCValid == 1..4
MCVers == {"current", "previous"}
\* settings_repair keeps what it can use and leaves the rest to settings_reset.
MCRepaired == [ver \in MCVers |-> [v \in MCVals |-> v]]
MCHashPart == [v \in MCVals |-> IF v = 4 THEN 3 ELSE v]
MCUserVals == {2, 3, 4}
=============================================================================
