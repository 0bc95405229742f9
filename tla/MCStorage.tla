------------------------------ MODULE MCStorage ------------------------------
(* Instances of MemoryWatchdog: one sector of two pages.                     *)
EXTENDS MemoryWatchdog

CONSTANTS p0, p1, a

MCSectors == {{p0, p1}}

\* One page, and a write of two
MCSpans == {<<p0>>, <<p1>>, <<p0, p1>>}
=============================================================================
