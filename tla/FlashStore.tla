----------------------------- MODULE FlashStore -----------------------------
(***************************************************************************)
(* What a caller of the flash driver may rely on, whatever fails and       *)
(* whenever the power goes: the abstract specification that FlashW25Q      *)
(* implements.                                                             *)
(*                                                                         *)
(* A call aims at some pages and names for each the contents it may have   *)
(* at the end.  While the call runs, some pages are at risk: they may hold *)
(* anything.  The pages at risk are one page the call aims at, or all the  *)
(* pages of one sector with such a page, or the chip when the call aims at *)
(* the whole chip.  Pages leave the risk only                              *)
(* settled: neighbours as they were before the call, aimed pages as they   *)
(* were, blank, or as wanted.  A call that reports success has settled     *)
(* everything and every page it aims at is as wanted.  A call that fails,  *)
(* or that a power loss cuts, leaves the pages at risk as they are, and    *)
(* nothing else.                                                           *)
(***************************************************************************)
EXTENDS FlashChip

VARIABLES
    mem,     \* the chip's pages
    before,  \* the pages when the running call began, or as they are
    aim,     \* page -> contents it may end with; no page: no call runs
    risk,    \* pages that may hold anything
    told     \* the last call that ended reported success

vars == <<mem, before, aim, risk, told>>

Aims == DOMAIN aim

Settled(p) ==
    mem[p] \in IF p \in Aims THEN aim[p] \cup {before[p], Blank} ELSE {before[p]}

TypeOK ==
    /\ mem \in [Pages -> Content]
    /\ before \in [Pages -> Content]
    /\ Aims \subseteq Pages
    /\ risk \subseteq Pages
    /\ told \in BOOLEAN

\* At every moment of a call, also when the power goes, only the pages at
\* risk may have lost what they held before it.
OnlyRiskUnsettled == Aims # {} => \A p \in Pages \ risk : Settled(p)

Limited(R) ==
    \/ R = {}
    \/ \E p \in Aims : R = {p} \/ R = Neighbours(p)
    \/ Aims = Pages /\ R = Pages

RiskIsSmall == Limited(risk)

-----------------------------------------------------------------------------

Init ==
    /\ mem \in [Pages -> Content]
    /\ before = mem
    /\ aim = <<>>
    /\ risk = {}
    /\ told = FALSE

Begin ==
    /\ Aims = {}
    /\ Aims' # {} /\ Aims' \subseteq Pages
    /\ before' = mem
    /\ told' = FALSE
    /\ RiskIsSmall'
    /\ UNCHANGED mem

\* A call that is refused: no page is touched.
Refuse ==
    /\ Aims = {}
    /\ told' = FALSE
    /\ UNCHANGED <<mem, before, aim, risk>>

\* The pages at risk are settled and others, or none, take their place.
Move ==
    /\ Aims # {}
    /\ \A p \in risk : Settled(p)
    /\ Limited(risk')
    /\ UNCHANGED <<mem, before, aim, told>>

Change ==
    /\ Aims # {}
    /\ mem' \in [Pages -> Content]
    /\ \A p \in Pages \ risk : mem'[p] = mem[p]
    /\ UNCHANGED <<before, aim, risk, told>>

Succeed ==
    /\ Aims # {}
    /\ \A p \in Aims : mem[p] \in aim[p]
    /\ \A p \in risk : Settled(p)
    /\ aim' = <<>>
    /\ risk' = {}
    /\ told' = TRUE
    /\ before' = mem
    /\ UNCHANGED mem

\* Failure or power loss.
Abort ==
    /\ mem' \in [Pages -> Content]
    /\ \A p \in Pages \ risk : mem'[p] = mem[p]
    /\ aim' = <<>>
    /\ risk' = {}
    /\ told' = FALSE
    /\ before' = mem'

Next == Begin \/ Refuse \/ Move \/ Change \/ Succeed \/ Abort

Spec == Init /\ [][Next]_vars
=============================================================================
