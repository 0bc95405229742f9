--------------------------- MODULE SchedulerProofs ---------------------------
(***************************************************************************)
(* Proofs about Scheduler: its types, and how long a job may wait for the  *)
(* interrupt, for every table of jobs.                                     *)
(***************************************************************************)
EXTENDS Scheduler, SequenceTheorems, TLAPS

\* Only the innermost tick of the main program is between two of its steps, and one
\* that looks at isr_job_idx knows how long the table is.
StackOK ==
  /\ \A k \in 1..Len(ticks) : k < Len(ticks) => ticks[k].st = "handler"
  /\ Top.st \in {"enter", "zero"} => Top.len = Len(jobs)

\* How many ticks the job at place p can have missed, from where the index is: since it
\* passed p; or, if it has not come to p in this round, since it passed p in the
\* round before.  With the statuses printed the main program may have thrown it
\* back to 0 in between, or be about to.
WaitBound(p) ==
  IF isrIdx >= p THEN isrIdx - p
  ELSE IF ~StatusPrint THEN Len(jobs) - p
  ELSE IF Top.st = "zero" THEN Len(jobs) - p + isrIdx
  ELSE Len(jobs) - 1 + isrIdx

WaitOK ==
  /\ \A j \in IsrJobs : j \notin Registered => missed[j] = 0
  /\ \A p \in 1..Len(jobs) : jobs[p] \in IsrJobs => missed[jobs[p]] <= WaitBound(p)

IndInv == TypeOK /\ StackOK /\ WaitOK
-----------------------------------------------------------------------------
(***************************************************************************)
(* The stack of ticks                                                      *)
(***************************************************************************)
LEMMA TopInside ==
  ASSUME TableType, Top.st # "outside"
  PROVE  /\ ticks # <<>> /\ Len(ticks) \in 1..Len(ticks)
         /\ Top = ticks[Len(ticks)] /\ Top \in Frames
BY DEF TableType, Top, Outside

LEMMA SetTopStack ==
  ASSUME TableType, StackOK, Top.st # "outside", NEW f \in Frames, SetTop(f)
  PROVE  /\ ticks' \in Seq(Frames) /\ Len(ticks') = Len(ticks) /\ Top' = f
         /\ \A k \in 1..Len(ticks') : k < Len(ticks') => ticks'[k].st = "handler"
<1>1. Len(ticks) \in 1..Len(ticks) /\ ticks \in Seq(Frames) /\ ticks # <<>>
  BY TopInside DEF TableType
<1>2. ticks' = [ticks EXCEPT ![Len(ticks)] = f]
  BY DEF SetTop
<1>3. /\ ticks' \in Seq(Frames) /\ Len(ticks') = Len(ticks)
      /\ \A k \in 1..Len(ticks) : ticks'[k] = IF k = Len(ticks) THEN f ELSE ticks[k]
  BY <1>1, <1>2, ExceptSeq
<1>4. Top' = f
  BY <1>1, <1>3 DEF Top
<1> QED
  BY <1>1, <1>3, <1>4 DEF StackOK

LEMMA PushStack ==
  ASSUME TableType, StackOK, TickBegins
  PROVE  TableType' /\ StackOK' /\ Top'.st # "zero"
<1> DEFINE f == [at |-> 1, len |-> Len(jobs), st |-> "enter"]
<1>1. f \in Frames /\ ticks \in Seq(Frames) /\ jobs' = jobs /\ isrIdx' = isrIdx
  BY DEF TickBegins, TableType, Frames
<1>2. ticks' = Append(ticks, f)
  BY DEF TickBegins
<1>3. /\ ticks' \in Seq(Frames) /\ ticks' # <<>> /\ Len(ticks') = Len(ticks) + 1
      /\ \A k \in 1..Len(ticks) : ticks'[k] = ticks[k]
      /\ ticks'[Len(ticks) + 1] = f
  BY <1>1, <1>2, AppendProperties
<1>4. Top' = f
  BY <1>3 DEF Top
<1>5. \A k \in 1..Len(ticks) : ticks[k].st = "handler"
  <2>1. CASE ticks = <<>>
    BY <2>1
  <2>2. CASE ticks # <<>>
    <3>1. ticks[Len(ticks)].st = "handler"
      <4>1. ticks[Len(ticks)] \in Frames
        BY <1>1, <2>2
      <4>2. Top = ticks[Len(ticks)] /\ Top.st \in {"outside", "handler"}
        BY <2>2 DEF TickBegins, Top
      <4> QED
        BY <4>1, <4>2 DEF Frames
    <3>2. Len(ticks) \in Nat
      BY <1>1
    <3> QED
      BY <3>1, <3>2 DEF StackOK
  <2> QED
    BY <2>1, <2>2
<1>6. \A k \in 1..Len(ticks') : k < Len(ticks') => ticks'[k].st = "handler"
  BY <1>1, <1>3, <1>5
<1> QED
  BY <1>1, <1>3, <1>4, <1>6 DEF StackOK, TableType

LEMMA PopStack ==
  ASSUME TableType, StackOK, TickEnds
  PROVE  TableType' /\ StackOK' /\ Top'.st \in {"outside", "handler"}
<1>1. /\ Len(ticks) \in 1..Len(ticks) /\ ticks \in Seq(Frames) /\ Len(ticks) \in Nat
      /\ jobs' = jobs /\ isrIdx' = isrIdx /\ Top.st # "outside"
  BY TopInside DEF TableType, TickEnds
<1>2. ticks' = SubSeq(ticks, 1, Len(ticks) - 1)
  BY DEF TickEnds
<1>3. \A k \in 1..Len(ticks) - 1 : ticks[k] \in Frames
  BY <1>1
<1>4. /\ ticks' \in Seq(Frames) /\ Len(ticks') = Len(ticks) - 1
      /\ \A k \in 1..Len(ticks) - 1 : ticks'[k] = ticks[k]
  <2> DEFINE n == Len(ticks) - 1
  <2>1. n \in Nat /\ 1 \in Int /\ n \in Int /\ \A k \in 1..n : ticks[k] \in Frames
    BY <1>1, <1>3
  <2> HIDE DEF n
  <2>2. /\ SubSeq(ticks, 1, n) \in Seq(Frames)
        /\ Len(SubSeq(ticks, 1, n)) = IF 1 <= n THEN n - 1 + 1 ELSE 0
        /\ \A i \in 1..n - 1 + 1 : SubSeq(ticks, 1, n)[i] = ticks[1 + i - 1]
    BY <2>1, SubSeqProperties
  <2>3. n - 1 + 1 = n /\ \A i \in 1..n : 1 + i - 1 = i
    BY <2>1
  <2>4. \A i \in 1..n : SubSeq(ticks, 1, n)[i] = ticks[i]
    BY <2>2, <2>3
  <2>5. Len(SubSeq(ticks, 1, n)) = n
    BY <2>1, <2>2
  <2> QED
    BY <1>2, <2>2, <2>4, <2>5 DEF n
<1>5. \A k \in 1..Len(ticks') : ticks'[k].st = "handler"
  BY <1>1, <1>4 DEF StackOK
<1>6. Top'.st \in {"outside", "handler"}
  BY <1>1, <1>4, <1>5 DEF Top, Outside
<1> QED
  BY <1>1, <1>4, <1>5, <1>6 DEF StackOK, TableType
-----------------------------------------------------------------------------
(***************************************************************************)
(* The types and the stack                                                 *)
(***************************************************************************)
LEMMA LongestType == \A j \in Ids : Longest(j) \in Nat
BY SchedulerAssumption DEF Longest

LEMMA FailingIds == Failing \subseteq Ids /\ IsrJobs \subseteq Ids
BY SchedulerAssumption DEF Ids, MainJobs

LEMMA InitInv == Init => IndInv
<1> SUFFICES ASSUME Init PROVE IndInv
  OBVIOUS
<1>1. SystemJobs \in Seq(Ids) /\ Len(SystemJobs) \in 1..Capacity
  <2>1. SysIds \subseteq Ids /\ SystemJobs \in Seq(SysIds) /\ SystemJobs # <<>>
    BY SchedulerAssumption DEF Ids
  <2>2. Len(SystemJobs) \in Nat /\ Len(SystemJobs) > 0
    BY <2>1
  <2> QED
    BY <2>1, <2>2, SchedulerAssumption
<1>2. TableType
  BY <1>1 DEF Init, TableType, Frames
<1>3. FlagType
  BY DEF Init, FlagType
<1>4. TimeType
  BY LongestType, FailingIds, SchedulerAssumption DEF Init, TimeType
<1>5. StackOK
  BY DEF Init, StackOK, Top, Outside
<1>6. WaitOK
  <2>1. \A j \in IsrJobs : missed[j] = 0
    BY DEF Init
  <2>2. \A p \in 1..Len(jobs) : WaitBound(p) \in Nat
    BY <1>1, <1>2 DEF Init, WaitBound, Top, Outside, TableType
  <2> QED
    BY <2>1, <2>2 DEF WaitOK
<1> QED
  BY <1>2, <1>3, <1>4, <1>5, <1>6 DEF IndInv, TypeOK

LEMMA FlagNext == FlagType /\ [Next]_vars => FlagType'
BY Zenon DEF FlagType, Next, Main, TickBegins, TickReadsIndex, TickResetsIndex,
   TickSkipsJob, JobStarts, JobEnds, TickEnds, Register, Scales, HandlerCalled,
   NmiStrikes, ClockReanimated, Reset, IsrTick, TimePasses, errorVars, vars

\* Time and delays, action by action.
LEMMA TimeNext == TableType /\ TimeType /\ [Next]_vars => TimeType'
<1> SUFFICES ASSUME TableType, TimeType, [Next]_vars PROVE TimeType'
  OBVIOUS
<1>1. CASE UNCHANGED <<timeVars, missed>>
  BY <1>1 DEF TimeType, timeVars
<1>2. CASE JobStarts
  BY <1>2, FailingIds DEF TimeType, JobStarts
<1>3. CASE JobEnds
  BY <1>3 DEF TimeType, JobEnds
<1>4. ASSUME NEW j \in Ids, Scales(j) PROVE TimeType'
  <2>1. PICK factor \in 1..Stretch : delay' = [delay EXCEPT ![j] = factor * Period[j]]
    BY <1>4 DEF Scales
  <2>2. factor * Period[j] \in Nat
    BY SchedulerAssumption
  <2> QED
    BY <1>4, <2>1, <2>2 DEF TimeType, Scales
<1>5. CASE Reset
  BY <1>5, LongestType, FailingIds, SchedulerAssumption DEF TimeType, Reset
<1>6. CASE IsrTick
  <2>1. idle' \in [Ids -> Nat]
    BY <1>6 DEF TimeType, IsrTick
  <2>2. missed' \in [IsrJobs -> Nat]
    BY <1>6 DEF TimeType, IsrTick
  <2> QED
    BY <1>6, <2>1, <2>2 DEF TimeType, IsrTick
<1>7. CASE TimePasses
  BY <1>7 DEF TimeType, TimePasses, Later
<1>8. CASE \/ TickBegins \/ TickReadsIndex \/ TickResetsIndex \/ TickSkipsJob \/ TickEnds
           \/ HandlerCalled \/ NmiStrikes \/ ClockReanimated \/ (\E j \in UserJobs : Register(j))
           \/ UNCHANGED vars
  BY <1>1, <1>8 DEF TickBegins, TickReadsIndex, TickResetsIndex, TickSkipsJob, TickEnds,
     HandlerCalled, NmiStrikes, ClockReanimated, Register, vars
<1> QED
  BY <1>2, <1>3, <1>4, <1>5, <1>6, <1>7, <1>8 DEF Next, Main

LEMMA IsrStartRange ==
  ASSUME TableType
  PROVE  /\ IsrStart \in 0..Len(jobs) - 1
         /\ IsrStart = IF isrIdx = Len(jobs) THEN 0 ELSE isrIdx
BY DEF TableType, IsrStart

LEMMA StackNext == TableType /\ StackOK /\ [Next]_vars => TableType' /\ StackOK'
<1> SUFFICES ASSUME TableType, StackOK, [Next]_vars PROVE TableType' /\ StackOK'
  OBVIOUS
<1>1. CASE TickBegins
  BY <1>1, PushStack
<1>2. CASE TickEnds
  BY <1>2, PopStack
<1>3. ASSUME NEW f \in Frames, Top.st # "outside", SetTop(f),
             f.st \in {"enter", "zero"} => f.len = Len(jobs),
             jobs' = jobs, isrIdx' \in 0..Len(jobs)
      PROVE  TableType' /\ StackOK'
  <2>1. /\ ticks' \in Seq(Frames) /\ Top' = f
        /\ \A k \in 1..Len(ticks') : k < Len(ticks') => ticks'[k].st = "handler"
    BY <1>3, SetTopStack
  <2> QED
    BY <1>3, <2>1 DEF TableType, StackOK
<1>4. isrIdx \in 0..Len(jobs) /\ Len(jobs) \in Nat
  BY DEF TableType
<1>5. Top.st # "outside" => Top \in Frames
  BY TopInside
<1>6. CASE TickReadsIndex
  <2> DEFINE f == [Top EXCEPT !.st = IF isrIdx >= Top.len THEN "zero" ELSE "scan"]
  <2>1. f \in Frames /\ Top.st # "outside" /\ f.len = Top.len
    BY <1>5, <1>6 DEF TickReadsIndex, Frames
  <2>2. Top.len = Len(jobs)
    BY <1>6 DEF TickReadsIndex, StackOK
  <2>3. SetTop(f) /\ jobs' = jobs /\ isrIdx' = isrIdx
    BY <1>6 DEF TickReadsIndex
  <2> QED
    BY <1>3, <1>4, <2>1, <2>2, <2>3
<1>7. CASE TickResetsIndex
  <2> DEFINE f == [Top EXCEPT !.st = "scan"]
  <2>1. f \in Frames /\ Top.st # "outside" /\ f.st = "scan"
    BY <1>5, <1>7 DEF TickResetsIndex, Frames
  <2>2. SetTop(f) /\ jobs' = jobs /\ isrIdx' = 0
    BY <1>7 DEF TickResetsIndex
  <2>3. isrIdx' \in 0..Len(jobs)
    BY <1>4, <2>2
  <2> HIDE DEF f
  <2> QED
    BY <1>3, <2>1, <2>2, <2>3
<1>8. CASE TickSkipsJob
  <2> DEFINE f == [Top EXCEPT !.at = @ + 1]
  <2>1. f \in Frames /\ Top.st # "outside" /\ f.st = "scan"
    BY <1>5, <1>8 DEF TickSkipsJob, Frames
  <2>2. SetTop(f) /\ jobs' = jobs /\ isrIdx' = isrIdx
    BY <1>8 DEF TickSkipsJob
  <2> QED
    BY <1>3, <1>4, <2>1, <2>2
<1>9. CASE JobStarts
  <2> DEFINE f == [Top EXCEPT !.st = "run"]
  <2>1. f \in Frames /\ Top.st # "outside" /\ f.st = "run"
    BY <1>5, <1>9 DEF JobStarts, Frames
  <2>2. SetTop(f) /\ jobs' = jobs /\ isrIdx' = isrIdx
    BY <1>9 DEF JobStarts
  <2> QED
    BY <1>3, <1>4, <2>1, <2>2
<1>10. CASE JobEnds
  <2> DEFINE f == [at |-> Top.at + 1, len |-> Top.len, st |-> "scan"]
  <2>1. f \in Frames /\ Top.st # "outside" /\ f.st = "scan"
    BY <1>5, <1>10 DEF JobEnds, Frames
  <2>2. SetTop(f) /\ jobs' = jobs /\ isrIdx' = isrIdx
    BY <1>10 DEF JobEnds
  <2> QED
    BY <1>3, <1>4, <2>1, <2>2
<1>11. CASE HandlerCalled
  <2> DEFINE f == [Top EXCEPT !.st = "handler"]
  <2>1. f \in Frames /\ Top.st # "outside" /\ f.st = "handler"
    BY <1>5, <1>11 DEF HandlerCalled, Frames
  <2>2. SetTop(f) /\ jobs' = jobs /\ isrIdx' = isrIdx
    BY <1>11 DEF HandlerCalled
  <2> QED
    BY <1>3, <1>4, <2>1, <2>2
<1>12. ASSUME NEW j \in UserJobs, Register(j) PROVE TableType' /\ StackOK'
  <2>1. /\ jobs' = Append(jobs, j) /\ j \in Ids /\ Len(jobs) < Capacity
        /\ ticks' = ticks /\ isrIdx' = isrIdx /\ Top.st \in {"outside", "run"}
    BY <1>12 DEF Register, Ids
  <2>2. jobs' \in Seq(Ids) /\ Len(jobs') = Len(jobs) + 1
    BY <2>1, AppendProperties DEF TableType
  <2>3. TableType'
    BY <2>1, <2>2, SchedulerAssumption DEF TableType
  <2>4. Top' = Top
    BY <2>1 DEF Top
  <2>5. StackOK'
    BY <2>1, <2>4 DEF StackOK
  <2> QED
    BY <2>3, <2>5
<1>13. CASE Reset
  <2>1. Init'
    BY <1>13 DEF Reset, Init
  <2>2. IndInv'
    BY <2>1, InitInv, PTL
  <2> QED
    BY <2>2 DEF IndInv, TypeOK
<1>14. CASE IsrTick
  BY <1>14, IsrStartRange DEF IsrTick, TableType, StackOK, Top
<1>15. CASE UNCHANGED <<jobs, ticks, isrIdx>>
  BY <1>15 DEF TableType, StackOK, Top
<1>16. CASE NmiStrikes \/ ClockReanimated \/ (\E j \in Ids : Scales(j)) \/ TimePasses \/ UNCHANGED vars
  BY <1>15, <1>16 DEF NmiStrikes, ClockReanimated, Scales, TimePasses, vars
<1> QED
  BY <1>1, <1>2, <1>6, <1>7, <1>8, <1>9, <1>10, <1>11, <1>12, <1>13, <1>14, <1>16
     DEF Next, Main
-----------------------------------------------------------------------------
(***************************************************************************)
(* How long a job waits                                                    *)
(***************************************************************************)
\* What one tick of the interrupt does for the job at place p: it leaves it waiting only
\* if the index is past p, or, with the statuses printed, if it runs another job first.
LEMMA TickServes ==
  ASSUME TableType, TimeType, IsrTick, NEW p \in 1..Len(jobs), jobs[p] \in IsrJobs
  PROVE  \/ missed'[jobs[p]] = 0
         \/ /\ missed'[jobs[p]] = missed[jobs[p]] + 1
            /\ p <= IsrStart \/ (StatusPrint /\ IsrStart + 1 < p)
<1>1. IsrStart \in 0..Len(jobs) - 1
  BY IsrStartRange
<1> DEFINE ran == {jobs[k] : k \in IsrRuns}
           waited == {jobs[k] : k \in {h \in 1..Len(jobs) : IsrDue(h)}} \ ran
<1>2. missed' = [j \in IsrJobs |-> IF j \in waited THEN missed[j] + 1 ELSE 0]
  BY DEF IsrTick
<1>3. CASE jobs[p] \notin waited
  BY <1>2, <1>3
<1>4. CASE jobs[p] \in waited
  <2>1. missed'[jobs[p]] = missed[jobs[p]] + 1
    BY <1>2, <1>4
  <2>2. IsrDue(p) /\ p \notin IsrRuns
    BY <1>4 DEF IsrDue
  <2>3. SUFFICES ASSUME ~(p <= IsrStart), ~(StatusPrint /\ IsrStart + 1 < p) PROVE FALSE
    BY <2>1
  <2>4. p \in IsrStart + 1 .. Len(jobs)
    BY <1>1, <2>3
  <2>5. StatusPrint => IsrStart + 1 .. p - 1 = {}
    BY <1>1, <2>3, <2>4
  <2> QED
    BY <2>2, <2>4, <2>5 DEF IsrRuns
<1> QED
  BY <1>3, <1>4

\* A tick keeps the bound of every place.
LEMMA TickKeepsBound ==
  ASSUME TableType, TimeType, WaitOK, IsrTick,
         NEW p \in 1..Len(jobs), jobs[p] \in IsrJobs
  PROVE  missed'[jobs[p]] <= WaitBound(p)'
<1>1. /\ isrIdx \in 0..Len(jobs) /\ Len(jobs) \in Nat /\ Len(jobs) >= 1 /\ p \in Nat
      /\ jobs' = jobs /\ ticks' = ticks /\ isrIdx' = IsrStart + 1
      /\ IsrStart \in 0..Len(jobs) - 1
      /\ IsrStart = IF isrIdx = Len(jobs) THEN 0 ELSE isrIdx
  BY IsrStartRange DEF TableType, IsrTick
<1>2. Top' = Top
  BY <1>1 DEF Top
<1>3. missed[jobs[p]] \in Nat /\ missed[jobs[p]] <= WaitBound(p)
  BY DEF TimeType, WaitOK
<1>4. WaitBound(p)' = IF IsrStart + 1 >= p THEN IsrStart + 1 - p
                      ELSE IF ~StatusPrint THEN Len(jobs) - p
                      ELSE IF Top.st = "zero" THEN Len(jobs) - p + IsrStart + 1
                      ELSE Len(jobs) - 1 + IsrStart + 1
  BY <1>1, <1>2 DEF WaitBound
<1>5. CASE missed'[jobs[p]] = 0
  BY <1>1, <1>4, <1>5
<1>6. CASE /\ missed'[jobs[p]] = missed[jobs[p]] + 1
           /\ p <= IsrStart \/ (StatusPrint /\ IsrStart + 1 < p)
  BY <1>1, <1>3, <1>4, <1>6 DEF WaitBound
<1> QED
  BY <1>5, <1>6, TickServes

LEMMA RegisteredKept ==
  ASSUME TableType, NEW j \in UserJobs, Register(j)
  PROVE  /\ Len(jobs') = Len(jobs) + 1 /\ jobs'[Len(jobs) + 1] = j
         /\ \A p \in 1..Len(jobs) : jobs'[p] = jobs[p]
         /\ Registered' = Registered \cup {j}
<1>1. jobs' = Append(jobs, j) /\ jobs \in Seq(Ids) /\ j \in Ids /\ Len(jobs) \in Nat
  BY DEF Register, TableType, Ids
<1>2. /\ Len(jobs') = Len(jobs) + 1 /\ jobs'[Len(jobs) + 1] = j
      /\ \A p \in 1..Len(jobs) : jobs'[p] = jobs[p]
  BY <1>1, AppendProperties
<1>3. Registered' = Registered \cup {j}
  BY <1>1, <1>2 DEF Registered
<1> QED
  BY <1>2, <1>3

LEMMA WaitNext ==
  TableType /\ TimeType /\ StackOK /\ WaitOK /\ [Next]_vars => WaitOK'
<1> SUFFICES ASSUME TableType, TimeType, StackOK, WaitOK, [Next]_vars PROVE WaitOK'
  OBVIOUS
<1>1. isrIdx \in 0..Len(jobs) /\ Len(jobs) \in Nat /\ Len(jobs) >= 1
  BY DEF TableType
<1>2. ASSUME jobs' = jobs, missed' = missed, isrIdx' = isrIdx,
             Top.st = "zero" => Top'.st = "zero",
             Top'.st = "zero" => Top.st = "zero" \/ isrIdx = Len(jobs)
      PROVE  WaitOK'
  <2>1. Registered' = Registered
    BY <1>2 DEF Registered
  <2>2. \A p \in 1..Len(jobs) : WaitBound(p)' = WaitBound(p)
    BY <1>1, <1>2 DEF WaitBound
  <2> QED
    BY <1>2, <2>1, <2>2 DEF WaitOK
<1>3. ASSUME Top.st # "outside", NEW f \in Frames, SetTop(f) PROVE Top' = f
  BY <1>3, SetTopStack
<1>4. Top.st # "outside" => Top \in Frames
  BY TopInside
<1>5. CASE TickBegins
  <2>1. Top'.st # "zero" /\ Top.st # "zero"
    BY <1>5, PushStack DEF TickBegins
  <2> QED
    BY <1>2, <1>5, <2>1 DEF TickBegins
<1>6. CASE TickEnds
  <2>1. Top'.st # "zero" /\ Top.st # "zero"
    BY <1>6, PopStack DEF TickEnds
  <2> QED
    BY <1>2, <1>6, <2>1 DEF TickEnds
<1>7. CASE TickReadsIndex
  <2> DEFINE f == [Top EXCEPT !.st = IF isrIdx >= Top.len THEN "zero" ELSE "scan"]
  <2>1. Top.st = "enter" /\ SetTop(f) /\ f \in Frames /\ Top.len = Len(jobs)
    BY <1>4, <1>7 DEF TickReadsIndex, Frames, StackOK
  <2>2. Top' = f
    BY <1>3, <2>1
  <2>3. f.st = "zero" => isrIdx = Len(jobs)
    BY <1>1, <1>4, <2>1 DEF Frames
  <2> QED
    BY <1>2, <1>7, <2>1, <2>2, <2>3 DEF TickReadsIndex
<1>8. CASE TickResetsIndex
  <2>1. jobs' = jobs /\ missed' = missed /\ isrIdx' = 0 /\ Top.st = "zero"
    BY <1>8 DEF TickResetsIndex
  <2>2. Top'.st = "scan"
    <3>1. [Top EXCEPT !.st = "scan"] \in Frames
      BY <1>4, <2>1 DEF Frames
    <3> QED
      BY <1>3, <1>4, <1>8, <2>1, <3>1 DEF TickResetsIndex, Frames
  <2>3. Registered' = Registered
    BY <2>1 DEF Registered
  <2>4. \A p \in 1..Len(jobs) : WaitBound(p) <= WaitBound(p)'
    BY <1>1, <2>1, <2>2 DEF WaitBound
  <2>5. \A p \in 1..Len(jobs) : WaitBound(p) \in Int /\ WaitBound(p)' \in Int
    BY <1>1, <2>1, <2>2 DEF WaitBound
  <2>6. \A p \in 1..Len(jobs) : jobs[p] \in IsrJobs => missed[jobs[p]] <= WaitBound(p)'
    BY <2>4, <2>5 DEF WaitOK, TimeType
  <2> QED
    BY <2>1, <2>3, <2>6 DEF WaitOK
<1>9. CASE TickSkipsJob
  <2>1. Top.st = "scan" /\ [Top EXCEPT !.at = @ + 1] \in Frames
    BY <1>4, <1>9 DEF TickSkipsJob, Frames
  <2>2. Top'.st = "scan"
    BY <1>3, <1>4, <1>9, <2>1 DEF TickSkipsJob, Frames
  <2> QED
    BY <1>2, <1>9, <2>1, <2>2 DEF TickSkipsJob
<1>10. CASE JobStarts
  <2>1. Top.st = "scan" /\ [Top EXCEPT !.st = "run"] \in Frames
    BY <1>4, <1>10 DEF JobStarts, Frames
  <2>2. Top'.st = "run"
    BY <1>3, <1>4, <1>10, <2>1 DEF JobStarts, Frames
  <2> QED
    BY <1>2, <1>10, <2>1, <2>2 DEF JobStarts
<1>11. CASE JobEnds
  <2>1. Top.st = "run" /\ [at |-> Top.at + 1, len |-> Top.len, st |-> "scan"] \in Frames
    BY <1>4, <1>11 DEF JobEnds, Frames
  <2>2. Top'.st = "scan"
    BY <1>3, <1>11, <2>1 DEF JobEnds
  <2> QED
    BY <1>2, <1>11, <2>1, <2>2 DEF JobEnds
<1>12. CASE HandlerCalled
  <2>1. Top.st = "run" /\ [Top EXCEPT !.st = "handler"] \in Frames
    BY <1>4, <1>12 DEF HandlerCalled, Frames
  <2>2. Top'.st = "handler"
    BY <1>3, <1>4, <1>12, <2>1 DEF HandlerCalled, Frames
  <2> QED
    BY <1>2, <1>12, <2>1, <2>2 DEF HandlerCalled
<1>13. ASSUME NEW j \in UserJobs, Register(j) PROVE WaitOK'
  <2>1. /\ Len(jobs') = Len(jobs) + 1 /\ jobs'[Len(jobs) + 1] = j
        /\ \A p \in 1..Len(jobs) : jobs'[p] = jobs[p]
        /\ Registered' = Registered \cup {j}
    BY <1>13, RegisteredKept
  <2>2. /\ missed' = missed /\ isrIdx' = isrIdx /\ ticks' = ticks
        /\ Top.st # "zero" /\ j \notin Registered
    BY <1>13 DEF Register
  <2>3. Top' = Top
    BY <2>2 DEF Top
  <2>4. \A p \in 1..Len(jobs) + 1 :
          /\ WaitBound(p)' \in Nat
          /\ p <= Len(jobs) => WaitBound(p) \in Nat /\ WaitBound(p) <= WaitBound(p)'
    BY <1>1, <2>1, <2>2, <2>3 DEF WaitBound
  <2>5. ASSUME NEW p \in 1..Len(jobs'), jobs'[p] \in IsrJobs
        PROVE  missed'[jobs'[p]] <= WaitBound(p)'
    <3>1. CASE p <= Len(jobs)
      <4>1. p \in 1..Len(jobs) /\ jobs'[p] = jobs[p]
        BY <1>1, <2>1, <3>1
      <4>2. missed[jobs[p]] <= WaitBound(p) /\ missed[jobs[p]] \in Nat
        BY <2>5, <4>1 DEF WaitOK, TimeType
      <4>3. WaitBound(p)' \in Nat /\ WaitBound(p) \in Nat /\ WaitBound(p) <= WaitBound(p)'
        BY <1>1, <2>1, <2>4, <3>1
      <4> QED
        BY <2>2, <4>1, <4>2, <4>3
    <3>2. CASE p = Len(jobs) + 1
      <4>1. jobs'[p] = j /\ missed'[j] = 0
        BY <2>1, <2>2, <2>5, <3>2 DEF WaitOK
      <4>2. WaitBound(p)' \in Nat
        BY <1>1, <2>1, <2>4
      <4> QED
        BY <4>1, <4>2
    <3> QED
      BY <1>1, <2>1, <3>1, <3>2
  <2> QED
    BY <2>1, <2>2, <2>5 DEF WaitOK
<1>14. CASE Reset
  <2>1. Init'
    BY <1>14 DEF Reset, Init
  <2>2. IndInv'
    BY <2>1, InitInv, PTL
  <2> QED
    BY <2>2 DEF IndInv
<1>15. CASE IsrTick
  <2>1. jobs' = jobs /\ Registered' = Registered
    BY <1>15 DEF IsrTick, Registered
  <2>2. ASSUME NEW j \in IsrJobs, j \notin Registered PROVE missed'[j] = 0
    BY <1>15, <2>2 DEF IsrTick, Registered
  <2>3. \A p \in 1..Len(jobs) : jobs[p] \in IsrJobs => missed'[jobs[p]] <= WaitBound(p)'
    BY <1>15, TickKeepsBound
  <2> QED
    BY <2>1, <2>2, <2>3 DEF WaitOK
<1>16. CASE UNCHANGED <<jobs, ticks, isrIdx, missed>>
  <2>1. Top' = Top
    BY <1>16 DEF Top
  <2> QED
    BY <1>2, <1>16, <2>1
<1>17. CASE NmiStrikes \/ ClockReanimated \/ (\E j \in Ids : Scales(j)) \/ TimePasses \/ UNCHANGED vars
  BY <1>16, <1>17 DEF NmiStrikes, ClockReanimated, Scales, TimePasses, vars
<1> QED
  BY <1>5, <1>6, <1>7, <1>8, <1>9, <1>10, <1>11, <1>12, <1>13, <1>14, <1>15, <1>17
     DEF Next, Main
-----------------------------------------------------------------------------
LEMMA Inductive == IndInv /\ [Next]_vars => IndInv'
BY FlagNext, TimeNext, StackNext, WaitNext DEF IndInv, TypeOK

\* The invariant behind the theorems: the stack of ticks, and for every place of the
\* table how many ticks its job can have missed with the index where it is.
THEOREM SchedulerInv == Spec => []IndInv
BY InitInv, Inductive, PTL DEF Spec

\* The table, the index, the stack of ticks and the times keep their types.
THEOREM SchedulerTypeOK == Spec => []TypeOK
<1>1. IndInv => TypeOK
  BY DEF IndInv
<1> QED
  BY <1>1, SchedulerInv, PTL

\* However the main program, its error handler and the interrupt interleave, a due job
\* of the interrupt runs before it has missed as many ticks as the table is long,
\* twice as many when the statuses are printed.
THEOREM SchedulerIsrServed == Spec => []IsrJobServedSoon
<1>1. IndInv => IsrJobServedSoon
  <2> SUFFICES ASSUME IndInv, NEW j \in IsrJobs
               PROVE  missed[j] <= (IF StatusPrint THEN 2 ELSE 1) * Len(jobs)
    BY DEF IsrJobServedSoon
  <2>1. isrIdx \in 0..Len(jobs) /\ Len(jobs) \in Nat /\ missed[j] \in Nat
    BY DEF IndInv, TypeOK, TableType, TimeType
  <2>2. CASE j \notin Registered
    BY <2>1, <2>2 DEF IndInv, WaitOK
  <2>3. CASE j \in Registered
    <3>1. PICK p \in 1..Len(jobs) : jobs[p] = j
      BY <2>3 DEF Registered
    <3>2. missed[j] <= WaitBound(p)
      BY <3>1 DEF IndInv, WaitOK
    <3>3. /\ WaitBound(p) \in Nat
          /\ WaitBound(p) <= (IF StatusPrint THEN 2 ELSE 1) * Len(jobs)
      BY <2>1 DEF WaitBound
    <3> QED
      BY <2>1, <3>2, <3>3
  <2> QED
    BY <2>2, <2>3
<1> QED
  BY <1>1, SchedulerInv, PTL
=============================================================================
