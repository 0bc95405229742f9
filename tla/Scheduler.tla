------------------------------ MODULE Scheduler ------------------------------
(***************************************************************************)
(* The job table of g_proc.cpp and the two loops over it: system_tick,     *)
(* called for ever from the main program, and system_tick_isr, called from *)
(* a timer interrupt that may strike between any two steps of the main     *)
(* program.  The error handler calls system_tick again from inside the job *)
(* that failed, so the main program is a stack of ticks.                   *)
(***************************************************************************)
EXTENDS Integers, Sequences

CONSTANTS
  SystemJobs,   \* the sequence of jobs that the constructor registers
  UserJobs,     \* the jobs that the application may register
  IsrJobs,      \* those for the interrupt
  ErrorJobs,    \* those with work_with_error
  Failing,      \* main jobs that may call system_error_handler
  Period,       \* orig_delay_ms of each job
  Stretch,      \* how many times longer the scaling may make a delay
  Capacity,     \* JOBS_BUF_SIZE
  StatusPrint   \* GSYSTEM_PROC_INFO_ENABLE

SysIds == {SystemJobs[k] : k \in 1..Len(SystemJobs)}
Ids    == SysIds \cup UserJobs
MainJobs == Ids \ IsrJobs

ASSUME SchedulerAssumption ==
  /\ SystemJobs \in Seq(SysIds)
  /\ \A a, b \in 1..Len(SystemJobs) : SystemJobs[a] = SystemJobs[b] => a = b
  /\ UserJobs \cap SysIds = {} /\ IsrJobs \subseteq UserJobs
  /\ ErrorJobs \subseteq Ids /\ Failing \subseteq MainJobs
  /\ SystemJobs # <<>>
  /\ Period \in [Ids -> Nat] /\ Stretch \in Nat \ {0}
  /\ Capacity \in Nat /\ Capacity >= Len(SystemJobs)
  /\ StatusPrint \in BOOLEAN

VARIABLES
  jobs,          \* the table: the registered jobs, in order
  ticks,         \* the ticks of the main program that have begun, the innermost last
  isrIdx,        \* isr_job_idx
  handlerCalled, \* SYSTEM_ERROR_HANDLER_CALLED
  mcuError,      \* is_mcu_internal_error()
  irqOff,        \* __disable_irq() was called
  idle,          \* milliseconds since last_end_us of each job, at most its longest delay
  delay,         \* current_delay_ms
  since,         \* history: likewise since a job of Failing was last launched
  missed         \* history: interrupt ticks that a due interrupt job waited through

errorVars == <<handlerCalled, mcuError, irqOff>>
timeVars  == <<idle, delay, since>>
vars == <<jobs, ticks, isrIdx, errorVars, timeVars, missed>>

Longest(j) == Stretch * Period[j]

\* the tick that the main program is in, or the loop around the ticks
Outside == [at |-> 0, len |-> 0, st |-> "outside"]
Top == IF ticks = <<>> THEN Outside ELSE ticks[Len(ticks)]
Frames == [at : Nat, len : Nat, st : {"enter", "zero", "scan", "run", "handler"}]

TableType ==
  /\ jobs \in Seq(Ids) /\ Len(jobs) \in 1..Capacity
  /\ ticks \in Seq(Frames)
  /\ isrIdx \in 0..Len(jobs)

FlagType == handlerCalled \in BOOLEAN /\ mcuError \in BOOLEAN /\ irqOff \in BOOLEAN

TimeType ==
  /\ idle \in [Ids -> Nat] /\ delay \in [Ids -> Nat] /\ since \in [Failing -> Nat]
  /\ missed \in [IsrJobs -> Nat]

TypeOK == TableType /\ FlagType /\ TimeType

Init ==
  /\ jobs = SystemJobs
  /\ ticks = <<>>
  /\ isrIdx = 0
  /\ handlerCalled = FALSE /\ mcuError = FALSE /\ irqOff = FALSE
  /\ idle = [j \in Ids |-> 0]
  /\ delay = Period
  /\ since = [j \in Failing |-> Longest(j)]
  /\ missed = [j \in IsrJobs |-> 0]

Registered == {jobs[k] : k \in 1..Len(jobs)}

\* Job::denied
Denied(j) ==
  \/ handlerCalled /\ j \notin ErrorJobs
  \/ mcuError /\ j \notin SysIds

Due(j) == idle[j] >= delay[j]
-----------------------------------------------------------------------------
(***************************************************************************)
(* The main program: one tick scans the jobs that the table held when it   *)
(* began.                                                                  *)
(***************************************************************************)
SetTop(frame) == ticks' = [ticks EXCEPT ![Len(ticks)] = frame]

\* The main loop, or the loop of the error handler, calls system_tick.
TickBegins ==
  /\ Top.st \in {"outside", "handler"}
  /\ ticks' = Append(ticks, [at |-> 1, len |-> Len(jobs), st |-> "enter"])
  /\ UNCHANGED <<jobs, isrIdx, errorVars, timeVars, missed>>

\* isr_job_idx is read here and reset in a step of its own: it belongs to the interrupt.
TickReadsIndex ==
  /\ Top.st = "enter"
  /\ SetTop([Top EXCEPT !.st = IF isrIdx >= Top.len THEN "zero" ELSE "scan"])
  /\ UNCHANGED <<jobs, isrIdx, errorVars, timeVars, missed>>

TickResetsIndex ==
  /\ Top.st = "zero"
  /\ isrIdx' = 0
  /\ SetTop([Top EXCEPT !.st = "scan"])
  /\ UNCHANGED <<jobs, errorVars, timeVars, missed>>

Runnable(j) == j \notin IsrJobs /\ Due(j) /\ ~Denied(j)

\* mutant: the loop is left, not continued, at a job for the interrupt
TickSkipsRest ==
  /\ Top.st = "scan" /\ Top.at <= Top.len
  /\ ~Runnable(jobs[Top.at])
  /\ SetTop([Top EXCEPT !.at = IF jobs[@] \in IsrJobs THEN Top.len + 1 ELSE @ + 1])
  /\ UNCHANGED <<jobs, isrIdx, errorVars, timeVars, missed>>

TickSkipsJob ==
  /\ Top.st = "scan" /\ Top.at <= Top.len
  /\ ~Runnable(jobs[Top.at])
  /\ SetTop([Top EXCEPT !.at = @ + 1])
  /\ UNCHANGED <<jobs, isrIdx, errorVars, timeVars, missed>>

JobStarts ==
  /\ Top.st = "scan" /\ Top.at <= Top.len
  /\ Runnable(jobs[Top.at])
  /\ SetTop([Top EXCEPT !.st = "run"])
  /\ since' = [j \in Failing |-> IF j = jobs[Top.at] THEN 0 ELSE since[j]]
  /\ UNCHANGED <<jobs, isrIdx, errorVars, idle, delay, missed>>

JobEnds ==
  /\ Top.st = "run"
  /\ idle' = [idle EXCEPT ![jobs[Top.at]] = 0]
  /\ SetTop([at |-> Top.at + 1, len |-> Top.len, st |-> "scan"])
  /\ UNCHANGED <<jobs, isrIdx, errorVars, delay, since, missed>>

TickEnds ==
  /\ Top.st = "scan" /\ Top.at > Top.len
  /\ ticks' = SubSeq(ticks, 1, Len(ticks) - 1)
  /\ UNCHANGED <<jobs, isrIdx, errorVars, timeVars, missed>>

\* system_register and system_register_isr, called between ticks or from a job.
Register(j) ==
  /\ Top.st \in {"outside", "run"}
  /\ j \in UserJobs \ Registered
  /\ Len(jobs) < Capacity
  /\ jobs' = Append(jobs, j)
  /\ UNCHANGED <<ticks, isrIdx, errorVars, timeVars, missed>>

\* recompute_scaling runs in the main program and writes the delays of all jobs;
\* JobScaling has the arithmetic.
Scales(j) ==
  /\ Top.st = "run" /\ jobs[Top.at] = SystemJobs[1]
  /\ j \in Registered
  /\ \E factor \in 1..Stretch : delay' = [delay EXCEPT ![j] = factor * Period[j]]
  /\ UNCHANGED <<jobs, ticks, isrIdx, errorVars, idle, since, missed>>

\* A job calls system_error_handler, which stays in its loop; it switches the
\* interrupts off when the system tick is at fault.
HandlerCalled ==
  /\ Top.st = "run"
  /\ jobs[Top.at] \in Failing /\ ~handlerCalled /\ ~mcuError
  /\ handlerCalled' = TRUE
  /\ irqOff' \in BOOLEAN
  /\ SetTop([Top EXCEPT !.st = "handler"])
  /\ UNCHANGED <<jobs, isrIdx, mcuError, timeVars, missed>>

\* The vector of the non-maskable interrupt, which no switch holds back, sets its error.
NmiStrikes ==
  /\ ~mcuError
  /\ mcuError' = TRUE
  /\ UNCHANGED <<jobs, ticks, isrIdx, handlerCalled, irqOff, timeVars, missed>>

\* The watchdog of the system tick repairs the clock: it clears that error and
\* switches the interrupts on.
ClockReanimated ==
  /\ Top.st = "run" /\ jobs[Top.at] \in SysIds
  /\ mcuError' = FALSE /\ irqOff' = FALSE
  /\ UNCHANGED <<jobs, ticks, isrIdx, handlerCalled, timeVars, missed>>

\* The device resets when the error handler ends its loop, and at once when a fault of
\* the processor calls the handler or is found by it.
Reset ==
  /\ Top.st = "handler" \/ ~handlerCalled
  /\ jobs' = SystemJobs /\ ticks' = <<>> /\ isrIdx' = 0
  /\ handlerCalled' = FALSE /\ mcuError' = FALSE /\ irqOff' = FALSE
  /\ idle' = [j \in Ids |-> 0] /\ delay' = Period
  /\ since' = [j \in Failing |-> Longest(j)]
  /\ missed' = [j \in IsrJobs |-> 0]
-----------------------------------------------------------------------------
(***************************************************************************)
(* The interrupt: one tick looks at the jobs from isr_job_idx on and       *)
(* leaves the index one further.  It is over before the main program goes  *)
(* on, so it is one step.                                                  *)
(***************************************************************************)
IsrDue(k) == jobs[k] \in IsrJobs /\ Due(jobs[k]) /\ ~Denied(jobs[k])

\* mutant: the index is not brought back to the table
IsrStartUnchecked == isrIdx

IsrStart == IF isrIdx >= Len(jobs) THEN 0 ELSE isrIdx

\* The places of the jobs that this tick launches: every due one, or only the
\* first when the statuses are printed.
IsrRuns ==
  {k \in IsrStart + 1 .. Len(jobs) :
     IsrDue(k) /\ (StatusPrint => \A h \in IsrStart + 1 .. k - 1 : ~IsrDue(h))}

IsrTick ==
  LET ran == {jobs[k] : k \in IsrRuns}
      waited == {jobs[k] : k \in {h \in 1..Len(jobs) : IsrDue(h)}} \ ran
  IN /\ ~irqOff
     /\ isrIdx' = IsrStart + 1
     /\ idle'  = [j \in Ids |-> IF j \in ran THEN 0 ELSE idle[j]]
     /\ missed' = [j \in IsrJobs |-> IF j \in waited THEN missed[j] + 1 ELSE 0]
     /\ UNCHANGED <<jobs, ticks, errorVars, delay, since>>

Later(f) == [j \in DOMAIN f |-> IF f[j] < Longest(j) THEN f[j] + 1 ELSE f[j]]

TimePasses ==
  /\ idle' = Later(idle) /\ since' = Later(since)
  /\ UNCHANGED <<jobs, ticks, isrIdx, errorVars, delay, missed>>

Main ==
  \/ TickBegins \/ TickReadsIndex \/ TickResetsIndex
  \/ TickSkipsJob \/ JobStarts \/ JobEnds \/ TickEnds

Next ==
  \/ Main
  \/ HandlerCalled \/ NmiStrikes \/ ClockReanimated \/ Reset
  \/ \E j \in UserJobs : Register(j)
  \/ \E j \in Ids : Scales(j)
  \/ IsrTick
  \/ TimePasses

Spec == Init /\ [][Next]_vars

\* The main program goes on, jobs return, and time passes.
FairSpec == Spec /\ WF_vars(Main) /\ WF_vars(TimePasses)
-----------------------------------------------------------------------------
(***************************************************************************)
(* Properties                                                              *)
(***************************************************************************)
\* No job is starved in the interrupt.  A tick serves every due job from the index on,
\* so a job waits at most until the index has gone round the table.  With the
\* statuses printed a tick serves only the first: the index has to stop at the job's
\* place, and the main program may throw it back to 0 once on its way.
IsrJobServedSoon ==
  \A j \in IsrJobs : missed[j] <= (IF StatusPrint THEN 2 ELSE 1) * Len(jobs)

\* Every job keeps running: a main job that is registered and that no error keeps
\* out is launched again and again, also from the loop of the error handler, unless
\* the device resets for ever.
Deserves(j) ==
  /\ j \in Registered
  /\ handlerCalled => j \in ErrorJobs
  /\ mcuError => j \in SysIds
Running(j) == Top.st = "run" /\ jobs[Top.at] = j
JobsKeepRunning ==
  \/ []<><<Reset>>_vars
  \/ \A j \in MainJobs : []<>(Running(j) \/ ~Deserves(j))

\* gsystem.h calls delay_ms the delay between launches: a job is launched only when
\* the delay in force has passed since its last launch.
Launch(j) ==
  /\ Top.st = "scan" /\ Top.at <= Top.len /\ jobs[Top.at] = j
  /\ ticks' = [ticks EXCEPT ![Len(ticks)].st = "run"]
LaunchesSpaced == [][\A j \in Failing : Launch(j) => since[j] >= delay[j]]_vars
=============================================================================
