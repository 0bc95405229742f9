----------------------------- MODULE JobScaling -----------------------------
(***************************************************************************)
(* The adaptive delays of g_proc.cpp.  Every 200 ms recompute_scaling      *)
(* turns the time each job used in the last second into its load, and the  *)
(* loads into the delay until the job's next launch.  Loads and scales are *)
(* in hundredths of a per cent, all products in unsigned words.            *)
(***************************************************************************)
EXTENDS Integers, FiniteSets, FiniteSetsExt

CONSTANTS
  Jobs,
  Period,      \* orig_delay_ms of each job
  Priority,    \* the priority each job is registered with
  SystemJobs,  \* the jobs that the constructor registers
  Realtime,    \* the jobs that are not to be scaled
  Shares,       \* the microseconds per second that jobs may use
  SECOND,      \* SECOND_US
  LOAD_SCALE,  \* 100 %
  FIX,         \* 1 %
  LOAD_WRN,    \* LOAD_WRN_X100, above which a job is slowed down
  TARGET,      \* TARGET_CPU_LOAD_X100, above which all jobs are
  SCALE_MAX,   \* JOB_SCALE_MAX_X100
  Word         \* 2^32

INTERNAL == 50  \* GSYSTEM_INTERNAL_PROCCESS_PRIORITY
PRIO_MAX == 200 \* GSYSTEM_PROCCESS_PRIORITY_MAX

ASSUME ScalingAssumption ==
  /\ IsFiniteSet(Jobs)
  /\ Period \in [Jobs -> Nat] /\ Priority \in [Jobs -> 0..255]
  /\ SystemJobs \subseteq Jobs /\ Realtime \subseteq Jobs
  /\ \A j \in SystemJobs : Priority[j] = INTERNAL
  /\ Shares \subseteq Nat
  /\ SECOND \in Nat \ {0} /\ FIX \in Nat \ {0} /\ LOAD_SCALE = 100 * FIX
  /\ LOAD_WRN \in Nat \ {0} /\ TARGET \in Nat \ {0}
  /\ SCALE_MAX \in Nat /\ SCALE_MAX >= LOAD_SCALE /\ Word \in Nat \ {0}

VARIABLES
  time,      \* last_exec_sum_us of each job
  scale,     \* scale_x100
  jobsScale, \* jobs_scale_x100
  delay      \* current_delay_ms

vars == <<time, scale, jobsScale, delay>>

\* add_task: an application cannot have a priority of the system's.
Prio(j) ==
  LET p == IF Priority[j] <= INTERNAL /\ j \notin SystemJobs THEN INTERNAL + 1
           ELSE Priority[j]
  IN IF p > PRIO_MAX THEN PRIO_MAX ELSE p

TypeOK ==
  /\ time \in [Jobs -> Nat]
  /\ scale \in [Jobs -> 0..SCALE_MAX]
  /\ jobsScale \in 0..SCALE_MAX
  /\ delay \in [Jobs -> Nat]

Init ==
  /\ time = [j \in Jobs |-> 0]
  /\ scale = [j \in Jobs |-> 0]
  /\ jobsScale = 0
  /\ delay = Period

\* Job::get_load_x100
Load(j) == (time[j] * LOAD_SCALE) \div SECOND
TotalLoad == MapThenSumSet(Load, Jobs)

\* mutant: no cap
Uncapped(x) == x

Capped(x) == IF x \in 0..SCALE_MAX THEN x ELSE SCALE_MAX

\* SCALE_SMOOTH_ALPHA: what is not needed any more goes away by 5 %.
\* mutant: the quotient is rounded up
SmoothedUp(x) == (x * 95 + 99) \div 100

Smoothed(x) == (x * 95) \div 100

\* The scale for a measure m (microseconds or a load) whose load exceeds its limit, in
\* 64 bits, and cut to a word.
Quotient(m, load, limit) == (m * (LOAD_SCALE + (load - limit))) \div limit
Excess(m, load, limit) == Quotient(m, load, limit) % Word

NewScale(j) ==
  IF j \in Realtime THEN 0
  ELSE Capped(IF Load(j) > LOAD_WRN THEN Excess(time[j], Load(j), LOAD_WRN)
              ELSE Smoothed(scale[j]))

\* mutant: the scale replaces the priority
ScaledAlone(j, s) == ((Period[j] * s) % Word) \div LOAD_SCALE

\* What the code multiplies for the delay of j under the scale s, and the delay itself:
\* the product is a word and wraps.
Stretched(j, s) == (IF Period[j] = 0 THEN 1 ELSE Period[j]) * (Prio(j) * FIX + s)
Scaled(j, s) == (Stretched(j, s) % Word) \div LOAD_SCALE

Overloaded == TotalLoad > TARGET /\ Jobs # Realtime

NewJobsScale ==
  IF Jobs = Realtime THEN 0
  ELSE IF Overloaded THEN Capped(Excess(TotalLoad, TotalLoad, TARGET))
  ELSE Smoothed(jobsScale)

\* mutant: the second loop is missing
NewDelayFirstLoop(j) ==
  IF j \in Realtime \/ NewScale(j) = 0 THEN Period[j] ELSE Scaled(j, NewScale(j))

\* With an overload the second loop goes over the delays of the first.
NewDelay(j) ==
  IF j \in Realtime THEN Period[j]
  ELSE IF Overloaded /\ NewJobsScale > 0 THEN Scaled(j, NewJobsScale + NewScale(j))
  ELSE IF ~Overloaded /\ NewScale(j) > 0 THEN Scaled(j, NewScale(j))
  ELSE Period[j]

Recompute ==
  /\ scale' = [j \in Jobs |-> NewScale(j)]
  /\ jobsScale' = NewJobsScale
  /\ delay' = [j \in Jobs |-> NewDelay(j)]
  /\ UNCHANGED time

\* Job::exec closes a second and stores the time that the job used in it.
Measured(j) ==
  /\ \E t \in Shares : time' = [time EXCEPT ![j] = t]
  /\ UNCHANGED <<scale, jobsScale, delay>>

\* Job::updateCount, in every tick while the job has not run for a second.
Idles(j) ==
  /\ time' = [time EXCEPT ![j] = ((@ * 90) % Word) \div 100]
  /\ UNCHANGED <<scale, jobsScale, delay>>

Next == Recompute \/ \E j \in Jobs : Measured(j) \/ Idles(j)

Spec == Init /\ [][Next]_vars

\* recompute_scaling is a job of the scheduler.
FairSpec == Spec /\ WF_vars(Recompute)
-----------------------------------------------------------------------------
(***************************************************************************)
(* Properties                                                              *)
(***************************************************************************)
\* The scales of j and of all jobs leave the product of its delay within its word.  With
\* the constants of the code that is so for 500 ms up to a load of 33 %, for 5 s up to
\* 5 %, and while its own scale is zero for a job of up to a minute and a half.
Fits(j) == Stretched(j, scale[j] + jobsScale) < Word

\* Scaling slows jobs down and never hurries them: as long as its product fits, a job
\* with the default priority or more waits at least the delay that it was registered
\* with.  (With less, and so for the watchdogs of the system, a small scale shortens the
\* delay.  A product that wraps at g_proc.cpp:443 may make any delay of any job: 500 ms
\* become 21 ms for a job that used 334.1 ms of its second.)
NeverSooner ==
  \A j \in Jobs : Prio(j) * FIX >= LOAD_SCALE /\ Fits(j) => delay[j] >= Period[j]

\* An overload slows every job that may be slowed and whose product fits, whatever its
\* priority and its own load.  (The scale of all jobs is cut to a word as well, which
\* needs a sum of the loads above 50 000 %.)
TotalFits == Quotient(TotalLoad, TotalLoad, TARGET) < Word
OverloadSlows ==
  [][Recompute /\ Overloaded /\ TotalFits =>
       \A j \in Jobs \ Realtime : Period[j] > 1 /\ Fits(j)' => delay'[j] > Period[j]]_vars

\* The scaling lets go: once no job uses more of a second than its limit, nor all
\* jobs together more than theirs, every job comes back to the delay it was
\* registered with.
JobLimit == (LOAD_WRN * SECOND) \div LOAD_SCALE
SumLimit == (TARGET * SECOND) \div LOAD_SCALE
Calm ==
  /\ \A j \in Jobs : time[j] <= JobLimit
  /\ MapThenSumSet(LAMBDA j : time[j], Jobs) <= SumLimit
LetsGo == <>[]Calm => <>[](delay = Period)
=============================================================================
