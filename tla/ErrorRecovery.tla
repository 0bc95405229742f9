---------------------------- MODULE ErrorRecovery ----------------------------
(***************************************************************************)
(* How the device gives up and starts again: the error set of soul.c, the  *)
(* periodic check that calls system_error_handler when the device has not  *)
(* been ready for too long, the handler itself with its error loop, and    *)
(* the record of the error that the handler leaves in the clock's backup   *)
(* RAM for the next boot to read.                                          *)
(***************************************************************************)
EXTENDS Naturals

CONSTANTS
  Errors,         \* the error codes in use, in the order of SOUL_STATUS
  SYS_TICK_ERROR, RTC_ERROR, POWER_ERROR, LOAD_ERROR, HARD_FAULT,
  AppErrors,      \* errors that watchdogs and application set and reset
  TimeoutSet,     \* has the application called set_system_timeout?
  AppMayWait,     \* may the application enter safety mode or be unready?
  Garbage,        \* the test word of the RTC self test, read as a code
  MaxChanges,     \* bound on what the application does
  MaxGlitches,    \* bound on accesses to the clock chip that fail
  MaxFaults       \* bound on faults: hard faults, brown-outs, bad boots

NoError == 0

ASSUME ErrorAssumption ==
  /\ Errors \subseteq Nat \ {NoError}
  /\ {SYS_TICK_ERROR, RTC_ERROR, POWER_ERROR, LOAD_ERROR, HARD_FAULT} \subseteq Errors
  /\ AppErrors \subseteq Errors \ {SYS_TICK_ERROR, RTC_ERROR, POWER_ERROR, HARD_FAULT}
  /\ TimeoutSet \in BOOLEAN /\ AppMayWait \in BOOLEAN
  /\ Garbage \notin Errors \cup {NoError}
  /\ MaxChanges \in Nat /\ MaxGlitches \in Nat /\ MaxFaults \in Nat

VARIABLES
  pc,            \* "boot", "run", "loop" (in the handler), "asleep", "hung"
  errors,        \* the error bits that are set
  handlerCalled, \* SYSTEM_ERROR_HANDLER_CALLED
  tickFault,     \* SYS_TICK_FAULT
  hwReady,       \* SYSTEM_HARDWARE_READY
  swReady,       \* SYSTEM_SOFTWARE_READY
  safety,        \* SYSTEM_SAFETY_MODE
  appReady,      \* what the application's is_software_ready() answers
  errTimer,      \* err_timer: "off" before the first check, "wait", "expired"
  resetTimer,    \* the handler's timer: "off", "gtimer", "system", "expired"
  record,        \* the error code in the clock's RAM, which survives a reset
  clockStarted,  \* clock_started
  rtcReady,      \* RTC_READY
  loaded,        \* system_error_loaded
  tested,        \* tested
  rtcTimer,      \* the 15 s timer of rtc_watchdog_check: "off", "wait", "expired"
  lastErr,       \* soul.last_err
  reported,      \* history: every code a handler recorded
  pending,       \* history: the code the handler recorded since this boot
  expected,      \* history: the code this boot ought to report
  cleared,       \* history: all errors went away since errTimer was started
  changes, glitches, faults  \* what the bounds count

soulVars  == <<errors, handlerCalled, tickFault, hwReady, swReady, safety, lastErr>>
clockVars == <<clockStarted, rtcReady, loaded, tested, rtcTimer>>
timerVars == <<errTimer, resetTimer>>
histVars  == <<reported, pending, expected, cleared>>
countVars == <<changes, glitches, faults>>
vars == <<pc, soulVars, appReady, timerVars, record, clockVars, histVars, countVars>>

FlagType ==
  /\ handlerCalled \in BOOLEAN /\ tickFault \in BOOLEAN /\ hwReady \in BOOLEAN
  /\ swReady \in BOOLEAN /\ safety \in BOOLEAN /\ appReady \in BOOLEAN
  /\ clockStarted \in BOOLEAN /\ rtcReady \in BOOLEAN
  /\ loaded \in BOOLEAN /\ tested \in BOOLEAN /\ cleared \in BOOLEAN

PlaceType ==
  /\ pc \in {"boot", "run", "loop", "asleep", "hung"}
  /\ errTimer \in {"off", "wait", "expired"}
  /\ resetTimer \in {"off", "gtimer", "system", "expired"}
  /\ rtcTimer \in {"off", "wait", "expired"}

CodeType ==
  /\ errors \subseteq Errors
  /\ record \in Errors \cup {NoError, Garbage}
  /\ lastErr \in Errors \cup {NoError}
  /\ reported \subseteq Errors
  /\ pending \in Errors \cup {NoError} /\ expected \in Errors \cup {NoError}

CountType ==
  /\ changes \in 0..MaxChanges /\ glitches \in 0..MaxGlitches /\ faults \in 0..MaxFaults

TypeOK == FlagType /\ PlaceType /\ CodeType /\ CountType

\* get_first_error, for a set of errors that is not empty
FirstError(E) == CHOOSE e \in E : \A f \in E : e <= f

\* is_system_ready
Ready == errors = {} /\ ~safety /\ hwReady /\ swReady

\* The RAM of a device that starts, as every reset leaves it.
ColdRam ==
  /\ pc = "boot"
  /\ errors = {} /\ handlerCalled = FALSE /\ tickFault = FALSE
  /\ hwReady = FALSE /\ swReady = FALSE /\ safety = FALSE
  /\ lastErr = NoError
  /\ errTimer = "off" /\ resetTimer = "off"
  /\ clockStarted = FALSE /\ rtcReady = FALSE
  /\ loaded = FALSE /\ tested = FALSE /\ rtcTimer = "off"
  /\ cleared = FALSE

Init ==
  /\ ColdRam
  /\ record = NoError
  /\ appReady = TRUE
  /\ reported = {} /\ pending = NoError /\ expected = NoError
  /\ changes = 0 /\ glitches = 0 /\ faults = 0

\* g_reboot: the C library clears RAM; the clock's RAM stays.  code is what the
\* handler recorded before the reset, if it was called.
Reboot(code) ==
  /\ pc' = "boot"
  /\ errors' = {} /\ handlerCalled' = FALSE /\ tickFault' = FALSE
  /\ hwReady' = FALSE /\ swReady' = FALSE /\ safety' = FALSE
  /\ lastErr' = NoError
  /\ errTimer' = "off" /\ resetTimer' = "off"
  /\ clockStarted' = FALSE /\ rtcReady' = FALSE
  /\ loaded' = FALSE /\ tested' = FALSE /\ rtcTimer' = "off"
  /\ cleared' = FALSE
  /\ pending' = NoError
  /\ expected' = IF code # NoError THEN code
                 ELSE IF loaded THEN NoError ELSE expected
-----------------------------------------------------------------------------
(***************************************************************************)
(* system_error_handler up to its loop, called for e while errs are set.   *)
(***************************************************************************)
\* The code goes to the clock's RAM; with a glitch the old content stays.
Recorded(e) ==
  /\ \/ record' = e /\ glitches' = glitches
     \/ record' = record /\ glitches < MaxGlitches /\ glitches' = glitches + 1
  /\ reported' = reported \cup {e}

HandlerStays(e, errs, fault) ==
  /\ handlerCalled' = TRUE
  /\ errors' = errs \cup {e}
  /\ tickFault' = fault
  /\ clockStarted' \in {clockStarted, TRUE}
  /\ pending' = e
  /\ UNCHANGED <<expected, safety, lastErr, errTimer, rtcReady, loaded, tested, rtcTimer, cleared>>

\* The error loop, which only the reset timer ends.
EnterLoop(e, errs, fault) ==
  /\ HandlerStays(e, errs, fault)
  /\ pc' = "loop"
  /\ resetTimer' = IF fault THEN "system" ELSE "gtimer"

\* What follows the record: sleep on a power error, reset at once on a fault
\* of the MCU, otherwise the loop.
Handler(e, errs, fault) ==
  /\ Recorded(e)
  /\ \/ /\ POWER_ERROR \in errs \cup {e}
        /\ HandlerStays(e, errs, fault)
        /\ pc' = "asleep"
        /\ UNCHANGED <<resetTimer, hwReady, swReady>>
     \/ /\ POWER_ERROR \notin errs \cup {e} /\ HARD_FAULT \in errs \cup {e}
        /\ Reboot(e)
     \/ /\ {POWER_ERROR, HARD_FAULT} \cap (errs \cup {e}) = {}
        /\ EnterLoop(e, errs, fault)
        /\ UNCHANGED <<hwReady, swReady>>

\* The handler's loop ends.  system_timer_wait() answers TRUE once its timer
\* has expired, so with a faulty system tick the first check leaves the loop.
LoopEnds ==
  /\ pc = "loop" /\ resetTimer \in {"system", "expired"}
  /\ Reboot(pending)
  /\ UNCHANGED <<appReady, record, reported, countVars>>

ResetTimerExpires ==
  /\ pc = "loop" /\ resetTimer = "gtimer"
  /\ resetTimer' = "expired"
  /\ UNCHANGED <<pc, soulVars, appReady, errTimer, record, clockVars, histVars,
                 countVars>>
-----------------------------------------------------------------------------
(***************************************************************************)
(* Boot: system_init and system_post_load.                                 *)
(***************************************************************************)
BootDone ==
  /\ pc = "boot"
  /\ pc' = "run"
  /\ UNCHANGED <<soulVars, appReady, timerVars, record, clockVars, histVars, countVars>>

\* The external oscillator does not start (fault), or the supply voltage stays
\* out of range for 10 s: the handler is called before any job was run.
BootFails ==
  /\ pc = "boot" /\ faults < MaxFaults
  /\ faults' = faults + 1
  /\ \E fault \in BOOLEAN : Handler(SYS_TICK_ERROR, {SYS_TICK_ERROR}, fault)
  /\ UNCHANGED <<appReady, changes>>
-----------------------------------------------------------------------------
(***************************************************************************)
(* Jobs.  The handler's loop keeps ticking the scheduler, so the system's  *)
(* jobs run there as well.                                                 *)
(***************************************************************************)
Ticking == pc \in {"run", "loop"}

\* Mistake: a device that is unready without an error is forgotten.
TimedOutOnlyWithErrors(ready) ==
  TimeoutSet /\ ~handlerCalled /\ errors # {} /\ ~ready /\ errTimer = "expired"

TimedOut(ready) ==
  TimeoutSet /\ ~handlerCalled /\ ~ready /\ errTimer = "expired"

\* Scheduler::error_check, once a second: readiness is sampled, and only a
\* sample restarts the timer.
ErrorCheck ==
  /\ Ticking /\ HARD_FAULT \notin errors
  /\ hwReady' = (SYS_TICK_ERROR \notin errors)
  /\ swReady' = (appReady /\ hwReady')
  /\ LET ready == errors = {} /\ ~safety /\ hwReady' /\ swReady'
     IN  IF TimedOut(ready)
         THEN LET e == IF errors = {} THEN LOAD_ERROR ELSE FirstError(errors)
              IN  Recorded(e) /\ EnterLoop(e, errors, tickFault)
         ELSE /\ IF TimeoutSet /\ ~handlerCalled /\ (ready \/ errTimer = "off")
                 THEN errTimer' = "wait" /\ cleared' = FALSE
                 ELSE UNCHANGED <<errTimer, cleared>>
              /\ UNCHANGED <<pc, errors, handlerCalled, tickFault, safety, lastErr,
                             resetTimer, record, clockVars, reported, pending,
                             expected, glitches>>
  /\ UNCHANGED <<appReady, changes, faults>>

ErrTimerExpires ==
  /\ errTimer = "wait"
  /\ errTimer' = "expired"
  /\ UNCHANGED <<pc, soulVars, appReady, resetTimer, record, clockVars, histVars,
                 countVars>>

\* sys_clock_watchdog_check: system_sys_tick_reanimation leaves SYS_TICK_FAULT
\* as it is, for reset_error() ignores what is not an error.
SysTickReanimation ==
  /\ Ticking
  /\ SYS_TICK_ERROR \in errors \/ tickFault
  /\ errors' = errors \ {SYS_TICK_ERROR}
  /\ cleared' = (cleared \/ errors' = {})
  /\ UNCHANGED <<pc, handlerCalled, tickFault, hwReady, swReady, safety, lastErr,
                 appReady, timerVars, record, clockVars, reported, pending,
                 expected, countVars>>
-----------------------------------------------------------------------------
(***************************************************************************)
(* rtc_watchdog_check, as far as the clock's RAM goes.  cost counts the    *)
(* accesses to the clock chip that fail.                                   *)
(***************************************************************************)
\* Reading the record and clearing it, once per boot.
LoadOutcomes ==
  IF loaded THEN {[code |-> NoError, rec |-> record, cost |-> 0]}
  ELSE {[code |-> record,  rec |-> NoError, cost |-> 0],
        [code |-> NoError, rec |-> NoError, cost |-> 1],
        [code |-> record,  rec |-> record,  cost |-> 1]}

\* The self test saves byte 0 of the RAM, clears it, tests the calendar, writes
\* a test word over the RAM, and puts back what it saved; any access may fail.
TestOutcomes(rec) ==
  {[rec |-> rec,     pass |-> TRUE,  done |-> TRUE,  cost |-> 0],
   [rec |-> rec,     pass |-> FALSE, done |-> FALSE, cost |-> 1],
   [rec |-> NoError, pass |-> FALSE, done |-> FALSE, cost |-> 1],
   [rec |-> Garbage, pass |-> FALSE, done |-> TRUE,  cost |-> 1],
   [rec |-> NoError, pass |-> FALSE, done |-> TRUE,  cost |-> 1]}

\* Mistake: any code is taken.
SetLastErrorUnchecked(code) == lastErr' = code

\* set_last_error
SetLastError(code) == lastErr' = IF code \in Errors THEN code ELSE lastErr

RtcEnabled == Ticking /\ (Ready \/ RTC_ERROR \in errors)

\* clock_begin() failed: after 15 s that is an error.
RtcNotStarted ==
  /\ RtcEnabled /\ ~clockStarted /\ glitches < MaxGlitches
  /\ glitches' = glitches + 1
  /\ rtcTimer' = IF rtcTimer = "off" THEN "wait" ELSE rtcTimer
  /\ errors' = IF rtcTimer = "expired" THEN errors \cup {RTC_ERROR} ELSE errors
  /\ UNCHANGED <<pc, handlerCalled, tickFault, hwReady, swReady, safety, lastErr,
                 appReady, timerVars, record, clockStarted, rtcReady, loaded,
                 tested, histVars, changes, faults>>

RtcWatchdog ==
  /\ RtcEnabled
  /\ clockStarted' = TRUE
  /\ rtcTimer' = IF rtcTimer = "off" THEN "wait" ELSE rtcTimer
  /\ loaded' = TRUE
  /\ \E l \in LoadOutcomes, answers \in BOOLEAN :
       LET readyNow == rtcReady \/ answers
           again    == (~rtcReady /\ answers) \/ RTC_ERROR \in errors \/ ~tested
           before   == glitches + l.cost + IF answers \/ rtcReady THEN 0 ELSE 1
       IN  /\ rtcReady' = readyNow
           /\ SetLastError(l.code)
           /\ \/ /\ ~again
                 /\ record' = l.rec /\ glitches' = before
                 /\ UNCHANGED <<errors, tested>>
              \/ /\ again
                 /\ \E t \in TestOutcomes(l.rec) :
                      /\ record' = t.rec
                      /\ errors' = IF t.pass THEN errors \ {RTC_ERROR}
                                   ELSE errors \cup {RTC_ERROR}
                      /\ tested' = t.done
                      /\ glitches' = before + t.cost
  /\ glitches' <= MaxGlitches
  /\ cleared' = (cleared \/ (errors # {} /\ errors' = {}))
  /\ UNCHANGED <<pc, handlerCalled, tickFault, hwReady, swReady, safety, appReady,
                 timerVars, reported, pending, expected, changes, faults>>

RtcTimerExpires ==
  /\ rtcTimer = "wait"
  /\ rtcTimer' = "expired"
  /\ UNCHANGED <<pc, soulVars, appReady, timerVars, record, clockStarted, rtcReady,
                 loaded, tested, histVars, countVars>>
-----------------------------------------------------------------------------
(***************************************************************************)
(* The rest of the device.                                                 *)
(***************************************************************************)
Changes == Ticking /\ changes < MaxChanges /\ changes' = changes + 1

\* Another watchdog or the application sets or resets one of its errors.
AppSetsError(e) ==
  /\ Changes /\ e \notin errors
  /\ errors' = errors \cup {e}
  /\ UNCHANGED <<pc, handlerCalled, tickFault, hwReady, swReady, safety, lastErr,
                 appReady, timerVars, record, clockVars, histVars, glitches, faults>>

AppResetsError(e) ==
  /\ Changes /\ e \in errors
  /\ errors' = errors \ {e}
  /\ cleared' = (cleared \/ errors' = {})
  /\ UNCHANGED <<pc, handlerCalled, tickFault, hwReady, swReady, safety, lastErr,
                 appReady, timerVars, record, clockVars, reported, pending,
                 expected, glitches, faults>>

\* The application enters or leaves safety mode, or its is_software_ready()
\* changes its answer.
AppWaits ==
  /\ AppMayWait /\ Changes
  /\ \/ safety' = ~safety /\ UNCHANGED appReady
     \/ appReady' = ~appReady /\ UNCHANGED safety
  /\ UNCHANGED <<pc, errors, handlerCalled, tickFault, hwReady, swReady, lastErr,
                 timerVars, record, clockVars, histVars, glitches, faults>>

Faults == faults < MaxFaults /\ faults' = faults + 1

\* power_watchdog_check sees a voltage below STM_MIN_VOLTAGEx100; once the
\* handler was called it does nothing more.
PowerFails ==
  /\ Ticking /\ Faults /\ ~handlerCalled
  /\ Handler(POWER_ERROR, errors, tickFault)
  /\ UNCHANGED <<appReady, changes>>

\* gsys_HardFault_Handler.  In the error loop system_error_handler returns at
\* once, to a naked function that has nothing to return with: the core faults
\* again and again, or runs into a reset.
HardFault ==
  /\ Ticking /\ Faults
  /\ \/ ~handlerCalled /\ Handler(HARD_FAULT, errors, tickFault)
     \/ /\ handlerCalled
        /\ pc' = "hung"
        /\ UNCHANGED <<soulVars, timerVars, record, clockVars, histVars, glitches>>
     \/ /\ handlerCalled
        /\ Reboot(pending)
        /\ UNCHANGED <<record, reported, glitches>>
  /\ UNCHANGED <<appReady, changes>>

\* Power is lost and comes back, perhaps in the middle of the RTC self test.
\* A device that sleeps or hangs waits for nothing else.
PowerCycle ==
  /\ \/ Faults
     \/ pc \in {"asleep", "hung"} /\ UNCHANGED faults
  /\ Reboot(pending)
  /\ \/ UNCHANGED record
     \/ RtcEnabled /\ loaded /\ ~tested /\ record' \in {NoError, Garbage}
  /\ UNCHANGED <<appReady, reported, changes, glitches>>

Timers == ErrTimerExpires \/ ResetTimerExpires \/ RtcTimerExpires
Jobs == ErrorCheck \/ SysTickReanimation \/ RtcNotStarted \/ RtcWatchdog

Next ==
  \/ BootDone \/ BootFails
  \/ Jobs
  \/ LoopEnds
  \/ Timers
  \/ \E e \in AppErrors : AppSetsError(e) \/ AppResetsError(e)
  \/ AppWaits
  \/ PowerFails \/ HardFault \/ PowerCycle

Spec == Init /\ [][Next]_vars

\* The scheduler runs its jobs and time passes.
Fairness ==
  /\ WF_vars(BootDone) /\ WF_vars(ErrorCheck) /\ WF_vars(LoopEnds)
  /\ WF_vars(ErrTimerExpires) /\ WF_vars(ResetTimerExpires)

FairSpec == Spec /\ Fairness
-----------------------------------------------------------------------------
(***************************************************************************)
(* Properties.                                                             *)
(***************************************************************************)
\* get_last_error() never names an error no handler ever reported, whatever a
\* self test or a power loss left in the clock's RAM.
LastErrorGenuine == lastErr # NoError => lastErr \in reported

\* After an error reboot get_last_error() names the error of that reboot.
LastErrorReported == loaded /\ ~handlerCalled => lastErr = expected

\* The handler is called for a timeout only if errors were set all the time
\* since the timer was started.
TimeoutNeedsErrors ==
  [][~handlerCalled /\ handlerCalled' /\ faults' = faults
       => errors # {} /\ ~cleared]_vars

\* The error state lasts until the reset timer has expired.
ErrorStateLasts ==
  [][pc = "loop" /\ pc' = "boot" /\ faults' = faults => resetTimer = "expired"]_vars

\* A device does not stay unready for ever, neither in its normal run nor in the error
\* loop: again and again it is ready or it boots.  Two devices wait for a power cycle
\* instead: one that was put to sleep for a power error (gsystem.c:401-407, which no
\* code wakes) and one that hangs in a hard fault that struck inside the error loop.
UnreadyEndsInReset ==
  \/ []<>(Ready \/ pc = "boot")
  \/ <>[](pc = "asleep" /\ POWER_ERROR \in errors)
  \/ <>[](pc = "hung" /\ handlerCalled)
=============================================================================
