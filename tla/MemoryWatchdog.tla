---------------------------- MODULE MemoryWatchdog ----------------------------
(***************************************************************************)
(* src/autoguard/g_rom.cpp: memory_watchdog_check(), the job that tests a  *)
(* memory which the storage driver reports as failing, and that ends in    *)
(* the error handler when the memory stays broken; together with the       *)
(* storage driver, whose statuses it reads and clears.                     *)
(***************************************************************************)
EXTENDS StorageDriver

CONSTANTS
    ErrorsMax,  \* ERRORS_MAX
    Wrap        \* 256: errors is a uint8_t

ASSUME WatchdogAssumption == ErrorsMax \in Nat /\ Wrap \in Nat \ {0}

VARIABLES
    errors,        \* failures counted since the last test that succeeded
    timerStarted,
    timerRan,      \* TIMEOUT_MS has passed since errorTimer.start()
    handled,       \* system_error_handler(MEMORY_ERROR) was called
    failed         \* history: tests failed since the last one that succeeded

watchdogVars == <<errors, timerStarted, timerRan, handled, failed>>
vars == <<driverVars, watchdogVars>>

Faulty == readFault \/ writeFault \/ memError \/ expected

\* Failed tests that MEMORY_ERROR takes, for each counts once or twice.
Proof == ErrorsMax \div 2 + 1

-----------------------------------------------------------------------------

\* w25qxx_init: at once when the driver is initialized, else the flash may or
\* may not answer.
FlashInit(ready) == chipReady => ready

\* The flash is initialized on the first run that finds it; that run does
\* nothing else.
Initialize ==
    /\ ~handled /\ mode = "flash" /\ ~initialized
    /\ \E ready \in BOOLEAN :
          FlashInit(ready) /\ initialized' = ready /\ chipReady' = (chipReady \/ ready)
    /\ UNCHANGED <<mode, mem, bufferVars, errorVars, faultVars, memError, expected, doubt,
                   watchdogVars>>

\* errors > ERRORS_MAX is the error; its first run starts the timer, and the
\* run that finds the timer expired calls the handler.
JudgeAgain(errs, started) ==
    /\ errors' = errs
    /\ memError' = (errs > ErrorsMax)
    /\ timerStarted' = (errs > ErrorsMax)
    /\ timerRan' = (started /\ timerRan /\ errs > ErrorsMax)
    /\ handled' = (started /\ timerRan)
Judge(errs, started) ==
    /\ errors' = errs
    /\ memError' = (errs > ErrorsMax)
    /\ timerStarted' = (started \/ errs > ErrorsMax)
    /\ timerRan' = (started /\ timerRan)
    /\ handled' = (started /\ timerRan)

\* Any run finds the EEPROM initialized.
Initialized == initialized \/ mode = "eeprom"

\* A test: one byte at a random address is read and written back.  Both
\* counts may rise in one run.  The write finds the byte there, so the memory
\* does not change; among its failures is w25qxx_write's refusal of an address
\* inside a page.
TestPasses(read, write) == read /\ write

CountedOn(passes, read) == IF passes THEN errors ELSE (errors + IF read THEN 1 ELSE 2) % Wrap
CountedWide(passes, read) == IF passes THEN 0 ELSE errors + IF read THEN 1 ELSE 2
Counted(passes, read) == IF passes THEN 0 ELSE (errors + IF read THEN 1 ELSE 2) % Wrap

\* A test of the flash first sees to it that its driver is initialized: a chip
\* erase may have undone that.  A flash that does not answer is not read.
Ready(ready, read) ==
    IF mode = "flash"
    THEN /\ FlashInit(ready) /\ (read => ready)
         /\ initialized' = ready /\ chipReady' = ready
    ELSE initialized' = TRUE /\ UNCHANGED chipReady

Test ==
    /\ ~handled /\ Initialized /\ Faulty
    /\ \E ready, read, write \in BOOLEAN :
          LET passes == TestPasses(read, write) IN
          /\ Ready(ready, read)
          /\ readFault' = (readFault /\ ~read)
          /\ writeFault' = (writeFault /\ ~passes)
          /\ expected' = (expected /\ ~(passes /\ mode = "flash"))
          /\ Judge(Counted(passes, read), timerStarted /\ ~passes)
          /\ failed' = IF passes THEN 0 ELSE IF failed < Proof THEN failed + 1 ELSE failed
    /\ UNCHANGED <<mode, mem, bufferVars, errorVars, doubt>>

\* A run that has nothing to test, on a system that is ready.
NothingToTest ==
    /\ ~handled /\ Initialized /\ ~Faulty
    /\ initialized' = TRUE
    /\ Judge(errors, timerStarted)
    /\ UNCHANGED <<mode, mem, bufferVars, errorVars, faultVars, expected, chipReady, doubt,
                   failed>>

Watchdog == Initialize \/ Test \/ NothingToTest

TimerEnds ==
    /\ timerStarted /\ ~timerRan /\ timerRan' = TRUE
    /\ UNCHANGED <<driverVars, errors, timerStarted, handled, failed>>

\* The handler ends in a reset.
Reset ==
    /\ handled
    /\ DriverBoots /\ UNCHANGED <<mode, mem>>
    /\ errors' = 0 /\ timerStarted' = FALSE /\ timerRan' = FALSE /\ handled' = FALSE /\ failed' = 0

Init ==
    /\ DriverInit
    /\ errors = 0 /\ timerStarted = FALSE /\ timerRan = FALSE /\ handled = FALSE /\ failed = 0

Next ==
    \/ ~handled /\ DriverNext /\ UNCHANGED watchdogVars
    \/ Watchdog
    \/ TimerEnds
    \/ Reset

Spec == Init /\ [][Next]_vars

\* The watchdog is a job of the scheduler that also runs in the error state,
\* and its timer expires.
Fairness == WF_vars(Watchdog) /\ WF_vars(TimerEnds)

FairSpec == Spec /\ Fairness

-----------------------------------------------------------------------------
(* Properties                                                              *)

TypeOK ==
    /\ DriverTypeOK
    /\ errors \in 0 .. Wrap - 1 /\ failed \in 0 .. Proof
    /\ timerStarted \in BOOLEAN /\ timerRan \in BOOLEAN /\ handled \in BOOLEAN

\* A page that is read from the buffer is what the memory holds, unless it was
\* erased, spoilt by the failure of another page's write, or written as a later
\* page of a long write since it was buffered: those leave the buffer as it is
\* (StorageDriver.cpp:205-209, 305-362).
ReadsStored == \A p \in Pages : Hit(p, TRUE) /\ ~doubt => bufferPage = mem[p]

\* MEMORY_ERROR closes the storage only after three tests have failed in a
\* row, although each may count twice and failures of tests long ago still
\* count (g_rom.cpp:168-187).
MemoryErrorEarned == memError => failed >= Proof

\* A fault that was reported for an initialized memory is cleared or ends in
\* the error handler, however often the 8 bit counter wraps and whatever
\* MEMORY_ERROR says meanwhile; or the flash does not answer when a test
\* initializes its driver again after a chip erase (g_rom.cpp:92-195).
FaultAnswered == (initialized /\ Faulty) ~> (~Faulty \/ handled \/ ~initialized)
=============================================================================
