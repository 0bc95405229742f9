------------------------------- MODULE RtcTest -------------------------------
(***************************************************************************)
(* src/autoguard/g_rtc.cpp: the calendar part of the RTC watchdog's self   *)
(* test.  It dumps the clock, writes a test date, reads it back, and puts  *)
(* the dump and the time that passed back.  Every register is an access of *)
(* its own, before which the chip's second may pass, the access may fail   *)
(* and the device may be reset.  The RAM part of the watchdog is in        *)
(* ErrorRecovery; here its accesses only fail or succeed.                  *)
(***************************************************************************)
EXTENDS Clock

CONSTANTS
    StartSeconds,   \* times of day at which the device is switched on
    Century,        \* what the century's register holds then
    TestDays,       \* bound: days on which the device is switched on
    LastDay,        \* bound of the walk through the days
    MaxTicks,       \* bound: seconds that pass while the clock is accessed
    TestTicks,      \* bound: those that pass during one test
    MaxFailures     \* bound: failed accesses and resets

ASSUME RtcAssumption ==
    /\ StartSeconds \cup TestDays \cup {Century, LastDay, MaxTicks, TestTicks, MaxFailures} \subseteq Nat
    /\ \A start \in StartSeconds : start < 86400
    /\ Century < 256 /\ LastDay \in TestDays /\ LastDay < 36524
    /\ MaxTicks <= 1200 /\ TestTicks < 60

VARIABLES
    day, second,        \* the true time
    started,            \* clock_started
    clockTested,        \* tested
    rtcError,           \* error RTC_ERROR
    phase, at,          \* the part of the test, and the register it has reached
    dump,               \* dumpDate and dumpTime
    got,                \* checkDate and checkTime
    passed, began,      \* seconds that passed during accesses, in all and when dumpMs was taken
    failures,
    torn,               \* history: more than the second changed during a dump or a start
    spoilt              \* history: a test ended between its first write and its last check

trueVars == <<day, second>>
flagVars == <<started, clockTested, rtcError>>
dataVars == <<dump, got, began>>
pastVars == <<failures, torn, spoilt>>
rtcVars == <<chipVars, trueVars, flagVars, phase, at, dataVars, passed, pastVars>>

Idle == phase = "idle"
Writing == phase \in {"save", "check", "restore", "recheck"}

TestDate == [Blank EXCEPT !["year"] = 24, !["month"] = 4, !["date"] = 28, !["hour"] = 13, !["min"] = 37]

\* The dump and the whole seconds that getMillis() counted, as a date of two
\* digits for the year
DumpDay == DaysOf(Date(dump["year"], dump["month"], dump["date"]))
DumpSecond == (dump["hour"] * 60 + dump["min"]) * 60 + dump["sec"]
RestoredSameDay(elapsed) == Clockface(DateOf(DumpDay), (DumpSecond + elapsed) % 86400)
Restored(elapsed) ==
    Clockface(DateOf(DumpDay + (DumpSecond + elapsed) \div 86400), (DumpSecond + elapsed) % 86400)

Elapsed == {passed - began, passed - began - 1} \cap Nat

-----------------------------------------------------------------------------

Go(next) == phase' = next /\ at' = 1
AdvanceLate(next) == IF at <= Len(Fields) THEN at' = at + 1 /\ UNCHANGED phase ELSE Go(next)
Advance(next) == IF at < Len(Fields) THEN at' = at + 1 /\ UNCHANGED phase ELSE Go(next)

\* Leaves the test, from do_error or a reset
Leave ==
    /\ Go("idle")
    /\ spoilt' = (spoilt \/ Writing)
    /\ dump' = Blank /\ got' = Blank /\ began' = 0

\* goto do_error
DoError == Leave /\ rtcError' = TRUE /\ UNCHANGED <<started, clockTested, torn>>

SwitchedOn == day \in TestDays \/ passed > 0 \/ failures > 0

\* clock_begin reads the second's register and writes it back without the halt
\* bit; a failure is an error once the 15 s timer has run out.  The run that
\* started the clock goes on: it loads the record, which takes its time, and
\* tests.  dumpMs is as old as the run.
BeginRead ==
    /\ Idle /\ ~started /\ SwitchedOn
    /\ Go("begin") /\ got' = [got EXCEPT !["sec"] = Got("sec")] /\ began' = passed
    /\ UNCHANGED <<chipVars, trueVars, flagVars, dump, passed, pastVars>>

BeginWrite ==
    /\ phase = "begin"
    /\ regs' = Put("sec", got["sec"])
    /\ Go("dump") /\ started' = TRUE /\ clockTested' = FALSE /\ got' = Blank
    /\ UNCHANGED <<build, trueVars, rtcError, dump, began, passed, pastVars>>

\* A later run tests a clock that was not tested or has an error.
StartsUntested == ~clockTested
Starts == ~clockTested \/ rtcError
StartTest ==
    /\ Idle /\ started /\ Starts
    /\ Go("dump") /\ clockTested' = FALSE /\ began' = passed
    /\ UNCHANGED <<chipVars, trueVars, started, rtcError, dump, got, passed, pastVars>>

\* A run that sees RTC_READY come, once the application has signed the clock's
\* RAM, forgets that it has tested; here that may happen any number of times.
ReadyComes ==
    /\ Idle /\ started
    /\ clockTested' = FALSE
    /\ UNCHANGED <<chipVars, trueVars, started, rtcError, phase, at, dataVars, passed, pastVars>>

NothingToTest == Idle /\ started /\ ~Starts /\ UNCHANGED rtcVars

Dump ==
    /\ phase = "dump"
    /\ dump' = [dump EXCEPT ![Fields[at]] = Got(Fields[at])]
    /\ Advance("save")
    /\ UNCHANGED <<chipVars, trueVars, flagVars, got, began, passed, pastVars>>

\* The test date, and later the dump: no date of zeros, which save_clock_date
\* would refuse
Write(what) ==
    /\ regs' = Put(Fields[at], what[Fields[at]])
    /\ UNCHANGED <<build, trueVars, flagVars, dataVars, passed, pastVars>>
Save    == phase = "save" /\ Write(TestDate) /\ Advance("check")
Restore == phase = "restore" /\ Write(dump) /\ Advance("recheck")

\* The date is compared when it has been read, then the time.
Now == [got EXCEPT ![Fields[at]] = Got(Fields[at])]
Differs(what) ==
    /\ at \in {Len(DateFields), Len(Fields)}
    /\ \E i \in 1 .. at : Now[Fields[i]] # what[Fields[i]]

Check ==
    /\ phase = "check" /\ ~Differs(TestDate)
    /\ got' = Now /\ Advance("restore")
    /\ \E elapsed \in Elapsed : dump' = IF at = Len(Fields) THEN Restored(elapsed) ELSE dump
    /\ UNCHANGED <<chipVars, trueVars, flagVars, began, passed, pastVars>>

\* The dates and times whose conversions are tested then, with their days and
\* seconds of the day
Table ==
    {<<Date(0, 1, 1), 0, 0>>, <<Date(0, 1, 2), 1, 0>>, <<Date(24, 4, 27), 8883, 12289>>,
     <<Date(24, 4, 28), 8884, 15264>>, <<Date(24, 4, 29), 8885, 12421>>, <<Date(24, 4, 30), 8886, 82900>>,
     <<Date(24, 5, 1), 8887, 10900>>, <<Date(24, 5, 2), 8888, 15972>>, <<Date(24, 5, 3), 8889, 13955>>}
TablePasses == \A row \in Table : DateOf(row[2]) = row[1] /\ DaysOf(row[1]) = row[2]

\* The last comparison and the table pass the clock; what is left is the test of
\* its RAM.
Recheck ==
    /\ phase = "recheck" /\ ~Differs(dump) /\ (at = Len(Fields) => TablePasses)
    /\ got' = Now /\ Advance("ram")
    /\ clockTested' = (at = Len(Fields)) /\ rtcError' = (rtcError /\ at < Len(Fields))
    /\ UNCHANGED <<chipVars, trueVars, started, dump, began, passed, pastVars>>

Mismatch ==
    /\ \/ phase = "check" /\ Differs(TestDate)
       \/ phase = "recheck" /\ (Differs(dump) \/ (at = Len(Fields) /\ ~TablePasses))
    /\ DoError
    /\ UNCHANGED <<chipVars, trueVars, passed, failures>>

TestRam ==
    /\ phase = "ram"
    /\ Leave
    /\ UNCHANGED <<chipVars, trueVars, flagVars, passed, failures, torn>>

Watchdog == BeginRead \/ BeginWrite \/ StartTest \/ NothingToTest \/ Dump \/ Save \/ Restore \/ Check \/ Recheck
              \/ Mismatch \/ TestRam

-----------------------------------------------------------------------------
(* The environment                                                         *)

Fails == failures < MaxFailures /\ failures' = failures + 1

\* An access of the I2C bus fails, at the start one of the second's register or
\* one of those that follow; the DS1302's start fails when its charger's
\* register does not read back as written.  The next run starts it again.
BeginFails ==
    /\ Fails
    /\ \/ build = "DS1307" /\ (phase = "begin" \/ (Idle /\ ~started /\ SwitchedOn)) /\ UNCHANGED regs
       \/ phase = "begin" /\ regs' = Put("sec", got["sec"])
    /\ Leave /\ rtcError' \in {rtcError, TRUE}
    /\ UNCHANGED <<build, trueVars, started, clockTested, passed, torn>>

AccessFails ==
    /\ build = "DS1307" /\ Fails
    /\ phase \notin {"idle", "begin"}
    /\ DoError
    /\ UNCHANGED <<chipVars, trueVars, passed>>

Reset ==
    /\ Fails /\ started
    /\ Leave /\ started' = FALSE /\ clockTested' = FALSE /\ rtcError' = FALSE
    /\ UNCHANGED <<chipVars, trueVars, passed, torn>>

\* A second passes between two accesses.  Each transfer gives up after 100 ms,
\* so that a run is over before a minute is.
Tick ==
    /\ ~Idle /\ passed < MaxTicks /\ passed' = passed + 1
    /\ passed < began + TestTicks
    /\ regs' = Ticked
    /\ second' = (second + 1) % 86400 /\ day' = day + (second + 1) \div 86400
    /\ torn' = (torn \/ (Decode(regs.sec) = 59 /\ (phase = "begin" \/ (phase = "dump" /\ at > 1))))
    /\ UNCHANGED <<build, flagVars, phase, at, dataVars, failures, spoilt>>

\* The clock runs through the days before the device is switched on.
DayPasses ==
    /\ Idle /\ ~started /\ failures = 0 /\ passed = 0 /\ day < LastDay
    /\ day' = day + 1 /\ regs' = Registers(NextDate(ChipDate), ChipSecond, regs.cent)
    /\ UNCHANGED <<build, second, flagVars, phase, at, dataVars, passed, pastVars>>

RtcInit ==
    /\ build \in Builds
    /\ day = 0 /\ second \in StartSeconds
    /\ regs = Registers(Date(0, 1, 1), second, Century)
    /\ started = FALSE /\ clockTested = FALSE /\ rtcError = FALSE
    /\ phase = "idle" /\ at = 1
    /\ dump = Blank /\ got = Blank /\ began = 0
    /\ passed = 0 /\ failures = 0 /\ torn = FALSE /\ spoilt = FALSE

RtcNext == Watchdog \/ ReadyComes \/ BeginFails \/ AccessFails \/ Reset \/ Tick \/ DayPasses

RtcSpec == RtcInit /\ [][RtcNext]_rtcVars

\* The watchdog is a job of the scheduler.
FairRtcSpec == RtcSpec /\ WF_rtcVars(Watchdog)

-----------------------------------------------------------------------------
(* Properties                                                              *)

Values == [DOMAIN Blank -> 0 .. 255]

RtcTypeOK ==
    /\ build \in Builds /\ regs \in Values
    /\ day \in Nat /\ second \in Nat /\ second < 86400
    /\ started \in BOOLEAN /\ clockTested \in BOOLEAN /\ rtcError \in BOOLEAN
    /\ phase \in {"idle", "begin", "dump", "save", "check", "restore", "recheck", "ram"}
    /\ at \in 1 .. Len(Fields)
    /\ dump \in Values /\ got \in Values
    /\ passed \in 0 .. MaxTicks /\ began \in 0 .. passed /\ failures \in 0 .. MaxFailures
    /\ torn \in BOOLEAN /\ spoilt \in BOOLEAN

\* The two conversions of clock.c agree with a calendar that goes from day to
\* day, and with each other on every date the tests leave, over the century
\* that two digits can tell.
DatesAgree ==
    /\ Idle /\ ~spoilt => DateOf(DaysOf(ChipDate)) = ChipDate
    /\ ~started /\ failures = 0 /\ passed = 0 =>
          /\ DaysOf(ChipDate) = day
          /\ WeekDayOf(day) = (day + 6) % 7

\* The seconds by which the chip is ahead of the true time, of the same day
\* or one beside it
Ahead == (DaysOf(ChipDate) - day) * 86400 + ChipSecond - second

\* Self tests cost the clock at most the seconds that passed during them, and
\* never a date or an hour, unless one was given up between its first write
\* and its last check or a minute ended while the clock was read
\* (g_rtc.cpp:187-293).  A second that passes between the write of the test's
\* second and its check gives a test up, and is excused.  The year has two
\* digits: a test that passes leaves the DS1307's century 0.
TestsKeepTime ==
    Idle /\ ~torn /\ ~spoilt =>
        /\ DaysOf(ChipDate) - day \in -1 .. 1
        /\ Ahead \in -passed .. passed

\* An error of the clock is withdrawn once its accesses succeed again.
ErrorWithdrawn == rtcError ~> ~rtcError

\* No self test costs the clock its date, whatever becomes of it; the chip is
\* left with the test date.
TestsNeverCostTheDate == Idle => DaysOf(ChipDate) - day \in -1 .. 1

\* save_clock_date gives the internal clock the weekday of the date it saves.
WeekDaySaved == SavedWeekDay = WeekDayOf(day)
=============================================================================
