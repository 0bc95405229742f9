# GSystem in TLA+

GSystem is a C/C++ framework for STM32 devices: a cooperative scheduler runs
"autoguard" watchdogs and the application's tasks, a status/error bit set
("soul") connects them, settings are kept twice in external flash, and an error
handler resets a device that cannot go on. This directory models the parts whose
correctness depends on the *order* of things - resets in the middle of a save,
flash pages between an erase and the write that puts them back, watchdogs that
run at the wrong moment, timers racing flags - checks the models with TLC on
small instances and proves the main properties with TLAPS. Paths below are
relative to the repository's library directory, `src/`.

## 1. Inventory

| part | state it keeps | operations | interacts with | model |
|---|---|---|---|---|
| settings image, `device_settings/g_settings.c` | one RAM image: header, `settings_t`, CRC16 | check, repair, before_save | application callbacks `settings_check/repair/reset` | `SettingsImage` |
| settings storage, `device_settings/SettingsDB.cpp` | two flash records "STG" 1 and 2, `needResave*` | load, save | StorageAT (not in the repository) | `SettingsDB` |
| settings updater, `device_settings/g_settings_updater.cpp` | `stng_fsm` state and event, `old_hash`, `saveTimer` | `settings_update()` once per tick | statuses of the soul | `SettingsUpdater` |
| soul, `soul.c` | bits of errors and statuses, last error | set, reset, is, first error | everything | in `ErrorRecovery` |
| system core, `gsystem.c` | handler-called flag, hardware timers | boot, readiness, error handler, reset, reanimation | scheduler, clock backup RAM | `ErrorRecovery` |
| scheduler, `autoguard/g_proc.cpp` | job tables, load statistics, error timer | tick, error_check, scaling | all jobs; re-entered from the error loop | `Scheduler`, `JobScaling` |
| RTC watchdog, `autoguard/g_rtc.cpp` | loaded/tested flags, timer, byte 0 of the clock's RAM | load record, self test | clock, soul | `ErrorRecovery`, `RtcTest` |
| clock, `clock/clock.c`, DS130x driver | `clock_started`, the chip's registers | conversions, date and time, backup RAM | RTC watchdog | `Clock`, `RtcTest` |
| memory watchdog, `autoguard/g_rom.cpp` | error counter, timer | initialise and test the memory | storage driver | `MemoryWatchdog` |
| storage driver, `StorageDriver/StorageDriver.cpp` | read buffer, error timer | read, write, erase | flash drivers | `StorageDriver` |
| W25Q driver, `w25qxx.c` | ready flag, sector buffer | write, erase of addresses and of the chip | SPI | `FlashW25Q` |
| W25Q DMA driver, `w25qxx_dma.c` | stack of routes, eight state machines, buffer | read, write, erase, callbacks | SPI interrupts | `FlashDma` |
| button, `button/button.c` | debounce, click and hold timers | tick, queries | application | `Button` |
| HAL, `drivers/hal/g_hal.c` | hardware timers | microsecond clock, timer set-up | all | `MicroClock` |
| power, ADC, RAM, system tick watchdogs | averages, fault flag | one check per job run | system core | in `ErrorRecovery` |
| AT24CM01 driver, `at24cm01.c` | - | read, write | I2C | in `StorageDriver` |
| nRF52 support, file system interface | - | - | - | see 6 |

Hard behaviours: a reset or power loss between any two flash operations; the
scheduler that is ticked from inside the error handler, so that watchdogs see
(and change) what the handler does; flags shared by interrupts and the main
loop; one state machine and one buffer that serve nested requests; chips that
run on while their registers are read one by one; samples taken once a second of
conditions that change faster. What each part has to get right is listed as the
hazards of `PROJECT.json`, at the lines where they bite.

How the modules hang together:

    FlashChip <- FlashStore <= FlashW25Q        SettingsImage <- SettingsDB <- SettingsUpdater
        ^------- FlashDma                       StorageDriver <- MemoryWatchdog
    Clock <- RtcTest                            Scheduler, JobScaling, ErrorRecovery, Button, MicroClock

`<-` is EXTENDS, `<=` is "is implemented by". Where two components meet and one
is only needed for its promise, the promise is modelled: `StorageDriver` takes
from the flash what `FlashStore` promises, `ErrorRecovery` and `SettingsUpdater`
take from the scheduler that their jobs run again and again (`JobsKeepRunning`),
`Scheduler` takes from `JobScaling` that a delay is a multiple of its period.
Each component's proofs are in `<module>Proofs`, but for those of `JobScaling` and
`MicroClock`, which are together in `JobTimeProofs` (what jobs use and what it
costs them), those of `Clock`, `RtcTest` and `ErrorRecovery`, which are in
`RtcRecoveryProofs` (the RTC watchdog's self test and the record it recovers), and
those of `SettingsImage`, which are in `SettingsUpdaterProofs`.
`MC<...>` holds the definitions of an instance, the `.cfg` of the run its
constants.

| run | instance of | shows |
|---|---|---|
| `settings_crash` | `SettingsUpdater` | resets and failed rewrites anywhere in a save |
| `settings_update` (violated) | `SettingsUpdater` | migration in `settings_repair` is lost |
| `recovery_run` | `ErrorRecovery` | errors, faults, resets in every order |
| `scheduler_ticks` | `Scheduler` | nested main ticks against interrupt ticks |
| `scaling_delays` | `JobScaling` | any loads, the scaling of delays |
| `flash_store` | `FlashW25Q` | failures and power loss; implements `FlashStore` |
| `dma_faults` | `FlashDma` | nested routes with a failed or late transfer |
| `dma_erase` (violated) | `FlashDma` | the second sector of an erase |
| `storage_watchdog` | `MemoryWatchdog` | storage driver and memory watchdog together |
| `rtc_test` | `RtcTest` | conversions, and the clock's self test cut anywhere |
| `button_clicks` | `Button` | a bouncing pin, a polling application |
| `micros_read` | `MicroClock` | a timer that overflows while it is read |

## 2. Modules

### 2.1 Settings

`ram` is `device_settings_storage`, abstracted to version, value and "the content
the CRC was computed over"; `flash[1..2]` are the two records. `st`/`ev` are the
state machine and its queued event, `pc` is the place inside `SettingsDB::save`,
which is the only operation a reset can split observably: `WriteFirst`,
`WriteSecond`, `Verify` are its three storage operations, `WriteFails` the
failure of one, `Crash` a reset anywhere. A rewrite that is cut short leaves the
old record, the new one or a torn one. Before each rewrite `save()` searches for
the copy's own record, then for an empty place, then for the next record of any
name; the one way out in which these searches differ for the caller is that there
is no address (`NoAddress`), and the save is given up between or before the
rewrites. `Dispatch` and the four `Stng*` actions
are one `settings_update()` call each. `ErrorCheck` is the scheduler's check as
far as it concerns this part: it sets `SYSTEM_SOFTWARE_READY`, whatever the
updater wants. Three history variables serve the properties: `accepted` (the
values the application may take for stored), `hurt` (the interrupted rewrites
since both copies were last written) and `calm` (since the last boot, edits and
requests came only while the updater idled with no event queued, and no rewrite
failed or found no address). The application requests a save or a load, or stops
them, by the statuses of the soul; nothing in the repository guards that, so
`UserRequest` may come at any time, also before the settings are initialized. StorageAT is not part of the repository: records, `find`, `load` and
`rewrite` are modelled from how `SettingsDB.cpp` uses them.

Bounds. Values are 0..4: 0 is the factory zero image (rejected by the check), 1 the
default, 2 and 3 edits, 4 an edit that differs from 3 only in the part the change
hash does not cover; two versions; at most 3 edits or requests, 2 resets, 1
failed rewrite. Two resets are the least that can destroy both copies, and three
edits are enough for old, new and newer values to coexist.

* `settings_crash`: one interrupted rewrite never costs both copies
  (`OneInterruptionKeepsACopy`), and what they bring back is a value that was
  accepted, not an older one (`BootRestoresAccepted`). In a calm behaviour, ready
  and unchanged means stored (`ReadyMeansStored`); without `calm` this is false:
  an edit between `_stng_load_s` and the dispatch of its event is absorbed into the
  hash, and after a second rewrite that failed the old hash is kept although the
  first copy has the new settings, so that an edit back to the old ones looks
  stored. The updater always comes to rest again, with the software
  reported ready, unless the application stopped it or both copies are lost
  (`SettlesAgain`): in that last case `_stng_load_s` has no exit and the updater
  stays in it for ever.
* `settings_update` (violated): see 4.

Fairness: the main loop ticks the scheduler for ever and the updater's job is
always enabled (`WF(Tick)`, `WF(Save)`), the flash watchdog finds the memory, and
the save timer expires. Nothing makes the application act or the device reset.

### 2.2 Error recovery

`pc` says where the processor is: boot, run, the handler's loop, sleep after a
power error, hung. `errors` is the set of error bits; the codes are numbered in
the order of `SOUL_STATUS`, which is the order `get_first_error` uses. `record`
is byte 0 of the clock's RAM, the only state that survives a reset. The jobs of
the scheduler (`ErrorCheck`, `SysTickReanimation`, `RtcNotStarted`,
`RtcWatchdog`) are enabled in the error loop as well, because the loop ticks the
scheduler. `Handler` is one call of `system_error_handler` up to its loop. A
glitch is an access to the clock chip that fails; a power cycle may cut the RTC
self test short and leave its test word. A hard fault in the error loop has both
outcomes the build can produce, a hang and a reset, for the handler returns to a
naked function.

`recovery_run`: six codes (the ones the code distinguishes and one ordinary
error), at most 3 application changes, 1 glitch, 2 faults. `get_last_error()`
names only codes that a handler reported (`LastErrorGenuine`), and with a system
timeout set a device does not stay unready for ever, neither in its run nor in the
error loop: again and again it is ready or it boots (`UnreadyEndsInReset`). Two
devices do neither and wait for a power cycle, which the property names: one put
to sleep for a power error (`gsystem.c:401-407`), which no code wakes, and one that
hangs in a hard fault that struck inside the error loop. (With debugging output a
power error reboots instead of sleeping; that build is not modelled.) Fairness: boot ends, the job of `error_check` runs, the error and reset timers
expire.

### 2.3 Scheduler

`jobs` is the table in the order of registration. The main program is a stack of
ticks, `ticks`, because the error handler calls `system_tick` from inside the job
that failed: each frame is a place in the scan (`at`), the length of the table
when the tick began (`len`) and what it is doing. `TickReadsIndex` and
`TickResetsIndex` are the test and the reset of `isr_job_idx`, which belongs to
the interrupt but is reset by main ticks too; `TickSkipsJob`, `JobStarts`,
`JobEnds` and `TickEnds` are the loop. `IsrTick` is one whole tick of the
interrupt: the main program does not run during it. Time is counted per job, as
the milliseconds since its last end (`idle`), and stops at the longest delay the
job can have, beyond which it makes no difference. `Scales` gives a job any
multiple of its period up to `Stretch` as its delay; the arithmetic that
chooses it is `JobScaling`'s. A fault of the processor shows as `mcuError`
(`NmiStrikes`), which the clock's watchdog clears again while it also enables the
interrupts (`ClockReanimated`). `missed` and `since` are history variables.

`scheduler_ticks`: two jobs of the system, one task and two interrupt jobs - two
are the least that compete for the interrupt's index - and a table of 4, so that
it fills up while registration makes it grow under a tick in progress. Jobs of
the system and of the application fail and the error loop ticks the scheduler.
`IsrJobServedSoon`: a due job in the interrupt waits at most as many interrupt
ticks as the table has jobs; with `StatusPrint` (a tick then serves one job, and
the main program may throw the index back once) twice as many, which the theorem
covers as well. `JobsKeepRunning`: every main job that no error keeps out runs
again and again, unless the device resets for ever. Fairness: the main program
goes on and jobs return (`WF(Main)`: the scheduler is cooperative, a job that
never returns stops the device until its hardware watchdog resets it) and time
passes. The interrupt, faults, registration and the end of the error loop are not
fair: no property relies on them.

`JobScaling` has one action per writer: `Recompute` is `recompute_scaling`,
`Measured` the end of a second in `Job::exec`, with any share of it used by the
job, `Idles` is `updateCount`. Products and quotients are those of the code,
`% Word` where a `uint32_t` is computed or assigned. `scaling_delays` uses smaller
units (a second is 10, 100 % is 100, the cap 120) so that every load, scale and
delay occurs, and a `Word` of 4096, so that the product of a delay wraps: a task
with a period of 15 reaches 4800 when both scales are at the cap. As long as its
product fits the word (`Fits`), no delay shrinks at the default priority or above
(`NeverSooner`), and above the target load every job that may be slowed is,
whatever its own load (`OverloadSlows`); loads within their limits bring every
delay back (`LetsGo`), also after a wrap. With the constants of the code `Fits`
holds for a job of 500 ms up to a load of 33 %, for one of 5 s up to 5 %, see 4.7.
The quotients that become scales are cut to a word as well: that of a job's own
load (`g_proc.cpp:431`) when one launch takes more than 14 s, that of the total
(`:461`) above 50 000 %, which `TotalFits` excludes; the run reaches neither. A task and a
job that is not scaled take loads below, between and above both limits. Fairness: `recompute_scaling` is
a job that runs again and again.

### 2.4 Flash, synchronous driver

`FlashChip` is the memory both W25Q drivers work on: a sector erase turns every
byte into 0xFF, a program can only clear bits, so that a byte programmed over a
different one is `Garbage`. `FlashStore` is the abstract specification, what a
caller may rely on: a call aims at pages and names what they may hold at the end;
while it runs, the pages *at risk* - one page it aims at, or one sector with such
a page - may hold anything; pages leave the risk only settled, that is
neighbours as they were and aimed pages as they were, blank or as wanted; success
means that everything is settled and as wanted; a failure or a power loss leaves
the pages at risk as they are and touches nothing else.

`FlashW25Q` is the code: one action per SPI transaction that reads or changes the
chip. `Compare` is the comparison at the start of `w25qxx_write`, `Scan` its loop
that gathers the pages to erase, `Program` and `Check` its writing loop; `Load`,
`Erase`, `Restore`, `CheckRestore`, `Restored` are one sector of
`w25qxx_erase_addresses`. Every transaction may fail. The result of a page
program is that of the protection commands sent after it, so a program that was
cut short may report success (`SpiProgram`): only the read back tells. A power
loss may come between any two transactions and inside one that changes the chip
(`CutMemories`), where it leaves a prefix of the program and perhaps a spoilt
byte, or a sector with pages old, blank or spoilt.

Taken from the callers, and not checked by the driver: that address and length do
not wrap 32 bits together (`w25qxx.c:333`, `814`, `966` would let them pass), and
that a list to erase holds addresses of pages inside the chip, each once, those of
a sector side by side (`w25qxx.c:530-611`). `FLASH_BUSY` stands as `FLASH_ERROR`, which
no caller tells apart from it. The chip takes each command on its own: that
the commands which unprotect it go out in one frame of the chip select
(`w25qxx.c:1230-1261`), which a real W25Q would not execute, is outside the model.

`flash_store`: two sectors of two pages of two bytes, two calls; writes of less
than a page, of a page and a byte, across the sectors' border, with holes of
0xFF; the chip full, or blank but for one half written page. Two sectors and an
odd end are what the grouping of the pages can get wrong, and a second call is
what a first one that failed can mislead. `KeepsPromise` is the refinement
`FlashW25Q => FlashStore` under the mapping `Aim`, `Risk`, `Told`; `NeverSpoils`
says that no byte is programmed over a different one while the power holds, also
after failed calls; `CallsReturn` that every call ends. Fairness: a running call
goes on (`WF(Step)`); its loops are bounded and its waits have timeouts.

### 2.5 Flash, interrupt driven driver

`FlashDma`. A request is a route on a stack of 10; a route that needs another one
first pushes it. Each of the eight kinds has one state machine shared by all its
routes: a WRITE that erases waits in the machine that the WRITEs of its
neighbours use meanwhile, with one buffer. `Tick` is one call of `w24qxx_tick()`,
in which one `fsm_gc_process` dispatches the queued event of the highest priority
or runs the handler of the state; an event for which the state has no row is
dropped. `DmaDone` is the interrupt at the end of a transfer, when a command takes
effect; a late or failed transfer may have been cut, after any byte of its data. `ChipReady` is the end of an
erase or a program in the chip. `fsm_gc`, the queue and the HAL are not in the
repository and modelled from their use.

This driver is work in progress at this commit. `gconfig.example.h:150` calls it
"the driver not woking yet" and `:155` lists it to be fixed; `w25qxx_dma.c:404` and
`:439` do not compile as written (a member of an enumeration) and are modelled as
the third callback is written, which does; and the chip is selected once for the
two commands of an unblocking and of a protection (`w25qxx_dma.c:883-909`,
`1115-1141`), which a real W25Q would not execute as two. What the model checks is the
logic of the machines, for a chip that takes every command on its own.

`DmaAssumption` says which requests the
callers make. The driver refuses data behind the end of the chip or longer than
its buffer (`w25qxx_dma.c:216`, `:261`, `:275`); it does not refuse a length of zero
nor an address to erase outside the chip. It takes data of any length, of which
the last page is programmed and compared as far as it goes
(`w25qxx_dma.c:1465-1473`); the model's data is whole pages. A request may also come
after a failure, while `w25qxx_fsm` initializes the chip again (`Ready`). The runs take lists of an erase in ascending
order; nothing that is proved depends on the order.

* `dma_faults`: two sectors of three pages of two bytes, one retry
  (`Attempts = 1`), at most one transfer that is refused or fails, one that
  outlives its timer, two requests. Three pages give an erased page two
  neighbours, so that the loop over them goes round; a page of two bytes can be left
  half programmed by a transfer that was cut. `FLASH_OK` never hides a lost neighbour while
  no transfer outlives its timer (`OkKeepsNeighbours`), is true when nothing
  fails (`FaultFreeOkIsTrue`), and every request gets its event (`Answered`). The
  type invariant includes that the nesting never comes near the 10 slots.
* `dma_erase` (violated): see 4.

Fairness: the main loop calls the tick, transfers end or time out, the chip gets
ready.

### 2.6 Storage driver and memory watchdog

`StorageDriver` has the read buffer, the error timer and the statuses; the memory
below it does what `FlashStore` promises. On the EEPROM build a write is one
transfer, which the chip wraps inside the page it starts in and reports as good
(`Covered`; `at24cm01.c:122`). `MemoryWatchdog` extends it by the job
that tests a memory reported as failing, so that both change the same statuses.
The watchdog writes one byte at a random address, which `w25qxx_write` refuses
unless it is the first of a page: on a flash most tests of a healthy memory fail,
and `MEMORY_ERROR` can be earned by nothing but bad luck. An erase never drops
the buffered page (`StorageDriver.cpp:305`), a write only when it starts there;
`doubt` records the cases in which the buffer may be stale, and `ReadsStored`
excuses them: what it covers is the page that a write drops, also when it fails.
A failed write leaves what the flash's driver can leave: one sector spoilt, and of
the other pages some as wanted, some erased and some as they were (`Failed`).
`EraseChip` is `w25qxx_erase_chip`, which an application calls beside the storage
driver and which clears `w25q.initialized` (`w25qxx.c:289`): every access fails until
the watchdog's test initializes the driver again (`g_rom.cpp:158-160`, `Ready`).
`POWER_ERROR`, which refuses calls just like `MEMORY_ERROR`, is left out.

`storage_watchdog`: one sector of two pages, both builds, the limit of 5 failures
as in the code and a counter of 8 values instead of 256, so that it wraps. The
buffer holds what the memory holds but for `doubt` (`ReadsStored`);
`MEMORY_ERROR` needs three failed tests in a row, although one test may count
twice (`MemoryErrorEarned`); a fault is cleared or ends in the error handler, even
when the counter wraps back (`FaultAnswered`), or the flash does not answer the
initialization of a test, which clears `MEMORY_INITIALIZED`: from then on the job
returns before it tests or judges (`g_rom.cpp:109-121`), until the flash answers, so
that a flash that never does never reaches the handler. Fairness: the watchdog's job runs,
also in the error state, and its timer expires.

### 2.7 Clock and its self test

`Clock` has the conversions between dates and days - the summation of one
(`DaysBefore`), the loop of the other (`TakeDays`), both as recursive functions -
and the chip's registers, BCD, with the halt bit written by read-modify-write.
`RtcTest` is the self test: `Watchdog` steps through the registers one by one, and
before each the chip's second may pass, the access may fail (DS1307, over I2C) or
the device may be reset. Both builds, DS1302 and DS1307, are checked. Names that
`ErrorRecovery` uses as well have the prefix `Rtc`; its `tested`, the same flag of
`g_rtc.cpp`, is `clockTested` here.

A start (`BeginRead`, `BeginWrite`) belongs to the run that tests, and the time that
is added to the dump counts from the beginning of the run (`dumpMs`,
`g_rtc.cpp:41`), which `began` is. A start fails when an access does or, on the
DS1302, when the trickle charger's register does not read back as written
(`ds130x.c:78-81`, `121-146`). A run that sees `RTC_READY` come forgets that it has
tested (`g_rtc.cpp:169-176`, `ReadyComes`). `TablePasses` is the table of dates at the
end of the test (`g_rtc.cpp:296-320`); its weekdays are compared only on builds
without a DS130x, see 4.10, and are left out. The date of zeros that `save_clock_date` refuses
(`clock.c:248-251`) is never written by a test.

Two bounds are assumptions: fewer than 60 seconds pass during one test
(`TestTicks`; some 50 accesses of one or two transfers, each given up after 100 ms),
so that a register of seconds tells how many did, and at most 1200 during all
accesses (`MaxTicks`), so that a clock which gained a minute whenever a start or a
dump was torn is still in the century.

`rtc_test`: `DatesAgree` compares both conversions with a calendar that walks from
day to day through the whole century, 2000 to 2099 (36524 days). Self tests start
at 23:59:58 and at 11:06:40, on days before the ends of a February, a year and
the century, with at most 2 seconds that pass and 1 failure: the first lets every
carry occur, up to the century. `TestsKeepTime`: a test costs at most the seconds
that passed during it, unless it was given up between its first write and its
last check (`spoilt`) or a minute ended while the registers were read (`torn`). A
second that passes between the writing of the test's second and its check makes
the test give up, which `spoilt` excuses as well. Dates are compared with two digits
of the year: the DS1307's century register, which a passed test leaves 0, is not
part of `ChipDate`.
`ErrorWithdrawn`: the error goes away once accesses succeed. Fairness: the
watchdog is a job of the scheduler.

### 2.8 Button

`Button` counts time in units; only the order of the delays (60, 400, 1000 and
3000 ms) matters. The pin may change at any moment; `Tick` is `button_tick`, one
action per branch, at most `MaxLag` after the last one (the job runs every 5 ms;
`MaxLag < ClicksDelay` is an assumption - a longer stall does withhold a click);
`HeldMs` and `ButtonReset` are the application's calls. `button_held_ms` resets the
hold timer of a button that is not seen pressed, which `polled` records.

`button_clicks`: delays 2, 4, 6, 9 and a lag of up to 3 (more than the debounce
delay), 3 clicks. No click without a release of its own, none withheld, every
lasting level noticed, no hold before its time unless the application polled, and
a button left alone forgets (`Forgotten`). Fairness: the tick runs, time goes on.

### 2.9 Microsecond clock

`MicroClock`: the factors of prescaler and period, and `g_get_micros`, which reads
`sys_time_ms`, the counter and the interrupt's flag one after the other while the
timer runs. The interrupt is served within half a period, the reading with masked
interrupts is shorter (`MaxSlip`); `ReadingAssumption` asks of the frequencies
above 65.536 MHz that their period leaves room for both. Its definitions carry the
prefix `Micro`, so that `JobTimeProofs` can extend `JobScaling` as well.

`micros_read`: a millisecond of 4 microseconds, registers of 16 values, eight
frequencies - three that take the branch below 65.536 MHz, one without factors
(the clock never starts; hence no check for deadlock), four with different
factors - and a `sys_time_ms` of 3 values, so that it wraps. `MicrosTrue`: above
65.536 MHz every answer is the time at which the counter was read.

## 3. Proofs

All theorems hold for every value of the constants that satisfies the `ASSUME`s.

* `FlashW25QProofs`: `FlashImplementsStore` - the driver implements `FlashStore`,
  for every size of the chip, every write and every list of pages -,
  `FlashNeverSpoils` and `FlashTypeOK`. The invariant `IndInv` says of every page
  that it is `Good`: as `FlashStore` allows outside the risk (`Fine`), not spoilt
  since the call began (`Clean`), blank when the erase has come past it, and
  programmable with the write's data when it is one the write has yet to program
  (`Open`). While a sector is rewritten the page in the buffer is good instead of
  the one on the chip: `BufferOK` before the erase, `RestoreOK` after it, where
  every page is blank, back, or the one being put back. `ProgramOK` adds that the
  page being programmed keeps, or lost to the erase, what the data does not cover
  (`TailKept`), and that the pages before it are as wanted. Without `Open` for the
  pages still to come the step from erasing to programming cannot be shown not to
  spoil, and without `Fine` in the buffer the sector's pages cannot be shown to
  leave the risk settled. The refinement then maps each action by one of five
  lemmas, for steps that begin a call, move the risk, change pages at risk,
  succeed, or fail.
* `SettingsUpdaterProofs`. `IndInv` strengthens the type invariant by three facts:
  RAM carries the firmware's header and, once initialised, an acceptable value
  (`RamSound`); while a save is under way RAM checks, and the copies already
  written equal RAM (`SaveSound`); `hurt` bounds how many copies are bad
  (`CopiesSound`). Without `SaveSound` the step from "first copy torn" to "second
  copy written" cannot be shown to leave a good copy. It needs `AppContract`: the
  application writes only settings its own `settings_check` accepts (otherwise
  `_stng_check` repairs the value and saves it under a stale CRC).
  A save that finds no address
  changes no copy, but between the two rewrites it leaves them different, which
  `hurt` counts as an interruption. `BootRestoresAccepted` and `ReadyMeansStored` need in addition that the storage
  answers every read; the latter rests on `StoredSound`, which follows the hash
  from the load through the state machine: in a calm behaviour the hash the
  updater compares with in idle is that of what a boot would bring back.
* `RtcRecoveryProofs`, of `Clock` and `RtcTest`. The conversions first: `DaysBefore`
  is shown to sum up what a table of the months says, and the loop of `TakeDays` to
  go through the starts of the years and then of the months, each by the least year
  or month at which it would not, in place of an induction. Both recursive
  functions have their equations proved, by giving the function they define. Hence
  `DateConversionsAgree`, `DayConversionsAgree`, and that the chip's `NextDate` is
  the day after. Registers are then seen as a face (`Chip`), which `Encode` and
  `Decode` keep, and `RtcInv` says where the time is in each part of a test: on the
  chip (`idle`, `begin`, `dump`, `ram`) or in the dump while the test date is on the
  chip (`save` to `recheck`), and by how much it is off (`Timed`) or, torn by the end
  of a minute, ahead (`Dated`). In the dump it is a face of which some registers
  were read earlier than the others (`Mixed`): when a minute ends, a date and no
  later than the chip's, because the registers are read from the year down
  (`MixedFace`). `Minute` says what a second's register tells: after the test date
  was written it counts the seconds since, and when the dump was put back and reads
  as written, no minute can have ended in between - less than one passes in a test.
  Without it the restored date and time could be of two different minutes.
  `RtcTypeCorrect`, `DatesAlwaysAgree` and `TestsAlwaysKeepTime` follow, for every
  start time, day, failure and reset.
* `RtcRecoveryProofs`, of `ErrorRecovery`. `RecoveryInv` adds that the record in the clock's RAM is
  a reported code, nothing, or the test word, and that `last_err` is none or
  reported. `get_first_error` is a `CHOOSE` of a minimum; that it exists follows
  from the well-foundedness of `<` on the naturals.
* `SchedulerProofs`. `IndInv` says that every tick but the innermost is suspended
  in a call of the error handler and that a tick which is about to touch the index
  still knows the length of the table (`StackOK`), and bounds `missed` of each
  interrupt job by how far the index has come since it passed the job's place, or,
  when it has not yet come there, by what the round before can have left
  (`WaitOK`). The bound depends on whether a main tick stands between testing and
  resetting the index: without that case the reset is a step that breaks it.
  `IsrJobServedSoon` follows for every table, period and capacity.
* `JobTimeProofs`, of `JobScaling`: `NeverSooner` and `OverloadSlows` for every table
  of jobs, period, priority and load. The condition that a product fits its word is
  part of the properties (`Fits`, of one job in one state; `TotalFits`), so that the
  theorems assume nothing of the periods and speak of the code's own default jobs
  wherever their products do not wrap; where they do, see 4.7.
  The total is a fold over the jobs: that it is a number, and more than each load,
  is shown by the least number of jobs for which it would not be (`LeastNumber`),
  which takes the place of an induction.
* `JobTimeProofs`, of `MicroClock`: `MicrosTrue` for every frequency, with the
  products and quotients of the code's factors (`CodeFactors`). `ReadingInv` says
  how the time follows from `sys_time_ms`, the counter and a pending interrupt
  (`TimeKept`), that no interrupt comes between masking and the end of the reading
  (`Masked`), and what each register read so far tells of the time since then
  (`CounterRead`, `ReadingTrue`): the flag read last belongs to the counter read
  before it only because the period is longer than twice the reading.
* `FlashDmaProofs`. `DmaInv` is the control of the driver, whatever fails or is
  late: what can lie on what (`Shape`: each route but the top one waits in the
  state that called the next), who can have queued which event (`OwnEvents`: an
  event that is not the end of a transfer belongs to the machine that runs, which
  has one at a time), in which state a finished machine is left (`DoneState`), and
  that WRITE and ERASE never look behind the end of their data (`WriteOk`,
  `EraseOk`). The depth of five routes and the types follow (`DmaTypeOK`); a late
  end of a transfer goes to any machine, which is why events are told apart by
  their origin. `OkKeepsNeighbours` rests on `CalmInv`, which adds to `DmaInv`, as
  long as no transfer was late: that a route does what the one below has asked for
  (`Links`); that the transfer under way is the one the machine on top waits for
  and the only source of its event, that FREE tells the truth about the chip and
  READ about the buffer (`Timely`: `Sync`, `Quiet`, `FreeTells`, `ReadTells`); and
  where every page the request does not aim at is (`Safe`). `Torn` says it of the
  sector under work: as it was in the buffer, and on the chip what it was, some of
  its bytes blank (`Partly`), up to `idx` as it was. A nested WRITE reads the page it compares into the same
  buffer, but into the slot of the page that ERASE is at, which the request aims
  at: no other page needs it (`LentSlot`). `Doomed` is the one case in which a
  sector stays torn, after a failure, and in which the request cannot end with
  `FLASH_OK`. Every handler is one of three forms of step - the machine stays,
  asks for another route, or leaves - and each form has one lemma per part of the
  invariant.
* `MemoryWatchdogProofs`. `MemoryErrorEarned` from the bound that the counter is
  at most twice the failed tests since the last success, or enough tests failed;
  it holds for every limit and every width of the counter. `ReadsStored` for every
  memory and every set of writes.
* `ButtonProofs`. `ClicksShown`, `PinFollowed`, `HeldMeansLong`,
  `ClicksAreReleases` for all delays in the assumed order: each timer is related to
  the history that its property speaks of, for instance a debounce timer to the
  time since the pin changed.

Only model-checked: all liveness (it needs `ENABLED`, which is out of the prover's
reach); `FaultFreeOkIsTrue`, which would need the content of every page followed
through the five routes, where `OkKeepsNeighbours` only needs where it is; and the
violated runs.

## 4. Where the code and its documentation disagree

With a run whose counterexample shows it:

1. `settings_update` - `gconfig.example.h:211-213` invites migration code in
   `settings_repair()`; its outcome is always rejected by the second check, whose
   CRC is still the old one, and the device falls back on defaults.
2. `dma_erase` - the chip is protected again after each sector of a list and was
   unprotected once (`w25qxx_dma.c:1737`): the pages of a second sector are not
   erased, and the event says `FLASH_OK`. This is what the statements do; the driver
   neither compiles nor frames its commands as a chip wants them yet, see 2.5.

Stated in the modules and refuted by TLC, without a run of their own:

3. `LastErrorReported` - `get_last_error()` is documented as the last recorded
   error after an error reboot (`soul.h:210-216`); the RTC watchdog running in the
   error loop may consume the record before the reset.
4. `TimeoutNeedsErrors` - "has error statuses for longer than `timeout_ms`"
   (`gsystem.h:108-111`) is sampled once a second.
5. `ErrorStateLasts` - with `SYS_TICK_FAULT` the error state does not last
   `GSYSTEM_RESET_TIMEOUT_MS` (`gsystem.h:183-187`); `system_timer_wait` has the
   opposite sense.
6. `LaunchesSpaced` - the "delay between launches" is measured from the end of
   the last launch; a job with `work_with_error` that calls the error handler has
   not ended when the handler's loop launches it again.
7. `NeverSooner` without `Fits` - `period_ms * (priority * FIX + scale_x100)` wraps: a
   task of 500 ms that used 334.1 ms of its second gets 21 ms instead of seven
   minutes. `MCJobScaling` reaches such states, and TLC refutes the property there
   when the condition is dropped.
8. `ChipEraseClears` - `w25qxx_erase_chip` "completely clears" the memory
   (`w25qxx.h:69-72`), but the result of the protection command replaces that of
   the erase, and a wait that times out keeps the status of the command before.
9. `OkMeansStored`, `LateAnswerHarmless` - in the DMA driver a write that ends with
   `FLASH_OK` may not be stored after a failed transfer, and a transfer that
   outlives its timer may cost a neighbour under `FLASH_OK`.
10. `TestsNeverCostTheDate` - a reset or a failed access between the first write
    and the last check of the clock's self test leaves the test date 2024-04-28,
    which the next test takes for the truth. Related: the dump is torn when a
    minute ends while it is read; a failed reading converts a date of zeros; a
    passed test loses the century of a DS1307; the weekday test asks for
    `!is_same_date && WeekDay ==` (`g_rtc.cpp:304-308`).
11. `WeekDaySaved` - `save_clock_date` computes the weekday of the internal clock
    from a date that is still zero (`clock.c:270-284`).
12. `HeldTimeCounted` - an application that polls `button_held_ms` gets a hold at
    once, of 0 ms; a button pressed at boot is held at once; a release is not
    debounced although `button.h:6` promises software debouncing.
13. `MicrosTrueAlways` - below 65.536 MHz the period of 1000 steps lasts a second
    and counts as a millisecond (`g_hal.c:515-519`). The same factors make the
    oscillator's timeout in `gsystem.c:95-105`, which pairs the prescaler with the
    default period, about 28 us at 72 MHz.

## 5. What would come next

1. `StorageDriver` over `FlashW25Q` itself instead of over what `FlashStore`
   promises, and `SettingsDB` over both, once StorageAT is at hand.
2. An abstract durable settings register that `SettingsUpdater` implements.
3. `FlashDma` implementing `FlashStore` for behaviours without a late transfer;
   it does not for longer lists of an erase (4.2).
4. The fading of loads (`updateCount`) tied to the ticks of the scheduler.

## 6. Not modelled, and why

* How the chip select frames the commands of the flash, and addresses that wrap 32
  bits, see 2.4 and 2.5; data of less than a page in the DMA driver.
* Printing, logging, versions and texts; the vendor HAL and the example project
  under `test/`; the register sequences that start oscillators (only their outcome
  matters here); configuration headers; the file system interface `g_fs.hpp`,
  which only declares.
* The FS backend of the settings (`GSYSTEM_NO_STORAGE_AT`), whose file system is
  not in the repository. The asynchronous requests of the storage driver
  (`StorageDriver.cpp:366-560`): their declarations are commented out in the
  header.
* The waits of the AT24CM01 driver, and the position inside a page at which a
  write to it starts: `StorageDriver` writes whole pages.
* The internal clock of the STM32 but for the weekday it is given; the second
  record kept in the internal backup registers when `GSYSTEM_DOUBLE_BCKP_ENABLE`
  is defined and the text formats of dates; time zone, square wave and the
  wires of the DS130x.
* The averages of the ADC and the estimate of free RAM: arithmetic on samples; the
  nRF52 support: register access behind the interface of the HAL; the copy of the
  vector table; waking from sleep.
* Hazards noticed and left without a property: an update of a status byte lost
  between the main loop and an interrupt (`soul.c:204`, a read-modify-write); two
  interruptions in a row, which can destroy both settings copies
  (`SettingsDB.cpp:153`; the properties exclude them through `hurt < 2`); a fault
  inside the error loop, which is not reentrant (`gsystem.c:329`);
  `SYSTEM_SOFTWARE_READY`, set by `error_check` while the updater has cleared it
  for a save (`g_proc.cpp:511`); the last 8 bytes of the settings, which the
  change hash does not cover (`g_settings_updater.cpp:107`); a transfer that is
  given up but not stopped and may still fill the caller's buffer
  (`w25qxx_dma.c:516`), and `w25qxx_stop_dma`, which leaves queue and transfer as
  they are (`w25qxx_dma.c:369`).
