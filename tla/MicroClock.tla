------------------------------ MODULE MicroClock ------------------------------
(***************************************************************************)
(* src/drivers/hal/g_hal.c with GSYSTEM_TIMER: the hardware timer whose    *)
(* interrupt counts sys_time_ms, the choice of its prescaler and period,   *)
(* and g_get_micros, which puts the count of milliseconds and the timer's  *)
(* counter together while both run on.                                     *)
(***************************************************************************)
EXTENDS Naturals, FiniteSetsExt

CONSTANTS
    Milli,      \* the milliseconds of a second and the microseconds of a millisecond
    Width,      \* values of a 16 bit register
    Wrap,       \* values of sys_time_ms
    Freqs,      \* frequencies of the timer's bus
    MaxSlip     \* bound: steps of the counter while the interrupts are masked

ASSUME MicroAssumption ==
    /\ Milli \in Nat \ {0} /\ Width \in Nat \ {0} /\ Wrap \in Nat \ {0}
    /\ Freqs \subseteq Nat \ {0} /\ MaxSlip \in Nat
    /\ Milli <= Width

(* _get_millis_hw_tim_presc_count -----------------------------------------*)

PerMilli(f) == f \div Milli

\* The search starts with a period of a thousand, whatever a period is to last.
FirstCount(f) == Max({c \in 1 .. Milli : f % c = 0})
Short(f) == f \div FirstCount(f) - 1 < Width

PrescalersWide(f) == {p \in 1 .. Width : PerMilli(f) % p = 0}
Prescalers(f) == {p \in 1 .. Width : PerMilli(f) % p = 0 /\ PerMilli(f) \div p <= Width}

Presc(f) ==
    IF Short(f) THEN f \div FirstCount(f)
    ELSE IF Prescalers(f) # {} THEN Min(Prescalers(f)) ELSE 0
Count(f) ==
    IF Short(f) THEN FirstCount(f)
    ELSE IF Prescalers(f) # {} THEN PerMilli(f) \div Presc(f) ELSE 0

\* Above 65.536 MHz the masked reading takes less than half a period, and no
\* period that lasts a millisecond has as many steps as a short one.
ASSUME ReadingAssumption ==
    \A f \in Freqs : ~Short(f) /\ Presc(f) # 0 =>
        Count(f) >= 3 /\ 2 * MaxSlip <= Count(f) /\ Count(f) # Milli

VARIABLES
    freq,
    running,        \* sys_timer is set
    now,            \* true time since then, in steps of the counter
    cnt, uif,       \* the timer's counter, and the flag of its interrupt
    ms,             \* sys_time_ms
    slip,           \* steps of the counter since the interrupts were masked
    step,           \* how far g_get_micros has come
    read,           \* what it has read
    answer, truth   \* history: its last answer, and the time when it read the counter

timerVars == <<freq, running, now, cnt, uif, ms>>
readVars == <<slip, step, read, answer, truth>>
microVars == <<timerVars, readVars>>

Arr == Count(freq) - 1
Nothing == [ms |-> 0, cnt |-> 0, pending |-> FALSE]

-----------------------------------------------------------------------------

\* g_sys_tick_start refuses a frequency that has no factors.
Start ==
    /\ ~running /\ Presc(freq) # 0
    /\ running' = TRUE
    /\ UNCHANGED <<freq, now, cnt, uif, ms, readVars>>

\* The counter runs on; the interrupt is served within half a period, and the
\* reading under the mask takes less.
MaskedSteps == {"cnt", "uif", "unmask"}
Tick ==
    /\ running
    /\ uif => cnt + 1 < Arr \div 2
    /\ step \in MaskedSteps => slip < MaxSlip
    /\ cnt' = (cnt + 1) % (Arr + 1) /\ uif' = (uif \/ cnt = Arr)
    /\ now' = (now + 1) % (Wrap * (Arr + 1))
    /\ slip' = IF step \in MaskedSteps THEN slip + 1 ELSE slip
    /\ UNCHANGED <<freq, running, ms, step, read, answer, truth>>

\* _sys_timer_callback
Interrupt ==
    /\ uif /\ step \notin MaskedSteps
    /\ uif' = FALSE /\ ms' = (ms + 1) % Wrap
    /\ UNCHANGED <<freq, running, now, cnt, readVars>>

(* g_get_micros -----------------------------------------------------------*)

\* The interrupts are masked, and sys_time_ms is read.
ReadMs ==
    /\ running /\ step = "idle" /\ step' = "cnt"
    /\ read' = [Nothing EXCEPT !.ms = ms] /\ slip' = 0
    /\ UNCHANGED <<timerVars, answer, truth>>

ReadCnt ==
    /\ step = "cnt" /\ step' = "uif"
    /\ read' = [read EXCEPT !.cnt = cnt] /\ truth' = now
    /\ UNCHANGED <<timerVars, slip, answer>>

ReadFlag ==
    /\ step = "uif" /\ step' = "unmask"
    /\ read' = [read EXCEPT !.pending = uif]
    /\ UNCHANGED <<timerVars, slip, answer, truth>>

Unmask ==
    /\ step = "unmask" /\ step' = "answer"
    /\ UNCHANGED <<timerVars, slip, read, answer, truth>>

\* A pending interrupt belongs to a counter that is at its beginning.
ReadMillisAlways == IF read.pending THEN (read.ms + 1) % Wrap ELSE read.ms
ReadMillis == IF read.pending /\ read.cnt < Arr \div 2 THEN (read.ms + 1) % Wrap ELSE read.ms

Answer ==
    /\ step = "answer" /\ step' = "idle"
    /\ answer' = IF Arr = Milli - 1 THEN ms * Milli + read.cnt
                 ELSE ReadMillis * Milli + (read.cnt * Milli) \div (Arr + 1)
    /\ read' = Nothing /\ slip' = 0
    /\ UNCHANGED <<timerVars, truth>>

MicroInit ==
    /\ freq \in Freqs
    /\ running = FALSE /\ now = 0 /\ cnt = 0 /\ uif = FALSE /\ ms = 0
    /\ slip = 0 /\ step = "idle" /\ read = Nothing /\ answer = 0 /\ truth = 0

MicroNext == Start \/ Tick \/ Interrupt \/ ReadMs \/ ReadCnt \/ ReadFlag \/ Unmask \/ Answer

MicroSpec == MicroInit /\ [][MicroNext]_microVars

-----------------------------------------------------------------------------
(* Properties                                                              *)

MicroTypeOK ==
    /\ freq \in Freqs /\ running \in BOOLEAN /\ now \in Nat /\ slip \in 0 .. MaxSlip
    /\ cnt \in 0 .. Width - 1 /\ uif \in BOOLEAN /\ ms \in 0 .. Wrap - 1
    /\ step \in {"idle", "cnt", "uif", "unmask", "answer"}
    /\ read \in [ms : 0 .. Wrap - 1, cnt : 0 .. Width - 1, pending : BOOLEAN]
    /\ answer \in 0 .. Wrap * Milli - 1 /\ truth \in Nat

\* The microseconds of a moment
Micros(moment) == (moment * Presc(freq) * Milli) \div PerMilli(freq)

\* Above 65.536 MHz g_get_micros tells the time at which it read the counter,
\* wherever the counter overflowed and whenever the interrupt was served, until
\* sys_time_ms wraps (g_hal.c:503-537, 660-685).
MicrosTrue == step = "idle" /\ ~Short(freq) => answer = Micros(truth)

\* The same of every frequency the timer is started with.  Below 65.536 MHz a
\* period of 1000 steps lasts a second and is counted as a millisecond, and the
\* count is read again after the interrupts were let in.
MicrosTrueAlways == step = "idle" => answer = Micros(truth)
=============================================================================
