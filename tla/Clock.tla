-------------------------------- MODULE Clock --------------------------------
(***************************************************************************)
(* src/clock/clock.c and src/clock/ds130x/ds130x.c: the conversions        *)
(* between a date and the days since 2000-01-01, and the access to the     *)
(* clock chip, which runs on while its registers are read and written one  *)
(* by one.                                                                 *)
(***************************************************************************)
EXTENDS Naturals, Integers, Sequences

(* Dates ------------------------------------------------------------------*)

Date(year, month, date) == [year |-> year, month |-> month, date |-> date]

\* _get_days_in_month, months counted from 1
DaysInMonthNoLeap(year, month) ==
    CASE month = 2 -> 28
      [] month \in {4, 6, 9, 11} -> 30
      [] OTHER -> 31
DaysInMonth(year, month) ==
    CASE month = 2 -> IF year % 4 = 0 THEN 29 ELSE 28
      [] month \in {4, 6, 9, 11} -> 30
      [] OTHER -> 31

DaysInYear(year) == IF year % 4 > 0 THEN 365 ELSE 366

\* The loop of get_clock_datetime_to_seconds over the months before one
DaysBefore(year) ==
    LET days[month \in Nat] == IF month <= 1 THEN 0 ELSE days[month - 1] + DaysInMonth(year, month - 1)
    IN days

\* The days that get_clock_datetime_to_seconds counts; the time of day is
\* kept apart.  A date of zeros would wrap, see SavedWeekDay.
DaysOf(date) ==
    LET year == date.year % 100 IN
    365 * year + (IF year > 0 THEN (year - 1) \div 4 + 1 ELSE 0)
      + DaysBefore(year)[date.month] + date.date - 1

\* The loop of get_clock_seconds_to_datetime, which takes years and then
\* months off the days that are left in date
TakeDays[d \in [year : Nat, month : Nat, date : Nat]] ==
    IF d.date > DaysInYear(d.year) THEN TakeDays[Date(d.year + 1, d.month, d.date - DaysInYear(d.year))]
    ELSE IF d.date > DaysInMonth(d.year, d.month)
    THEN TakeDays[Date(d.year, d.month + 1, d.date - DaysInMonth(d.year, d.month))]
    ELSE d

DateOf(days) == TakeDays[Date(0, 1, days + 1)]

\* 1 is Monday, 0 is Sunday
Thursday == 4
WeekDayOf(days) == LET day == ((Thursday + days + 1) % 7) + 1 IN IF day = 7 THEN 0 ELSE day

\* What save_clock_date gives the internal clock as weekday: that of a date of
\* zeros, whose day number -1 is multiplied by 24 in 32 bits.
SavedWeekDay == LET wrapped == 178956969 IN WeekDayOf(wrapped)

(* The chip ---------------------------------------------------------------*)

Encode(dec) == (dec % 10) + (dec \div 10) * 16
Decode(byte) == (byte \div 16) * 10 + (byte % 16)

CONSTANT Builds     \* "DS1307": I2C and a century in RAM; "DS1302": three wires, which never fail

ASSUME BuildsAssumption == Builds \subseteq {"DS1302", "DS1307"}

VARIABLES
    build,
    regs    \* the registers: cent is a byte, the others are BCD

chipVars == <<build, regs>>

\* The century is two digits more of the year.
Blank == [field \in {"cent", "year", "month", "date", "hour", "min", "sec"} |-> 0]

\* A date and a time of day as the code and the registers hold them
Clockface(date, tod) ==
    [Blank EXCEPT !["year"] = date.year, !["month"] = date.month, !["date"] = date.date,
                  !["hour"] = tod \div 3600, !["min"] = (tod \div 60) % 60, !["sec"] = tod % 60]

\* What the registers mean to the chip, for which the century is a byte of RAM
ChipDate == Date(Decode(regs.year), Decode(regs.month), Decode(regs.date))
ChipSecond == (Decode(regs.hour) * 60 + Decode(regs.min)) * 60 + Decode(regs.sec)

Registers(date, second, cent) ==
    [field \in DOMAIN Blank |-> IF field = "cent" THEN cent ELSE Encode(Clockface(date, second)[field])]

\* The chip's own calendar: the next day, and the next second
NextDate(d) ==
    IF d.date < (IF d.month = 2 THEN IF d.year % 4 = 0 THEN 29 ELSE 28
                 ELSE IF d.month \in {4, 6, 9, 11} THEN 30 ELSE 31)
    THEN Date(d.year, d.month, d.date + 1)
    ELSE IF d.month < 12 THEN Date(d.year, d.month + 1, 1)
    ELSE Date((d.year + 1) % 100, 1, 1)

Ticked ==
    IF ChipSecond = 86399 THEN Registers(NextDate(ChipDate), 0, regs.cent)
    ELSE Registers(ChipDate, ChipSecond + 1, regs.cent)

\* The order in which get_clock_rtc_date and get_clock_rtc_time, and
\* save_clock_date and save_clock_time, go through the registers
DateFields == IF build = "DS1307" THEN <<"cent", "year", "month", "date">> ELSE <<"year", "month", "date">>
Fields ==
    IF build = "DS1307" THEN <<"cent", "year", "month", "date", "hour", "min", "sec">>
    ELSE <<"year", "month", "date", "hour", "min", "sec">>

\* A register as a number, and back.  DS130X_SetSecond puts the halt bit,
\* which is 0 on a started clock, into the value.
Got(field) == IF field = "cent" THEN regs.cent ELSE Decode(IF field = "hour" THEN regs.hour % 64 ELSE regs[field])
Put(field, value) == [regs EXCEPT ![field] = IF field = "cent" THEN value ELSE Encode(value)]
=============================================================================
