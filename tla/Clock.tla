------------------------------- MODULE Clock -------------------------------
(***************************************************************************)
(* The clock: time.c. At boot, before the timer is enabled, setup_time     *)
(* enables the interrupt of the real-time clock and halts until its        *)
(* handler has read the date; from then on the timer interrupt counts      *)
(* seconds and advances the calendar.                                      *)
(***************************************************************************)
EXTENDS Integers, Sequences

CONSTANTS
    PIT_TIMER_FREQUENCY,
    Startup,       \* [time, bcd, h24]: what the real-time clock may show at boot, and how
    BehindMonths,  \* the word behind day_in_month, read in December
    MaxElapsed     \* bound on second_elapsed

ASSUME ClockModuleAssumption ==
    PIT_TIMER_FREQUENCY \in Nat \ {0} /\ BehindMonths \in Int /\ MaxElapsed \in Nat

(* What a real-time clock may show. *)
Date == [second : 0..59, minute : 0..59, hour : 0..23, day : 1..31, month : 1..12, year : 0..99]

ASSUME StartupAssumption ==
    Startup \subseteq [time : Date, bcd : BOOLEAN, h24 : BOOLEAN]

VARIABLES
    phase,     \* where setup_time is: "enable", "test", "hlt", "halted"; then "up"
    rtc,       \* the RTC's interrupt: "off", "enabled", "masked"
    handled,
    startup_time,
    current_time,
    second_elapsed,
    interrupt_counter,
    began      \* history: what the RTC showed, [time, bcd, h24, torn]

clockVars == <<phase, rtc, handled, startup_time, current_time,
               second_elapsed, interrupt_counter, began>>

Zero == [second |-> 0, minute |-> 0, hour |-> 0, day |-> 0, month |-> 0, year |-> 0]

ClockInit ==
    /\ phase = "enable"
    /\ rtc = "off"
    /\ handled = FALSE
    /\ startup_time = Zero /\ current_time = Zero
    /\ second_elapsed = 0 /\ interrupt_counter = 0
    /\ began = [time |-> Zero, bcd |-> FALSE, h24 |-> TRUE, torn |-> FALSE]

-----------------------------------------------------------------------------

(* The registers of the real-time clock.                                   *)

Bcd(n) == (n \div 10) * 16 + (n % 10)

HourRegister(h, s) ==
    LET shown == IF s.h24 THEN h ELSE ((h + 11) % 12) + 1
    IN  (IF s.bcd THEN Bcd(shown) ELSE shown) + (IF ~s.h24 /\ h >= 12 THEN 128 ELSE 0)

Registers(t, s) ==
    [f \in DOMAIN t |-> IF f = "hour" THEN HourRegister(t.hour, s)
                        ELSE IF s.bcd THEN Bcd(t[f]) ELSE t[f]]

SecondOfDay(t) == t.hour * 3600 + t.minute * 60 + t.second

(* n seconds later, within the month. *)
Later(t, n) ==
    LET s == SecondOfDay(t) + n
    IN  [t EXCEPT !.second = s % 60, !.minute = (s \div 60) % 60,
                  !.hour = (s \div 3600) % 24, !.day = @ + s \div 86400]

-----------------------------------------------------------------------------

(* setup_time.                                                             *)

EnableRtcInterrupt ==
    /\ phase = "enable"
    /\ rtc' = "enabled"
    /\ phase' = "test"
    /\ UNCHANGED <<handled, startup_time, current_time, second_elapsed, interrupt_counter, began>>

(* The while of setup_time; what follows "hlt" is the instruction hlt. *)
TestHandled ==
    /\ phase = "test"
    /\ IF handled THEN /\ current_time' = startup_time
                       /\ phase' = "up"
                  ELSE /\ phase' = "hlt"
                       /\ UNCHANGED current_time
    /\ UNCHANGED <<rtc, handled, startup_time, second_elapsed, interrupt_counter, began>>

Hlt ==
    /\ phase = "hlt"
    /\ phase' = "halted"
    /\ UNCHANGED <<rtc, handled, startup_time, current_time, second_elapsed,
                   interrupt_counter, began>>

FromBcd(v) == (v % 16) + (v \div 16) * 10

(* The conversions of handle_rtc_interrupt; 128 is the flag of the         *)
(* afternoon, 12 o'clock at night stays 12 and at noon becomes 0.          *)
Decode(r, s) ==
    LET binary == IF ~s.bcd THEN r
                  ELSE [f \in DOMAIN r |->
                          IF f = "hour" THEN FromBcd(r.hour % 128) + (r.hour \div 128) * 128
                                        ELSE FromBcd(r[f])]
    IN  IF ~s.h24 /\ binary.hour >= 128
        THEN [binary EXCEPT !.hour = ((@ % 128) + 12) % 24]
        ELSE binary

WakeUp == phase' = IF phase = "halted" THEN "test" ELSE phase

ReadOrder == <<"second", "minute", "hour", "day", "month", "year">>

(* Fault: the interrupt is masked, but nobody is told. *)
HandleRtcInterruptUntold(s, n) ==
    /\ rtc = "enabled"
    /\ startup_time' = Decode(Registers(s.time, s), s)
    /\ began' = [time |-> s.time, bcd |-> s.bcd, h24 |-> s.h24, torn |-> FALSE]
    /\ rtc' = "masked"
    /\ WakeUp
    /\ UNCHANGED <<handled, current_time, second_elapsed, interrupt_counter>>

(* handle_rtc_interrupt: the clock may go on after it read n registers.    *)
HandleRtcInterrupt(s, n) ==
    LET before == Registers(s.time, s)
        after == Registers(Later(s.time, 1), s)
        shown == [f \in DOMAIN before |->
                     IF \E i \in 1..n : ReadOrder[i] = f THEN before[f] ELSE after[f]]
    IN  /\ rtc = "enabled"
        /\ startup_time' = Decode(shown, s)
        /\ began' = [time |-> IF n = 0 THEN Later(s.time, 1) ELSE s.time,
                     bcd |-> s.bcd, h24 |-> s.h24, torn |-> shown \notin {before, after}]
        /\ rtc' = "masked"
        /\ handled' = TRUE
        /\ WakeUp
        /\ UNCHANGED <<current_time, second_elapsed, interrupt_counter>>

(* The keyboard's is the only other interrupt that is enabled at boot. *)
KeyboardInterrupt ==
    /\ phase \notin {"enable", "up"}
    /\ WakeUp
    /\ UNCHANGED <<rtc, handled, startup_time, current_time, second_elapsed,
                   interrupt_counter, began>>

-----------------------------------------------------------------------------

(* time_handle_timer_interrupt.                                            *)

day_in_month == <<31, 0, 31, 30, 31, 30, 31, 31, 30, 31, 30, 31>>

(* Months count from 1, the array's index from 0: it is the next month's. *)
DayInMonth(month) == IF month < 12 THEN day_in_month[month + 1] ELSE BehindMonths

IsLeapYear(year) == year % 400 = 0 \/ (year % 4 = 0 /\ year % 100 # 0)

DayOverflow(t) ==
    IF t.month = 2 THEN t.day = (IF IsLeapYear(t.year) THEN 29 ELSE 28)
                   ELSE t.day = DayInMonth(t.month) - 1

CarryMinute(t) == IF t.second = 60 THEN [t EXCEPT !.second = 0, !.minute = @ + 1] ELSE t
CarryHour(t) == IF t.minute = 60 THEN [t EXCEPT !.minute = 0, !.hour = @ + 1] ELSE t
CarryDay(t) == IF t.hour = 24 THEN [t EXCEPT !.hour = 0, !.day = (@ + 1) % 2^8] ELSE t
CarryMonth(t) == IF DayOverflow(t) THEN [t EXCEPT !.month = (@ + 1) % 2^8, !.day = 1] ELSE t
CarryYear(t) == IF t.month = 12 THEN [t EXCEPT !.year = (@ + 1) % 2^8] ELSE t

(* Fault: the hour is looked at before the minute. *)
AdvanceHourFirst(t) ==
    CarryYear(CarryMonth(CarryMinute(CarryHour(CarryDay([t EXCEPT !.second = @ + 1])))))

Advance(t) ==
    CarryYear(CarryMonth(CarryDay(CarryHour(CarryMinute([t EXCEPT !.second = @ + 1])))))

TimerInterrupt ==
    /\ phase = "up"
    /\ IF interrupt_counter = PIT_TIMER_FREQUENCY
       THEN /\ second_elapsed < MaxElapsed
            /\ second_elapsed' = second_elapsed + 1
            /\ current_time' = Advance(current_time)
            /\ interrupt_counter' = 1
       ELSE /\ interrupt_counter' = interrupt_counter + 1
            /\ UNCHANGED <<second_elapsed, current_time>>
    /\ UNCHANGED <<phase, rtc, handled, startup_time, began>>

-----------------------------------------------------------------------------

Boot == EnableRtcInterrupt \/ TestHandled \/ Hlt

RtcInterrupt == \E s \in Startup, n \in 0..Len(ReadOrder) : HandleRtcInterrupt(s, n)

(* The CPU goes on, and the real-time clock interrupts once it is enabled. *)
ClockFairness == WF_clockVars(Boot) /\ WF_clockVars(RtcInterrupt)

-----------------------------------------------------------------------------

(* Unless the registers were read while the clock went on, the time of day *)
(* is right after any number of seconds, or wrong by exactly twelve hours  *)
(* if the system was booted between 12 and 1 o'clock of a 12-hour clock;   *)
(* and the date is right until the 27th of the month it was booted in,     *)
(* other than December.                                                    *)
ClockFollowsElapsed ==
    phase = "up" /\ ~began.torn =>
        LET wrong == IF ~began.h24 /\ began.time.hour % 12 = 0 THEN 12 * 3600 ELSE 0
            now == Later(began.time, second_elapsed)
        IN  /\ SecondOfDay(current_time) = (SecondOfDay(now) + wrong) % 86400
            /\ wrong = 0 /\ now.day <= 27 /\ now.month < 12 => current_time = now

(* The boot ends, unless the interrupt comes between the test of handled   *)
(* and the hlt; it was masked then, and only a key can wake the CPU.       *)
BootEnds == <>(phase = "up" \/ (handled /\ phase \in {"hlt", "halted"}))
=============================================================================
