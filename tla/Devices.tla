------------------------------ MODULE Devices ------------------------------
(***************************************************************************)
(* The keyboard and terminal beside the clock, from kernel_setup on. The   *)
(* two meet at boot: a key can wake the CPU that waits for the real-time   *)
(* clock, and programs run only when that has answered. After it they      *)
(* share nothing, so that it is enough to look at one of them at a time.   *)
(***************************************************************************)
EXTENDS Console, Clock

vars == <<consoleVars, clockVars>>

Init == ConsoleInit /\ ClockInit

(* What is typed at boot: a modifier, which leaves the terminal alone. *)
KeyAtBoot == KeyboardInterrupt /\ (ModifierDown \/ ModifierUp)

BootStep == (Boot \/ RtcInterrupt) /\ UNCHANGED consoleVars

TimerStep == ConsoleInit /\ TimerInterrupt /\ UNCHANGED consoleVars

(* Nothing of the terminal depends on the date. *)
OneDate == CHOOSE s \in Startup : TRUE

ConsoleStep == /\ phase = "up" /\ interrupt_counter = 0
               /\ began = [time |-> OneDate.time, bcd |-> OneDate.bcd,
                           h24 |-> OneDate.h24, torn |-> FALSE]
               /\ ConsoleNext
               /\ UNCHANGED clockVars

Next == KeyAtBoot \/ BootStep \/ TimerStep \/ ConsoleStep

Spec == Init /\ [][Next]_vars /\ ClockFairness
=============================================================================
