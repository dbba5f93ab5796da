----------------------------- MODULE MCDevices -----------------------------
(***************************************************************************)
(* Model checking of Devices: a screen of six cells, and dates at which    *)
(* something is carried or the 12-hour clock shows 12.                     *)
(***************************************************************************)
EXTENDS Devices

MCKey == {[plain |-> "a", shifted |-> "A"]}

(* The last column, and a row behind the last one. *)
MCCursorPlace == {<<1, BUFFER_WIDTH - 1>>, <<BUFFER_HEIGHT, 0>>}

At(month, day, hour, minute, second) ==
    [year |-> 24, month |-> month, day |-> day, hour |-> hour,
     minute |-> minute, second |-> second]

MCDate == {At(3, 9, 23, 59, 59),   \* everything but the month is carried
           At(1, 31, 9, 58, 59),   \* January does not end
           At(2, 29, 0, 59, 58),   \* the last day of a month ends at once
           At(6, 27, 12, 59, 58),  \* noon
           At(12, 11, 19, 0, 0)}   \* a year a second

MCStartup == [time : MCDate, bcd : BOOLEAN, h24 : BOOLEAN]
=============================================================================
