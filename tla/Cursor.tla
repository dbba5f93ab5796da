------------------------------- MODULE Cursor -------------------------------
(***************************************************************************)
(* The cursor and the escape sequences of the terminal (framebuffer.c and  *)
(* tty.c), as operators on a record                                        *)
(*    [row, col |-> framebuffer_state,                                     *)
(*     hw       |-> the position the video hardware was given,             *)
(*     up       |-> the lines scrolled by the last operation,              *)
(*     escape   |-> tty_state.ansi_escape_size].                           *)
(* What the cells hold is in Screen.                                       *)
(***************************************************************************)
EXTENDS Integers, FiniteSetsExt

CONSTANTS BUFFER_WIDTH, BUFFER_HEIGHT

(* A position on the screen fits into the hardware's uint16_t. *)
ASSUME CursorAssumption == /\ BUFFER_WIDTH \in Nat \ {0} /\ BUFFER_HEIGHT \in Nat \ {0}
                           /\ BUFFER_WIDTH * BUFFER_HEIGHT <= 2^16

Home == [row |-> 0, col |-> 0, hw |-> 0, up |-> 0, escape |-> 0]

Position(t) == t.row * BUFFER_WIDTH + t.col

(* -1 leaves a coordinate as it is, anything else is clamped. *)
Clamp(x, old, size) == IF x = -1 THEN old ELSE Max({0, Min({x, size - 1})})

(* framebuffer_set_cursor: the hardware gets the position before it is     *)
(* clamped, as a uint16_t.                                                 *)
SetCursor(t, row, col) ==
    [t EXCEPT !.hw = (row * BUFFER_WIDTH + col) % 2^16,
              !.row = Clamp(row, @, BUFFER_HEIGHT),
              !.col = Clamp(col, @, BUFFER_WIDTH)]

(* framebuffer_move_cursor, by one. *)
MoveCursor(t, direction) ==
    SetCursor(t, t.row + (CASE direction = "UP" -> -1 [] direction = "DOWN" -> 1 [] OTHER -> 0),
                 t.col + (CASE direction = "LEFT" -> -1 [] direction = "RIGHT" -> 1 [] OTHER -> 0))

(* framebuffer_scroll_up, at the end of the screen. *)
Scrolling(t, row, col) ==
    IF row = BUFFER_HEIGHT THEN [SetCursor(t, row - 1, col) EXCEPT !.up = 1]
                           ELSE SetCursor(t, row, col)

(* framebuffer_next_line. *)
NextLine(t) == Scrolling(t, t.row + 1, 0)

(* framebuffer_put. *)
Put(t) == IF t.col + 1 = BUFFER_WIDTH THEN NextLine(t) ELSE SetCursor(t, t.row, t.col + 1)

(* framebuffer_clear. *)
Clear(t) == SetCursor(t, 0, 0)

-----------------------------------------------------------------------------

(* check_ansi_escape_end: letters end a sequence; ' ', digits and '\e' do not. *)
EndsEscape(c) == c \notin {"esc", "nl", " ", "1"}

(* process_ansi_escape looks at the last character only. *)
ProcessEscape(t, c) == CASE c = "A" -> MoveCursor(t, "UP")
                         [] c = "B" -> MoveCursor(t, "DOWN")
                         [] c = "C" -> MoveCursor(t, "RIGHT")
                         [] c = "J" -> Clear(t)
                         [] OTHER -> t

(* fputc: what stands in a sequence is not printed. *)
Fputc(t, c) ==
    IF c = "esc" \/ t.escape > 0
    THEN IF EndsEscape(c) THEN [ProcessEscape(t, c) EXCEPT !.escape = 0]
                          ELSE [t EXCEPT !.escape = @ + 1]
    ELSE IF c = "nl" THEN NextLine(t)
    ELSE Put(t)
=============================================================================
