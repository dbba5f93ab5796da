------------------------------ MODULE Console ------------------------------
(***************************************************************************)
(* The keyboard, the line editing of /dev/stdin and the terminal that both *)
(* the keyboard's echo and the programs write to: keyboard.c, dev.c        *)
(* (fill_stdin_buffer, stdin_read, stdout_write), tty.c and the cursor of  *)
(* framebuffer.c. A character for stdin is echoed by the keyboard's        *)
(* interrupt handler, between any two characters a program prints: a       *)
(* program prints by system calls and is interrupted between two of them.  *)
(* Who may read, and when a reader is woken, is in Scheduler.              *)
(*                                                                         *)
(* An erase of the character at index 0 of the ring sets stdin_buffer_last *)
(* to -1; the next key is stored before the array, or Enter copies 1024    *)
(* characters. The model stops there.                                      *)
(***************************************************************************)
EXTENDS Cursor, SequencesExt

CONSTANTS
    STDIN_BUFFER_SIZE,
    Key,          \* the keys that type something: [plain, shifted]
    Output,       \* what programs print by fputc
    CursorPlace,  \* where programs put the cursor: <<row, col>>, on the screen or not
    MaxEscape     \* bound on an unfinished escape sequence (ansi_escape has 32)

Letter == {k.plain : k \in Key} \cup {k.shifted : k \in Key}

ASSUME ConsoleAssumption == STDIN_BUFFER_SIZE \in Nat \ {0, 1} /\ MaxEscape \in Nat \ {0}

(* fill_stdin_buffer takes the printable characters only. *)
ASSUME TypedAssumption == {"esc", "nl"} \cap Letter = {} /\ CursorPlace \subseteq Int \X Int

Lost == -1000

VARIABLES
    shift_modifier,
    stdin_buffer, stdin_buffer_current, stdin_buffer_last,
    line_buffer, line_buffer_current,
    tty,    \* the cursor and the escape sequence: see Cursor
    start   \* history: the position of the first character typed, or Lost

inputVars == <<stdin_buffer, stdin_buffer_current, stdin_buffer_last,
               line_buffer, line_buffer_current>>
consoleVars == <<shift_modifier, inputVars, tty, start>>

ConsoleInit ==
    /\ shift_modifier = FALSE
    /\ stdin_buffer = [i \in 0..(STDIN_BUFFER_SIZE - 1) |-> "null"]
    /\ stdin_buffer_current = 0 /\ stdin_buffer_last = 0
    /\ line_buffer = <<>> /\ line_buffer_current = 0
    /\ tty = Home
    /\ start = 0

Ring(i) == i % STDIN_BUFFER_SIZE

PendingCount == Ring(stdin_buffer_last - stdin_buffer_current)
Pending == [i \in 1..PendingCount |-> stdin_buffer[Ring(stdin_buffer_current + i - 1)]]

InBounds == stdin_buffer_last >= 0

(* The terminal becomes t; what was typed now starts at s, unless its      *)
(* place is not known any more.                                            *)
Show(t, s) ==
    /\ t.escape <= MaxEscape
    /\ tty' = [t EXCEPT !.up = 0]
    /\ start' = IF s = Lost THEN Lost ELSE s - t.up * BUFFER_WIDTH

-----------------------------------------------------------------------------

(* The keyboard: keyboard_isr, and fill_stdin_buffer for what it typed.    *)

(* SHIFT, and ALT, whose flag the handler does not set. *)
ModifierDown == /\ shift_modifier' = TRUE
                /\ UNCHANGED <<inputVars, tty, start>>
ModifierUp == /\ shift_modifier' = FALSE
              /\ UNCHANGED <<inputVars, tty, start>>

(* keyboard_scancode_1_to_ascii_map and its shifted version. *)
CharOf(k) == IF shift_modifier THEN k.shifted ELSE k.plain

(* Fault: a full ring is not noticed. *)
StoreUnnoticed(c) ==
    /\ stdin_buffer' = [stdin_buffer EXCEPT ![stdin_buffer_last] = c]
    /\ stdin_buffer_last' = Ring(stdin_buffer_last + 1)
    /\ UNCHANGED stdin_buffer_current

(* The ring drops its oldest character when it is full. *)
Store(c) ==
    LET last == Ring(stdin_buffer_last + 1)
    IN  /\ stdin_buffer' = [stdin_buffer EXCEPT ![stdin_buffer_last] = c]
        /\ stdin_buffer_last' = last
        /\ stdin_buffer_current' = IF last = stdin_buffer_current THEN Ring(last + 1)
                                                                  ELSE stdin_buffer_current

TypeKey(k) ==
    /\ InBounds
    /\ Store(CharOf(k))
    /\ Show(Fputc(tty, CharOf(k)),
            IF tty.escape > 0 \/ start = Lost THEN Lost
            ELSE IF PendingCount = STDIN_BUFFER_SIZE - 1 THEN start + 1 ELSE start)
    /\ UNCHANGED <<shift_modifier, line_buffer, line_buffer_current>>

(* Enter: the characters become the line, whether the last was read or not. *)
EnterKey ==
    /\ InBounds
    /\ LET t == Fputc(tty, "nl") IN Show(t, Position(t) + t.up * BUFFER_WIDTH)
    /\ line_buffer' = Pending
    /\ line_buffer_current' = 0
    /\ stdin_buffer_current' = stdin_buffer_last
    /\ UNCHANGED <<shift_modifier, stdin_buffer, stdin_buffer_last>>

(* Fault: the cursor is moved back before the blank only. *)
EraseEchoOnce(t) == Fputc(MoveCursor(t, "LEFT"), " ")

EraseEcho(t) == MoveCursor(Fputc(MoveCursor(t, "LEFT"), " "), "LEFT")

(* Backspace; at the left margin the cursor cannot follow. *)
BackspaceKey ==
    /\ InBounds
    /\ IF stdin_buffer_last # stdin_buffer_current
       THEN /\ stdin_buffer_last' = stdin_buffer_last - 1
            /\ Show(EraseEcho(tty), IF tty.escape > 0 \/ tty.col = 0 THEN Lost ELSE start)
       ELSE UNCHANGED <<stdin_buffer_last, tty, start>>
    /\ UNCHANGED <<shift_modifier, stdin_buffer, stdin_buffer_current,
                   line_buffer, line_buffer_current>>

-----------------------------------------------------------------------------

(* Programs. *)

(* stdin_read, by the reader at the top of the foreground list. *)
StdinRead(size) ==
    /\ line_buffer_current < Len(line_buffer)
    /\ line_buffer_current' = Min({line_buffer_current + size, Len(line_buffer)})
    /\ UNCHANGED <<shift_modifier, stdin_buffer, stdin_buffer_current, stdin_buffer_last,
                   line_buffer, tty, start>>

(* A program's output while something is typed: it stays where it is, but  *)
(* the cursor is elsewhere.                                                *)
ProgramOutput(t) ==
    /\ Show(t, IF PendingCount > 0 THEN Lost ELSE Position(t) + t.up * BUFFER_WIDTH)
    /\ UNCHANGED <<shift_modifier, inputVars>>

(* PUT_CHAR, or one turn of the loop of stdout_write. What the shell's    *)
(* clear() prints, for one, takes two calls.                               *)
PutChar(c) == ProgramOutput(Fputc(tty, c))

(* FRAMEBUFFER_PUT_CHAR, and one turn of the loop of                       *)
(* FRAMEBUFFER_PUT_NULL_TERMINATED_CHARS: no escape sequences.             *)
FramebufferPut == ProgramOutput(Put(tty))

FramebufferClear == ProgramOutput(Clear(tty))

FramebufferCursor(row, col) == ProgramOutput(SetCursor(tty, row, col))

-----------------------------------------------------------------------------

ConsoleNext ==
    \/ ModifierDown
    \/ ModifierUp
    \/ \E k \in Key : TypeKey(k)
    \/ EnterKey
    \/ BackspaceKey
    \/ \E size \in 1..STDIN_BUFFER_SIZE : StdinRead(size)
    \/ \E c \in Output : PutChar(c)
    \/ FramebufferPut
    \/ FramebufferClear
    \/ \E place \in CursorPlace : FramebufferCursor(place[1], place[2])

-----------------------------------------------------------------------------

Line == SubSeq(line_buffer, line_buffer_current + 1, Len(line_buffer))

Discipline == INSTANCE LineDiscipline WITH
    Capacity <- STDIN_BUFFER_SIZE - 1, pending <- Pending, line <- Line

(* The ring and the line buffer are a line discipline: whatever is typed,  *)
(* erased and read in pieces of any size, no character is lost, doubled or *)
(* reordered, but for those of a line nobody read and of one too long.     *)
RefinesLineDiscipline == Discipline!Spec

(* The cursor, and the hardware's, stand behind the characters one has     *)
(* typed and can still erase, also when the screen scrolled or the ring    *)
(* dropped some of them; unless a program printed while they were typed,   *)
(* they were taken for an escape sequence, or the erase met the margin.    *)
EchoFollowsInput ==
    InBounds /\ start # Lost /\ PendingCount > 0 =>
        /\ Position(tty) = start + PendingCount
        /\ tty.hw = Position(tty)
=============================================================================
