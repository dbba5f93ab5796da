--------------------------- MODULE LineDiscipline ---------------------------
(***************************************************************************)
(* What a program that reads /dev/stdin may expect of the keyboard: the    *)
(* characters typed since the last Enter can be erased from the end, Enter *)
(* offers them as a line, and a line is taken in pieces from its front. A  *)
(* line that is not taken is lost when the next one is ended, and of a     *)
(* line that is too long the first characters are.                         *)
(***************************************************************************)
EXTENDS Integers, SequencesExt

CONSTANTS
    Letter,   \* the characters that can be typed
    Capacity  \* how many of them a line holds

VARIABLES pending, line

disciplineVars == <<pending, line>>

LastOf(s, n) == SubSeq(s, Max({1, Len(s) - n + 1}), Len(s))

Init == pending = <<>> /\ line = <<>>

Type(c) == /\ pending' = LastOf(Append(pending, c), Capacity)
           /\ UNCHANGED line

Erase == /\ pending # <<>>
         /\ pending' = Front(pending)
         /\ UNCHANGED line

Enter == /\ line' = pending
         /\ pending' = <<>>

Take(n) == /\ line' = SubSeq(line, n + 1, Len(line))
           /\ UNCHANGED pending

Next == \/ \E c \in Letter : Type(c)
        \/ Erase
        \/ Enter
        \/ \E n \in 1..Len(line) : Take(n)

Spec == Init /\ [][Next]_disciplineVars
=============================================================================
