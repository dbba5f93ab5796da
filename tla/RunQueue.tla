------------------------------ MODULE RunQueue ------------------------------
(***************************************************************************)
(* What the run queue of the scheduler promises, without its pointers: a   *)
(* FIFO sequence of processes and the process that holds the CPU.  The     *)
(* C code keeps both in a doubly linked list (scheduler.c); LinkedRunQueue *)
(* and Scheduler are shown to implement this specification.                *)
(***************************************************************************)
EXTENDS SequencesExt

CONSTANTS
    Process,    \* the processes a run queue may hold
    None        \* no process (not in Process): the CPU before scheduler_init

VARIABLES
    queue,      \* the waiting line, front first
    current     \* the process that holds the CPU

vars == <<queue, current>>

(***************************************************************************)
(* The behaviours start before scheduler_init (no current process) or      *)
(* right after it took the first process off the line.                     *)
(***************************************************************************)
Init == /\ queue = <<>>
        /\ current \in Process \cup {None}

(* A new process joins the back of the line. *)
Add(p) == /\ p \notin Range(queue) \cup {current}
          /\ queue' = Append(queue, p)
          /\ UNCHANGED current

(* The first process of the line takes the idle CPU. *)
Start == /\ current = None
         /\ queue # <<>>
         /\ current' = Head(queue)
         /\ queue' = Tail(queue)

(* The current process goes to the back and the front one takes the CPU. *)
Switch == /\ current # None
          /\ queue # <<>>
          /\ current' = Head(queue)
          /\ queue' = Append(Tail(queue), current)

(* A process that does not hold the CPU leaves the line. *)
Leave(p) == /\ p \in Range(queue)
            /\ queue' = RemoveFirst(queue, p)
            /\ UNCHANGED current

Next == \/ \E p \in Process : Add(p) \/ Leave(p)
        \/ Start
        \/ Switch

Spec == Init /\ [][Next]_vars
=============================================================================
