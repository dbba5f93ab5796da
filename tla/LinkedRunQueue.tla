--------------------------- MODULE LinkedRunQueue ---------------------------
(***************************************************************************)
(* The run queue as scheduler.c implements it: a doubly linked list of     *)
(* LinkedPCB nodes with queue_front and queue_back, and current_running    *)
(* taken out of the list.  Every function runs with interrupts disabled,   *)
(* so each is one action.  A node is identified with the process it was    *)
(* allocated for; a node that is not in nodes keeps whatever its fields    *)
(* held when it was freed.                                                 *)
(*                                                                         *)
(* The variable queue is a history variable: the sequence the list is      *)
(* meant to be.  No action reads it to decide what the pointers become.    *)
(***************************************************************************)
EXTENDS FiniteSets, SequencesExt

CONSTANTS
    Process,    \* the processes, and their nodes
    None        \* the pointer NULL

ASSUME NoneAssumption == None \notin Process

ASSUME ProcessAssumption == IsFiniteSet(Process)

VARIABLES
    front,      \* queue_front
    back,       \* queue_back
    current,    \* current_running
    next,       \* the field next of every node
    prev,       \* the field prev of every node
    nodes,      \* the nodes that are allocated
    queue       \* history: the waiting line the list stands for

pointers == <<front, back, current, next, prev>>

vars == <<front, back, current, next, prev, nodes, queue>>

Pointer == Process \cup {None}

TypeOK == /\ front \in Pointer
          /\ back \in Pointer
          /\ current \in Pointer
          /\ next \in [Process -> Pointer]
          /\ prev \in [Process -> Pointer]
          /\ nodes \subseteq Process
          /\ queue \in Seq(Process)

Init == /\ front = None
        /\ back = None
        /\ current = None
        /\ next = [p \in Process |-> None]
        /\ prev = [p \in Process |-> None]
        /\ nodes = {}
        /\ queue = <<>>

-----------------------------------------------------------------------------

(***************************************************************************)
(* scheduler_add(pcb).  Before scheduler_init kernel_setup adds one        *)
(* process, the shell; afterwards process_create adds any number.          *)
(***************************************************************************)
SchedulerAdd(p) ==
    /\ p \notin nodes
    /\ current = None => nodes = {}
    /\ nodes' = nodes \cup {p}
    /\ prev' = [prev EXCEPT ![p] = back]
    /\ next' = IF back # None
               THEN [next EXCEPT ![p] = None, ![back] = p]
               ELSE [next EXCEPT ![p] = None]
    /\ back' = p
    /\ front' = IF front = None THEN p ELSE front
    /\ queue' = Append(queue, p)
    /\ UNCHANGED current

(***************************************************************************)
(* scheduler_init(), which kernel_setup calls once after it created the    *)
(* first process.                                                          *)
(***************************************************************************)
SchedulerInit ==
    /\ current = None
    /\ front # None
    /\ current' = front
    /\ front' = next[front]
    /\ prev' = IF front' # None THEN [prev EXCEPT ![front'] = None] ELSE prev
    /\ back' = IF back = front THEN None ELSE back
    /\ next' = [next EXCEPT ![front] = None]
    /\ queue' = Tail(queue)
    /\ UNCHANGED nodes

(* Fault: the process at the back of the list takes the CPU. *)
SwitchNextFromBack ==
    /\ current # None
    /\ front # None
    /\ current' = back
    /\ queue' = Append(Tail(queue), current)
    /\ UNCHANGED <<front, back, next, prev, nodes>>

(***************************************************************************)
(* switch_next(): append current_running, then take the front node off.    *)
(* The list is never empty in between, because current_running is in it.   *)
(***************************************************************************)
SwitchNext ==
    /\ current # None
    /\ ~ (front = None /\ back = None)
    /\ LET linked == [next EXCEPT ![current] = None, ![back] = current]
           rest   == linked[front]
       IN  /\ current' = front
           /\ front' = rest
           /\ back' = IF front = current THEN rest ELSE current
           /\ next' = [linked EXCEPT ![front] = None]
           /\ prev' = IF rest # None
                      THEN [prev EXCEPT ![current] = back, ![rest] = None]
                      ELSE [prev EXCEPT ![current] = back]
    /\ queue' = Append(Tail(queue), current)
    /\ UNCHANGED nodes

(* Fault: the walk stops when current->next is NULL, before the last node. *)
WalkFindsNotLast(p) == p # back /\ p \in Range(queue)

(***************************************************************************)
(* The walk of scheduler_remove reaches node p: there is a path of next    *)
(* pointers from queue_front to p.                                         *)
(***************************************************************************)
WalkFinds(p) ==
    \E n \in 1..Cardinality(Process) :
        \E path \in [1..n -> Process] :
            /\ path[1] = front
            /\ path[n] = p
            /\ \A i \in 1..(n - 1) : next[path[i]] = path[i + 1]

(* Unlinks p, with the new front and back given by the caller. *)
Unlink(p, newFront, newBack) ==
    /\ next' = IF prev[p] # None
               THEN [next EXCEPT ![prev[p]] = next[p]]
               ELSE next
    /\ prev' = IF next[p] # None
               THEN [prev EXCEPT ![next[p]] = prev[p]]
               ELSE prev
    /\ front' = newFront
    /\ back' = newBack
    /\ nodes' = nodes \ {p}

(* Fault: queue_back is not moved when the last node is unlinked. *)
SchedulerRemoveKeepsBack(p) ==
    /\ p \in nodes
    /\ current # None
    /\ current # p
    /\ Unlink(p, IF p = front THEN next[p] ELSE front, back)
    /\ queue' = RemoveFirst(queue, p)
    /\ UNCHANGED current

(***************************************************************************)
(* scheduler_remove(pcb), called by process_destroy for a live process.    *)
(* It returns at once for the current process; a node that the walk does   *)
(* not reach stays allocated and linked.                                   *)
(***************************************************************************)
SchedulerRemove(p) ==
    /\ p \in nodes
    /\ current # None
    /\ current # p
    /\ IF WalkFinds(p)
       THEN Unlink(p, IF p = front THEN next[p] ELSE front,
                      IF p = back THEN prev[p] ELSE back)
       ELSE UNCHANGED <<next, prev, front, back, nodes>>
    /\ queue' = RemoveFirst(queue, p)
    /\ UNCHANGED current

Next == \/ \E p \in Process : SchedulerAdd(p) \/ SchedulerRemove(p)
        \/ SchedulerInit
        \/ SwitchNext

Spec == Init /\ [][Next]_vars

-----------------------------------------------------------------------------

(***************************************************************************)
(* The list is the line: queue_front, the next pointers and queue_back     *)
(* spell exactly the sequence, and the prev pointers spell it backwards.   *)
(* A stale prev or queue_back after an unlink would break a later          *)
(* scheduler_add or scheduler_remove.                                      *)
(***************************************************************************)
ListIsQueue ==
    /\ IF queue = <<>>
       THEN front = None /\ back = None
       ELSE /\ front = queue[1]
            /\ back = queue[Len(queue)]
            /\ prev[queue[1]] = None
            /\ next[queue[Len(queue)]] = None
    /\ \A i \in 1..(Len(queue) - 1) : /\ next[queue[i]] = queue[i + 1]
                                      /\ prev[queue[i + 1]] = queue[i]

(***************************************************************************)
(* No LinkedPCB is leaked or freed while linked: the allocated nodes are   *)
(* the waiting ones and the running one, each exactly once.                *)
(***************************************************************************)
NodesAccounted ==
    /\ IsInjective(queue)
    /\ current \notin Range(queue)
    /\ nodes = Range(queue) \cup ({current} \ {None})

(***************************************************************************)
(* The list implements the sequence: every function of the C code does to  *)
(* queue and current what the abstract operation does.                     *)
(***************************************************************************)
RQ == INSTANCE RunQueue

RefinesRunQueue == RQ!Spec
=============================================================================
