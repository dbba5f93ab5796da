----------------------------- MODULE Scheduler -----------------------------
(***************************************************************************)
(* The round-robin scheduler with blocking system calls: scheduler.c, the  *)
(* life cycle of processes (process.c), the clock that wakes sleepers      *)
(* (time.c) and the foreground list and line buffer that wake readers of   *)
(* /dev/stdin (dev.c).                                                     *)
(*                                                                         *)
(* There is one CPU.  mode says what it executes:                          *)
(*   "user"    the current process, in user mode, interrupts enabled;      *)
(*   "scan"    the do-while of switch_next_with_notifier, interrupts       *)
(*             disabled; prev is the process it was called for;            *)
(*   "halt"    its hlt, interrupts enabled: no process can run;            *)
(*   "woken"   between an interrupt that ended the hlt and the cli;        *)
(*   "return"  the rest of the handler that called the scan (cause).       *)
(* An iteration of the loop is one action, and so is the end of the        *)
(* handler; interrupts are disabled in between, so only these follow.      *)
(***************************************************************************)
EXTENDS Processes, SequencesExt

CONSTANTS
    TicksPerSecond, \* PIT_TIMER_FREQUENCY
    MaxSecond,      \* bound: the clock stops here
    MAX_FT          \* open files there may be, contexts of stdin among them

ASSUME ClockAssumption == /\ TicksPerSecond \in Nat \ {0}
                          /\ MaxSecond \in Nat

ASSUME FileTableAssumption == MAX_FT \in Nat

VARIABLES
    queue,              \* the processes waiting for the CPU, front first
    current,            \* current_running: the process that holds the CPU
    state,              \* metadata.state; Inactive also stands for a free pid
    notifier,           \* what a Waiting process waits for
    mode,               \* what the CPU executes
    prev,               \* prev_pcb of the scan
    cause,              \* the handler that started the scan
    interrupt_counter,  \* timer interrupts in this second
    second_elapsed,     \* seconds since boot
    foreground,         \* the contexts of stdin, top_foreground last: whose
                        \* each is, or NoPid if nobody can use it any more
    line                \* line_buffer_current < line_buffer_size

runQueueVars == <<queue, current>>
clockVars == <<interrupt_counter, second_elapsed>>
scanVars == <<prev, cause>>
vars == <<queue, current, state, notifier, mode, prev, cause,
          interrupt_counter, second_elapsed, foreground, line>>

ProcessState == {"Inactive", "Running", "Ready", "Waiting"}

(***************************************************************************)
(* struct ProcessNotifier: kind names the predicate, target its closure;   *)
(* recall is true exactly for "line".                                      *)
(***************************************************************************)
Notifier == [kind : {"none", "sleep", "line"}, target : 0..MaxSecond]

NoNotifier == [kind |-> "none", target |-> 0]

SleepUntil(second) == [kind |-> "sleep", target |-> second]

UntilLine == [kind |-> "line", target |-> 0]

Mode == {"user", "scan", "halt", "woken", "return"}

Cause == {"none", "timer", "sleep", "read", "exit", "fault"}

(* Interrupts are delivered: user mode, or the hlt of the scan. *)
InterruptsEnabled == mode \in {"user", "halt", "woken"}

live == {p \in Pid : state[p] # "Inactive"}

TypeOK == /\ queue \in Seq(Pid)
          /\ current \in Pid
          /\ state \in [Pid -> ProcessState]
          /\ notifier \in [Pid -> Notifier]
          /\ mode \in Mode
          /\ prev \in Pid
          /\ cause \in Cause
          /\ interrupt_counter \in 0..TicksPerSecond
          /\ second_elapsed \in 0..MaxSecond
          /\ foreground \in Seq(Pid \cup {NoPid})
          /\ Len(foreground) <= MAX_FT
          /\ line \in BOOLEAN

(***************************************************************************)
(* After scheduler_init: the shell, pid 1, runs.  scheduler_init leaves    *)
(* its state at the Ready of process_create.                               *)
(***************************************************************************)
Init == /\ queue = <<>>
        /\ current = 1
        /\ state = [p \in Pid |-> IF p = 1 THEN "Ready" ELSE "Inactive"]
        /\ notifier = [p \in Pid |-> NoNotifier]
        /\ mode = "user"
        /\ prev = 1
        /\ cause = "none"
        /\ interrupt_counter = 0
        /\ second_elapsed = 0
        /\ foreground = <<>>
        /\ line = FALSE

-----------------------------------------------------------------------------
(* Predicates of the notifiers, and the scan.                              *)

(* line_buffer_predicate: a line is unread and p's context is the top one. *)
LineReadable(p) == /\ foreground # <<>>
                   /\ Last(foreground) = p
                   /\ line

(* Fault: a line does not end the wait of a reader. *)
SatisfiedBySleepOnly(p) ==
    \/ notifier[p].kind = "none"
    \/ notifier[p].kind = "sleep" /\ second_elapsed >= notifier[p].target

(* The test of the scan on a Waiting process: predicate == NULL or true. *)
Satisfied(p) ==
    \/ notifier[p].kind = "none"
    \/ notifier[p].kind = "sleep" /\ second_elapsed >= notifier[p].target
    \/ notifier[p].kind = "line" /\ LineReadable(p)

Eligible(p) == \/ state[p] = "Ready"
               \/ state[p] = "Waiting" /\ Satisfied(p)

(* Fault: the current process is put back at the front of the line. *)
SwitchNextToFront == IF queue = <<>>
                     THEN UNCHANGED runQueueVars
                     ELSE /\ current' = Head(queue)
                          /\ queue' = <<current>> \o Tail(queue)

(* switch_next(): a rotation of the queue through current. *)
SwitchNext == IF queue = <<>>
              THEN UNCHANGED runQueueVars
              ELSE /\ current' = Head(queue)
                   /\ queue' = Append(Tail(queue), current)

(* Starts switch_next_with_notifier for the current process. *)
BeginScan(why) == /\ mode' = "scan"
                  /\ prev' = current
                  /\ cause' = why

(* The next process is blocked and is not prev: the loop goes on. *)
ScanPast == /\ mode = "scan"
            /\ SwitchNext
            /\ ~Eligible(current')
            /\ current' # prev
            /\ UNCHANGED <<state, notifier, mode, scanVars, clockVars,
                           foreground, line>>

(* Fault: the loop halts at the first process that cannot run. *)
ScanHaltAtOnce ==
    /\ mode = "scan"
    /\ SwitchNext
    /\ ~Eligible(current')
    /\ mode' = "halt"
    /\ UNCHANGED <<state, notifier, scanVars, clockVars, foreground, line>>

(* Fault: the loop compares with prev_pcb before it looks at the state. *)
ScanHaltBeforeReady ==
    /\ mode = "scan"
    /\ SwitchNext
    /\ current' = prev
    /\ mode' = "halt"
    /\ UNCHANGED <<state, notifier, scanVars, clockVars, foreground, line>>

(* The loop is back at prev and found nobody: sti, hlt. *)
ScanHalt == /\ mode = "scan"
            /\ SwitchNext
            /\ ~Eligible(current')
            /\ current' = prev
            /\ mode' = "halt"
            /\ UNCHANGED <<state, notifier, scanVars, clockVars, foreground,
                           line>>

(* After the interrupt, cli and the next iteration. *)
Resume == /\ mode = "woken"
          /\ mode' = "scan"
          /\ UNCHANGED <<runQueueVars, state, notifier, scanVars, clockVars,
                         foreground, line>>

(* Fault: a while loop, which tests the current process before switching. *)
DispatchCurrentFirst ==
    /\ mode = "scan"
    /\ IF Eligible(current) THEN UNCHANGED runQueueVars ELSE SwitchNext
    /\ Eligible(current')
    /\ state' = [state EXCEPT ![current'] = "Running"]
    /\ notifier' = [notifier EXCEPT ![current'] = NoNotifier]
    /\ mode' = "return"
    /\ UNCHANGED <<scanVars, clockVars, foreground, line>>

(***************************************************************************)
(* The next process is chosen.  If it was Waiting its notifier is cleared, *)
(* and if that asked for a recall its read of stdin is executed again,     *)
(* which takes all or a part of the line.                                  *)
(***************************************************************************)
Dispatch ==
    /\ mode = "scan"
    /\ SwitchNext
    /\ Eligible(current')
    /\ state' = [state EXCEPT ![current'] = "Running"]
    /\ notifier' = [notifier EXCEPT ![current'] = NoNotifier]
    /\ IF notifier[current'].kind = "line"
       THEN line' \in BOOLEAN
       ELSE UNCHANGED line
    /\ mode' = "return"
    /\ UNCHANGED <<scanVars, clockVars, foreground>>

-----------------------------------------------------------------------------
(* Processes.                                                              *)

(* The context of p stays in the list, and no descriptor leads to it. *)
Abandoned(p) == [i \in DOMAIN foreground |->
                    IF foreground[i] = p THEN NoPid ELSE foreground[i]]

(***************************************************************************)
(* cleanup_fd closes what is in fd[]: stdin leaves the foreground list. If *)
(* p had opened it when fd[] was full, its descriptor is behind fd[] and   *)
(* the context stays (FileTable models the descriptors).                   *)
(***************************************************************************)
CleanupFd(p) == foreground' \in {RemoveFirst(foreground, p), Abandoned(p)}

(* Fault: scheduler_remove is not called. *)
ProcessDestroyKeepsNode(p) ==
    /\ state' = [state EXCEPT ![p] = "Inactive"]
    /\ notifier' = [notifier EXCEPT ![p] = NoNotifier]
    /\ CleanupFd(p)
    /\ UNCHANGED queue

(* Fault: cleanup_fd is not called. *)
ProcessDestroyKeepsFiles(p) ==
    /\ state' = [state EXCEPT ![p] = "Inactive"]
    /\ notifier' = [notifier EXCEPT ![p] = NoNotifier]
    /\ queue' = RemoveFirst(queue, p)
    /\ UNCHANGED foreground

(***************************************************************************)
(* process_destroy(p) for a live process that does not hold the CPU:       *)
(* closes its files, takes it out of the queue and frees its control block *)
(* and its pid.                                                            *)
(***************************************************************************)
ProcessDestroy(p) ==
    /\ state' = [state EXCEPT ![p] = "Inactive"]
    /\ notifier' = [notifier EXCEPT ![p] = NoNotifier]
    /\ CleanupFd(p)
    /\ queue' = RemoveFirst(queue, p)

(***************************************************************************)
(* What follows switch_next_with_notifier in the handler that called it.   *)
(* EXIT and the page fault destroy the process they switched away from;    *)
(* if the scan chose that same process again they leave it alone.          *)
(***************************************************************************)
Return ==
    /\ mode = "return"
    /\ IF cause \in {"exit", "fault"} /\ current # prev
       THEN ProcessDestroy(prev)
       ELSE UNCHANGED <<state, notifier, foreground, queue>>
    /\ mode' = "user"
    /\ prev' = current
    /\ cause' = "none"
    /\ UNCHANGED <<current, clockVars, line>>

(* Fault: a new process is put at the front of the line. *)
ProcessCreateAtFront(p) ==
    /\ mode = "user"
    /\ state[p] = "Inactive"
    /\ \A q \in 1..(p - 1) : state[q] # "Inactive"
    /\ state' = [state EXCEPT ![p] = "Ready"]
    /\ queue' = <<p>> \o queue
    /\ UNCHANGED <<current, notifier, mode, scanVars, clockVars, foreground,
                   line>>

(***************************************************************************)
(* A successful process_create: the lowest free pid, Ready, at the back.   *)
(***************************************************************************)
ProcessCreate(p) ==
    /\ mode = "user"
    /\ state[p] = "Inactive"
    /\ \A q \in 1..(p - 1) : state[q] # "Inactive"
    /\ state' = [state EXCEPT ![p] = "Ready"]
    /\ queue' = Append(queue, p)
    /\ UNCHANGED <<current, notifier, mode, scanVars, clockVars, foreground,
                   line>>

(* The system call KILL on another live process. *)
Kill(p) == /\ mode = "user"
           /\ p \in live
           /\ p # current
           /\ ProcessDestroy(p)
           /\ UNCHANGED <<current, mode, scanVars, clockVars, line>>

(***************************************************************************)
(* scheduler_handle_timer_interrupt past its early returns: the current    *)
(* process is made Ready and the scan starts.                              *)
(***************************************************************************)
Preempt(why) == /\ state[current] # "Waiting"
                /\ state' = [state EXCEPT ![current] = "Ready"]
                /\ BeginScan(why)

(* The system call EXIT. *)
Exit == /\ mode = "user"
        /\ Preempt("exit")
        /\ UNCHANGED <<runQueueVars, notifier, clockVars, foreground, line>>

(* Interrupt 14 raised by the current process. *)
PageFault == /\ mode = "user"
             /\ Preempt("fault")
             /\ UNCHANGED <<runQueueVars, notifier, clockVars, foreground, line>>

-----------------------------------------------------------------------------
(* Interrupts.                                                             *)

(***************************************************************************)
(* time_handle_timer_interrupt: the counter wraps one interrupt late, and  *)
(* the first second is one interrupt longer, because the counter starts at *)
(* 0 and every later second starts it at 1.                                *)
(***************************************************************************)
Tick == IF interrupt_counter = TicksPerSecond
        THEN IF second_elapsed < MaxSecond
             THEN /\ second_elapsed' = second_elapsed + 1
                  /\ interrupt_counter' = 1
             ELSE UNCHANGED clockVars
        ELSE /\ interrupt_counter' = interrupt_counter + 1
             /\ UNCHANGED second_elapsed

(* Fault: the handler does not count time while the CPU is halted. *)
TimerWithoutTick ==
    /\ InterruptsEnabled
    /\ \/ Preempt("timer") /\ Tick
       \/ /\ state[current] = "Waiting"
          /\ mode' = "woken"
          /\ UNCHANGED <<state, scanVars, clockVars>>
    /\ UNCHANGED <<runQueueVars, notifier, foreground, line>>

(***************************************************************************)
(* The timer interrupt.  It may also come during the hlt of the scan; then *)
(* the current process is Waiting and the handler returns to the scan.     *)
(***************************************************************************)
Timer ==
    /\ InterruptsEnabled
    /\ Tick
    /\ \/ Preempt("timer")
       \/ /\ state[current] = "Waiting"
          /\ mode' = "woken"
          /\ UNCHANGED <<state, scanVars>>
    /\ UNCHANGED <<runQueueVars, notifier, foreground, line>>

(***************************************************************************)
(* The keyboard interrupt, for every key: a newline copies what was typed  *)
(* to the line buffer, replacing an unread line (and an empty line leaves  *)
(* nothing to read); any other key leaves the line buffer alone.           *)
(***************************************************************************)
Keyboard ==
    /\ InterruptsEnabled
    /\ line' \in BOOLEAN
    /\ mode' = IF mode = "user" THEN "user" ELSE "woken"
    /\ UNCHANGED <<runQueueVars, state, notifier, scanVars, clockVars,
                   foreground>>

-----------------------------------------------------------------------------
(* Blocking system calls of the current process.                           *)

(* scheduler_halt_current_process(predicate, closure, recall). *)
HaltCurrent(waitFor, why) ==
    /\ notifier' = [notifier EXCEPT ![current] = waitFor]
    /\ state' = [state EXCEPT ![current] = "Waiting"]
    /\ BeginScan(why)

(* SLEEP.  Bound: the target is a second the clock reaches. *)
Sleep(seconds) ==
    /\ mode = "user"
    /\ second_elapsed + seconds <= MaxSecond
    /\ HaltCurrent(SleepUntil(second_elapsed + seconds), "sleep")
    /\ UNCHANGED <<runQueueVars, clockVars, foreground, line>>

(* VFS_READ of stdin when the line buffer is readable. *)
ReadLine ==
    /\ mode = "user"
    /\ LineReadable(current)
    /\ line' \in BOOLEAN
    /\ UNCHANGED <<runQueueVars, state, notifier, mode, scanVars, clockVars,
                   foreground>>

(* VFS_READ of stdin when it is not. *)
ReadBlocks ==
    /\ mode = "user"
    /\ current \in Range(foreground)
    /\ ~LineReadable(current)
    /\ HaltCurrent(UntilLine, "read")
    /\ UNCHANGED <<runQueueVars, clockVars, foreground, line>>

(***************************************************************************)
(* VFS_OPEN of /dev/stdin pushes a foreground context.  Bounds: a process  *)
(* has at most one, as the programs do (stdin_open never fills in the pid  *)
(* its own duplicate check compares), and the file table does not fill up. *)
(***************************************************************************)
OpenStdin ==
    /\ mode = "user"
    /\ current \notin Range(foreground)
    /\ Len(foreground) < MAX_FT
    /\ foreground' = Append(foreground, current)
    /\ UNCHANGED <<runQueueVars, state, notifier, mode, scanVars, clockVars,
                   line>>

(***************************************************************************)
(* VFS_OPEN of any file when fd[] is full: the word behind it is           *)
(* overwritten, which was the descriptor of stdin.                         *)
(***************************************************************************)
LoseStdin ==
    /\ mode = "user"
    /\ current \in Range(foreground)
    /\ foreground' = Abandoned(current)
    /\ UNCHANGED <<runQueueVars, state, notifier, mode, scanVars, clockVars,
                   line>>

(* VFS_CLOSE of it unlinks the context wherever it is in the list. *)
CloseStdin ==
    /\ mode = "user"
    /\ current \in Range(foreground)
    /\ foreground' = RemoveFirst(foreground, current)
    /\ UNCHANGED <<runQueueVars, state, notifier, mode, scanVars, clockVars,
                   line>>

-----------------------------------------------------------------------------

Scan == ScanPast \/ ScanHalt \/ Dispatch

Next ==
    \/ Scan \/ Resume \/ Return
    \/ Timer \/ Keyboard
    \/ \E p \in Pid : ProcessCreate(p) \/ Kill(p)
    \/ Exit \/ PageFault
    \/ \E seconds \in 0..MaxSecond : Sleep(seconds)
    \/ ReadLine \/ ReadBlocks \/ OpenStdin \/ LoseStdin \/ CloseStdin

Spec == Init /\ [][Next]_vars

(***************************************************************************)
(* The kernel's own code always goes on, and a timer interrupt that is     *)
(* raised while interrupts are disabled stays pending in the interrupt     *)
(* controller until they are enabled: strong fairness.  The PIT raises it  *)
(* periodically for ever.  Nothing is assumed of programs or the keyboard. *)
(***************************************************************************)
Fairness == /\ WF_vars(Scan)
            /\ WF_vars(Resume)
            /\ WF_vars(Return)
            /\ SF_vars(Timer)

FairSpec == Spec /\ Fairness

-----------------------------------------------------------------------------
(* Safety.                                                                 *)

(***************************************************************************)
(* Every live process is the current one or waits in the queue exactly     *)
(* once: none is lost by a rotation, a wake-up, a kill or an exit, and no  *)
(* freed control block stays reachable.                                    *)
(***************************************************************************)
QueueIsLive == /\ IsInjective(queue)
               /\ current \notin Range(queue)
               /\ Range(queue) \cup {current} = live

(***************************************************************************)
(* The states agree with what the CPU does: a Waiting process has a        *)
(* notifier and no other has one; only the current process is Running, and *)
(* only when the scan has ended.                                           *)
(***************************************************************************)
StatesAgree ==
    /\ \A p \in Pid : state[p] = "Waiting" <=> notifier[p].kind # "none"
    /\ \A p \in Pid : state[p] = "Running" => /\ p = current
                                              /\ mode \in {"return", "user"}
    /\ mode = "user" => state[current] \in {"Ready", "Running"}
    /\ mode = "return" => state[current] = "Running"

(***************************************************************************)
(* While the scan is halted the process it was called for is Waiting, so   *)
(* that the timer interrupt returns to it and never starts a second scan   *)
(* on top of it.                                                           *)
(***************************************************************************)
NoNestedScan == mode \in {"halt", "woken"} => /\ current = prev
                                              /\ state[current] = "Waiting"

(***************************************************************************)
(* The CPU is halted only if no process could run: the loop visited all of *)
(* them and each one waits for something that has not happened.            *)
(***************************************************************************)
HaltsOnlyIfBlocked == mode = "halt" => \A p \in live : ~Eligible(p)

(* Nobody has two contexts in the list. *)
OwnersDiffer(list) ==
    \A i, j \in DOMAIN list : list[i] = list[j] /\ list[i] # NoPid => i = j

(***************************************************************************)
(* Processes open stdin, close it, end and lose its descriptor in any      *)
(* order: a context is one of a live process, which has no other, or       *)
(* nobody's, and it never passes to a later process with the pid of the    *)
(* dead one. A process that waits for a line is in the list, so it can get *)
(* to the top and be woken (but not if nobody's context is above it).      *)
(***************************************************************************)
ForegroundIsLive ==
    /\ OwnersDiffer(foreground)
    /\ Range(foreground) \subseteq live \cup {NoPid}
    /\ \A p \in Pid : notifier[p].kind = "line" => p \in Range(foreground)

-----------------------------------------------------------------------------
(* What a step may never do.                                               *)

PositionOf(p) == CHOOSE i \in 1..Len(queue) : queue[i] = p

(***************************************************************************)
(* Nobody is overtaken: while a process is in the queue its position never *)
(* grows, and it shrinks whenever the CPU is given to another process.     *)
(***************************************************************************)
NoOvertaking ==
    [][\A p \in Range(queue) \cap Range(queue') :
           /\ PositionOf(p)' <= PositionOf(p)
           /\ current' # current => PositionOf(p)' < PositionOf(p)]_vars

(***************************************************************************)
(* EXIT (and a page fault) fails to destroy its process only if no other   *)
(* process could run: the scan comes back to prev only after it has found  *)
(* every other process blocked.                                            *)
(***************************************************************************)
ExitFailsOnlyIfAlone ==
    [][mode = "scan" /\ mode' = "return" /\ current' = prev /\ state[prev] = "Ready"
           => \A p \in live \ {prev} : ~Eligible(p)]_vars

-----------------------------------------------------------------------------
(* Liveness.                                                               *)

(***************************************************************************)
(* A Ready process that does not hold the CPU gets it or is destroyed,     *)
(* whatever the other processes do.                                        *)
(***************************************************************************)
ReadyRuns == \A p \in Pid :
    (state[p] = "Ready" /\ current # p) ~> (current = p \/ state[p] = "Inactive")

(* A process that sleeps wakes up, or is destroyed. *)
SleepersWake == \A p \in Pid :
    notifier[p].kind = "sleep" ~> notifier[p].kind # "sleep"

(***************************************************************************)
(* A process that waits for a line and is the foreground process when one  *)
(* is there gets the CPU, unless a later line replaces it by an empty one, *)
(* it is destroyed, or another process takes the foreground.               *)
(***************************************************************************)
ReadersWake == \A p \in Pid :
    (notifier[p].kind = "line" /\ LineReadable(p))
        ~> ~(notifier[p].kind = "line" /\ LineReadable(p))

-----------------------------------------------------------------------------

(***************************************************************************)
(* The queue of the scheduler is a run queue: each step is one operation   *)
(* of it or leaves it alone.                                               *)
(***************************************************************************)
RQ == INSTANCE RunQueue WITH Process <- Pid, None <- NoPid

RefinesRunQueue == RQ!Spec
=============================================================================
