---------------------------- MODULE KernelProofs ----------------------------
(***************************************************************************)
(* The scheduler is correct for any number of processes and any length of  *)
(* time: no process is lost, the CPU halts only when nobody can run, no    *)
(* Ready process is overtaken, and the queue implements RunQueue. And the  *)
(* kernel is a scheduler with memory: it implements Scheduler, keeps the   *)
(* memory of processes isolated, leaks none, never runs on a freed page    *)
(* directory, and preempts transparently.                                  *)
(***************************************************************************)
EXTENDS Kernel, ProofLemmas, FiniteSetTheorems

(***************************************************************************)
(* The process a scan was called for is not destroyed before its handler   *)
(* returns; in user mode there is no other than the current process.       *)
(***************************************************************************)
PrevIsLive == /\ prev \in live
              /\ mode = "user" => prev = current

(***************************************************************************)
(* What the loop has seen: unless it is about to make its first step,      *)
(* prev is in the queue, and the processes behind it and the current one   *)
(* were found blocked.                                                     *)
(***************************************************************************)
BlockedBehindPrev ==
    /\ \E k \in 1..Len(queue) : /\ queue[k] = prev
                                /\ \A j \in (k + 1)..Len(queue) : ~Eligible(queue[j])
    /\ ~Eligible(current)

ScanIsComplete == mode = "scan" => current = prev \/ BlockedBehindPrev

(* The invariants of the scheduler, inductive together. *)
SafeInv == /\ TypeOK
           /\ QueueIsLive
           /\ StatesAgree
           /\ NoNestedScan
           /\ PrevIsLive
           /\ ForegroundIsLive

IInv == /\ SafeInv
        /\ ScanIsComplete
        /\ HaltsOnlyIfBlocked

-----------------------------------------------------------------------------

(* A rotation keeps the processes and their being in one place each. *)
LEMMA RotationKeepsProcesses ==
    ASSUME TypeOK, QueueIsLive, SwitchNext
    PROVE  /\ queue' \in Seq(Pid)
           /\ current' \in Pid
           /\ IsInjective(queue')
           /\ current' \notin Range(queue')
           /\ Range(queue') \cup {current'} = Range(queue) \cup {current}
  <1>1. CASE queue = <<>>
    BY <1>1 DEF SwitchNext, runQueueVars, TypeOK, QueueIsLive
  <1>2. CASE queue # <<>>
    <2>1. queue \in Seq(Pid) /\ current \in Pid /\ IsInjective(queue) /\ current \notin Range(queue)
      BY DEF TypeOK, QueueIsLive
    <2>2. LET t == Append(Tail(queue), current)
          IN  /\ t \in Seq(Pid)
              /\ IsInjective(t)
              /\ Range(t) = (Range(queue) \ {Head(queue)}) \cup {current}
              /\ Head(queue) \in Range(queue)
              /\ Head(queue) \notin Range(t)
      BY <1>2, <2>1, RotateQueue
    <2>3. Head(queue) \in Pid
      BY <1>2, <2>1
    <2> QED BY <1>2, <2>2, <2>3 DEF SwitchNext
  <1> QED BY <1>1, <1>2

(* The rotation, position by position. *)
LEMMA RotationByIndex ==
    ASSUME TypeOK, QueueIsLive, SwitchNext, queue # <<>>
    PROVE  /\ Len(queue) \in Nat \ {0}
           /\ Len(queue') = Len(queue)
           /\ \A i \in 1..Len(queue) :
                  queue'[i] = IF i < Len(queue) THEN queue[i + 1] ELSE current
           /\ current' = queue[1]
  <1>1. queue \in Seq(Pid) /\ current \in Pid /\ IsInjective(queue) /\ current \notin Range(queue)
    BY DEF TypeOK, QueueIsLive
  <1> DEFINE t == Append(Tail(queue), current)
  <1>2. /\ Len(t) = Len(queue)
        /\ \A i \in 1..Len(t) : t[i] = IF i < Len(queue) THEN queue[i + 1] ELSE current
    BY <1>1, RotateQueue
  <1>3. queue' = t /\ current' = queue[1] /\ Len(queue) \in Nat \ {0}
    BY <1>1 DEF SwitchNext
  <1> HIDE DEF t
  <1> QED BY <1>2, <1>3

(* A process that leaves the queue. *)
LEMMA LeaveKeepsOthers ==
    ASSUME TypeOK, QueueIsLive, NEW p \in Pid, p # current,
           queue' = RemoveFirst(queue, p), current' = current
    PROVE  /\ queue' \in Seq(Pid)
           /\ IsInjective(queue')
           /\ current' \notin Range(queue')
           /\ Range(queue') \cup {current'} = (Range(queue) \cup {current}) \ {p}
  <1>1. queue \in Seq(Pid) /\ IsInjective(queue) /\ current \notin Range(queue)
    BY DEF TypeOK, QueueIsLive
  <1>2. queue' \in Seq(Pid) /\ IsInjective(queue') /\ Range(queue') = Range(queue) \ {p}
    BY <1>1, RemoveFromQueue
  <1> QED BY <1>1, <1>2

(***************************************************************************)
(* A context that leaves the foreground list, or stays as nobody's: the    *)
(* process has none any more, and the others keep theirs.                  *)
(***************************************************************************)
LEMMA ContextGone ==
    ASSUME TypeOK, ForegroundIsLive, NEW p \in Pid,
           NEW list, list \in {RemoveFirst(foreground, p), Abandoned(p)}
    PROVE  /\ list \in Seq(Pid \cup {NoPid})
           /\ Len(list) <= MAX_FT
           /\ OwnersDiffer(list)
           /\ Range(list) \subseteq (Range(foreground) \cup {NoPid}) \ {p}
           /\ Range(foreground) \ {p} \subseteq Range(list)
  <1> DEFINE Context == Pid \cup {NoPid}
             s == foreground
  <1>1. /\ s \in Seq(Context) /\ Len(s) \in Nat /\ DOMAIN s = 1..Len(s)
        /\ Len(s) <= MAX_FT /\ MAX_FT \in Nat
        /\ \A i, j \in 1..Len(s) : s[i] = s[j] /\ s[i] # NoPid => i = j
        /\ Range(s) = {s[i] : i \in 1..Len(s)}
        /\ p # NoPid
    BY FileTableAssumption, RangeByIndex DEF TypeOK, ForegroundIsLive, OwnersDiffer, Pid, NoPid
  <1> SUFFICES /\ list \in Seq(Context) /\ Len(list) <= MAX_FT
               /\ \A i, j \in 1..Len(list) : list[i] = list[j] /\ list[i] # NoPid => i = j
               /\ \A i \in 1..Len(list) : list[i] \in (Range(s) \cup {NoPid}) \ {p}
               /\ Range(s) \ {p} \subseteq Range(list)
    BY RangeByIndex DEF OwnersDiffer
  <1> HIDE DEF Context, s
  <1>2. CASE list = Abandoned(p)
    <2>1. /\ list \in Seq(Context) /\ Len(list) = Len(s)
          /\ \A i \in 1..Len(s) : list[i] = IF s[i] = p THEN NoPid ELSE s[i]
      <3>1. list = [i \in 1..Len(s) |-> IF s[i] = p THEN NoPid ELSE s[i]]
        BY <1>1, <1>2 DEF Abandoned, s
      <3>2. \A i \in 1..Len(s) : s[i] \in Context /\ NoPid \in Context
        BY <1>1 DEF Context
      <3> QED BY <1>1, <3>1, <3>2
    <2>2. Range(list) = {list[i] : i \in 1..Len(list)}
      BY <2>1, RangeByIndex
    <2> QED BY <1>1, <2>1, <2>2
  <1>3. CASE list = RemoveFirst(foreground, p) /\ p \notin Range(s)
    <2>1. list = s
      BY <1>1, <1>3, RemoveFirstAbsent DEF s
    <2> QED BY <1>1, <1>3, <2>1
  <1>4. CASE list = RemoveFirst(foreground, p) /\ p \in Range(s)
    <2>1. PICK i \in 1..Len(s) : s[i] = p
      BY <1>1, <1>4
    <2>2. \A j \in 1..Len(s) : s[j] = s[i] => j = i
      BY <1>1, <2>1
    <2>3. list = RemoveAt(s, i)
      BY <1>1, <1>4, <2>1, <2>2, RemoveFirstOfOne DEF s
    <2>4. /\ list \in Seq(Context)
          /\ Len(list) = Len(s) - 1
          /\ \A j \in 1..(Len(s) - 1) : list[j] = IF j < i THEN s[j] ELSE s[j + 1]
      BY <1>1, <2>3, RemoveAtPosition
    <2>5. Range(list) = {list[j] : j \in 1..Len(list)}
      BY <2>4, RangeByIndex
    <2>6. \A j \in 1..Len(list) : j \in 1..Len(s) /\ j + 1 \in 1..Len(s)
      BY <1>1, <2>4
    <2>7. \A j, k \in 1..Len(list) : list[j] = list[k] /\ list[j] # NoPid => j = k
      BY <1>1, <2>4, <2>6
    <2>8. \A j \in 1..Len(list) : list[j] \in Range(s) \ {p}
      BY <1>1, <2>1, <2>2, <2>4, <2>6
    <2>9. ASSUME NEW x \in Range(s), x # p PROVE x \in Range(list)
      <3>1. PICK j \in 1..Len(s) : x = s[j]
        BY <1>1
      <3>2. CASE j < i
        <4>1. j \in 1..Len(list) /\ list[j] = x
          BY <2>4, <3>1, <3>2
        <4> QED BY <2>5, <4>1
      <3>3. CASE ~(j < i)
        <4>1. j - 1 \in 1..Len(list) /\ list[j - 1] = x
          BY <2>1, <2>4, <2>9, <3>1, <3>3
        <4> QED BY <2>5, <4>1
      <3> QED BY <3>2, <3>3
    <2> QED BY <1>1, <2>4, <2>7, <2>8, <2>9
  <1> QED BY <1>2, <1>3, <1>4

-----------------------------------------------------------------------------

LEMMA InitSafe == Init => SafeInv
  <1> SUFFICES ASSUME Init PROVE SafeInv
    OBVIOUS
  <1>1. 1 \in Pid
    BY MaxPidAssumption DEF Pid
  <1>2. 0 \in 0..MaxSecond /\ 0 \in 0..TicksPerSecond
    BY ClockAssumption
  <1>3. NoNotifier \in Notifier
    BY <1>2 DEF NoNotifier, Notifier
  <1>4. TypeOK
    <2>1. queue \in Seq(Pid) /\ foreground \in Seq(Pid \cup {NoPid}) /\ Len(foreground) <= MAX_FT
      BY FileTableAssumption DEF Init
    <2>2. state \in [Pid -> ProcessState]
      BY <1>1 DEF Init, ProcessState
    <2>3. notifier \in [Pid -> Notifier]
      BY <1>3 DEF Init
    <2> QED BY <1>1, <1>2, <2>1, <2>2, <2>3 DEF Init, TypeOK, Mode, Cause
  <1>5. live = {1}
    BY <1>1 DEF Init, live
  <1>6. QueueIsLive
    BY <1>5, EmptyQueue DEF Init, QueueIsLive
  <1>7. StatesAgree
    BY <1>1 DEF Init, StatesAgree, NoNotifier
  <1>8. NoNestedScan /\ PrevIsLive
    BY <1>5 DEF Init, NoNestedScan, PrevIsLive
  <1>9. ForegroundIsLive
    BY EmptyQueue DEF Init, ForegroundIsLive, OwnersDiffer, NoNotifier
  <1> QED BY <1>4, <1>6, <1>7, <1>8, <1>9 DEF SafeInv

(* The two ends of an iteration of the loop that find nobody. *)
LEMMA ScanPastSafe ==
    ASSUME SafeInv, ScanPast \/ ScanHalt
    PROVE  SafeInv'
  <1> USE DEF SafeInv
  <1>1. /\ SwitchNext
        /\ mode = "scan" /\ mode' \in {"scan", "halt"}
        /\ mode' = "halt" => current' = prev /\ ~Eligible(current')
        /\ UNCHANGED <<state, notifier, prev, cause, interrupt_counter, second_elapsed,
                       foreground, line>>
    BY DEF ScanPast, ScanHalt, scanVars, clockVars
  <1>2. /\ queue' \in Seq(Pid)
        /\ current' \in Pid
        /\ IsInjective(queue')
        /\ current' \notin Range(queue')
        /\ Range(queue') \cup {current'} = Range(queue) \cup {current}
    BY <1>1, RotationKeepsProcesses
  <1>3. TypeOK'
    BY <1>1, <1>2 DEF TypeOK, Mode
  <1>4. QueueIsLive'
    BY <1>1, <1>2 DEF QueueIsLive, live
  <1>5. StatesAgree'
    BY <1>1 DEF StatesAgree
  <1>6. NoNestedScan'
    <2>1. ASSUME mode' = "halt"
          PROVE  state[prev] = "Waiting"
      BY <1>1, <2>1 DEF Eligible, StatesAgree, PrevIsLive, live, TypeOK, ProcessState
    <2> QED BY <1>1, <2>1 DEF NoNestedScan
  <1>7. PrevIsLive'
    BY <1>1 DEF PrevIsLive, live
  <1>8. ForegroundIsLive'
    BY <1>1 DEF ForegroundIsLive, live
  <1> QED BY <1>3, <1>4, <1>5, <1>6, <1>7, <1>8

LEMMA DispatchSafe ==
    ASSUME SafeInv, Dispatch
    PROVE  SafeInv'
  <1> USE DEF SafeInv
  <1>1. /\ SwitchNext
        /\ mode = "scan" /\ mode' = "return"
        /\ Eligible(current')
        /\ state' = [state EXCEPT ![current'] = "Running"]
        /\ notifier' = [notifier EXCEPT ![current'] = NoNotifier]
        /\ line' \in BOOLEAN
        /\ UNCHANGED <<prev, cause, interrupt_counter, second_elapsed, foreground>>
    BY DEF Dispatch, scanVars, clockVars, TypeOK
  <1>2. /\ queue' \in Seq(Pid)
        /\ current' \in Pid
        /\ IsInjective(queue')
        /\ current' \notin Range(queue')
        /\ Range(queue') \cup {current'} = Range(queue) \cup {current}
    BY <1>1, RotationKeepsProcesses
  <1>3. NoNotifier \in Notifier /\ NoNotifier.kind = "none"
    BY ClockAssumption DEF NoNotifier, Notifier
  <1>4. TypeOK'
    BY <1>1, <1>2, <1>3 DEF TypeOK, Mode, ProcessState
  <1>5. live' = live
    BY <1>1, <1>2 DEF live, QueueIsLive, Eligible, TypeOK
  <1>6. QueueIsLive'
    BY <1>2, <1>5 DEF QueueIsLive
  <1>7. StatesAgree'
    BY <1>1, <1>2, <1>3 DEF StatesAgree, TypeOK
  <1>8. NoNestedScan'
    BY <1>1 DEF NoNestedScan
  <1>9. PrevIsLive'
    BY <1>1, <1>5 DEF PrevIsLive
  <1>10. ForegroundIsLive'
    BY <1>1, <1>2, <1>3, <1>5 DEF ForegroundIsLive, TypeOK
  <1> QED BY <1>4, <1>6, <1>7, <1>8, <1>9, <1>10

LEMMA ResumeSafe ==
    ASSUME SafeInv, Resume
    PROVE  SafeInv'
  <1> USE DEF SafeInv, Resume, runQueueVars, scanVars, clockVars
  <1>1. TypeOK'
    BY DEF TypeOK, Mode
  <1>2. QueueIsLive' /\ ForegroundIsLive'
    BY DEF QueueIsLive, ForegroundIsLive, live
  <1>3. StatesAgree' /\ NoNestedScan' /\ PrevIsLive'
    BY DEF StatesAgree, NoNestedScan, PrevIsLive, live
  <1> QED BY <1>1, <1>2, <1>3

(***************************************************************************)
(* process_destroy keeps everything consistent for any process but the     *)
(* current one.                                                            *)
(***************************************************************************)
LEMMA DestroySafe ==
    ASSUME SafeInv, NEW p \in live, p # current, ProcessDestroy(p),
           mode \in {"user", "return"}, mode' = "user",
           prev' = current, cause' \in Cause,
           UNCHANGED <<current, interrupt_counter, second_elapsed, line>>
    PROVE  SafeInv'
  <1> USE DEF SafeInv, ProcessDestroy
  <1>1. p \in Pid
    BY DEF live
  <1>2. /\ queue' \in Seq(Pid)
        /\ IsInjective(queue')
        /\ current' \notin Range(queue')
        /\ Range(queue') \cup {current'} = (Range(queue) \cup {current}) \ {p}
    BY <1>1, LeaveKeepsOthers
  <1>3. /\ foreground' \in Seq(Pid \cup {NoPid}) /\ Len(foreground') <= MAX_FT
        /\ OwnersDiffer(foreground')
        /\ Range(foreground') \subseteq (Range(foreground) \cup {NoPid}) \ {p}
        /\ Range(foreground) \ {p} \subseteq Range(foreground')
    BY <1>1, ContextGone DEF CleanupFd
  <1>4. NoNotifier \in Notifier /\ NoNotifier.kind = "none"
    BY ClockAssumption DEF NoNotifier, Notifier
  <1>5. TypeOK'
    BY <1>1, <1>2, <1>3, <1>4 DEF TypeOK, ProcessState, Mode
  <1>6. live' = live \ {p}
    BY <1>1 DEF live, TypeOK
  <1>7. QueueIsLive'
    BY <1>2, <1>6 DEF QueueIsLive
  <1>8. StatesAgree'
    BY <1>1, <1>4 DEF StatesAgree, TypeOK
  <1>9. NoNestedScan'
    BY DEF NoNestedScan
  <1>10. PrevIsLive'
    BY <1>6 DEF PrevIsLive, QueueIsLive
  <1>11. ForegroundIsLive'
    BY <1>1, <1>3, <1>4, <1>6 DEF ForegroundIsLive, TypeOK
  <1> QED BY <1>5, <1>7, <1>8, <1>9, <1>10, <1>11

LEMMA ReturnSafe ==
    ASSUME SafeInv, Return
    PROVE  SafeInv'
  <1>1. CASE cause \in {"exit", "fault"} /\ current # prev
    BY <1>1, DestroySafe DEF SafeInv, Return, PrevIsLive, clockVars, Cause
  <1>2. CASE ~ (cause \in {"exit", "fault"} /\ current # prev)
    <2> USE <1>2 DEF SafeInv, Return, clockVars
    <2>1. TypeOK'
      BY DEF TypeOK, Mode, Cause
    <2>2. QueueIsLive' /\ ForegroundIsLive'
      BY DEF QueueIsLive, ForegroundIsLive, live
    <2>3. StatesAgree' /\ NoNestedScan' /\ PrevIsLive'
      BY DEF StatesAgree, NoNestedScan, PrevIsLive, live, QueueIsLive
    <2> QED BY <2>1, <2>2, <2>3
  <1> QED BY <1>1, <1>2

LEMMA KillSafe ==
    ASSUME SafeInv, NEW p \in Pid, Kill(p)
    PROVE  SafeInv'
  <1>1. prev' = current
    BY DEF SafeInv, Kill, PrevIsLive, scanVars
  <1> QED BY <1>1, DestroySafe DEF SafeInv, Kill, TypeOK, scanVars, clockVars

LEMMA ProcessCreateSafe ==
    ASSUME SafeInv, NEW p \in Pid, ProcessCreate(p)
    PROVE  SafeInv'
  <1> USE DEF SafeInv, ProcessCreate, scanVars, clockVars
  <1>1. p \notin live /\ p \notin Range(queue) /\ p # current
    BY DEF live, QueueIsLive
  <1>2. /\ queue' \in Seq(Pid)
        /\ Range(queue') = Range(queue) \cup {p}
        /\ IsInjective(queue')
    BY <1>1, AppendToQueue DEF TypeOK, QueueIsLive
  <1>3. TypeOK'
    BY <1>2 DEF TypeOK, ProcessState
  <1>4. live' = live \cup {p}
    BY DEF live, TypeOK
  <1>5. QueueIsLive'
    BY <1>1, <1>2, <1>4 DEF QueueIsLive
  <1>6. StatesAgree'
    BY DEF StatesAgree, TypeOK
  <1>7. NoNestedScan' /\ PrevIsLive'
    BY <1>4 DEF NoNestedScan, PrevIsLive
  <1>8. ForegroundIsLive'
    BY <1>4 DEF ForegroundIsLive
  <1> QED BY <1>3, <1>5, <1>6, <1>7, <1>8

(* A scan that starts with the current process made Ready. *)
LEMMA PreemptSafe ==
    ASSUME SafeInv, NEW why \in Cause, Preempt(why), mode \in {"user", "halt", "woken"},
           interrupt_counter' \in 0..TicksPerSecond, second_elapsed' \in 0..MaxSecond,
           UNCHANGED <<queue, current, notifier, foreground, line>>
    PROVE  SafeInv'
  <1> USE DEF SafeInv, Preempt, BeginScan
  <1>1. TypeOK'
    BY DEF TypeOK, Mode, ProcessState
  <1>2. live' = live
    BY DEF live, TypeOK, QueueIsLive
  <1>3. QueueIsLive' /\ ForegroundIsLive'
    BY <1>2 DEF QueueIsLive, ForegroundIsLive
  <1>4. StatesAgree'
    BY DEF StatesAgree, TypeOK, NoNestedScan
  <1>5. NoNestedScan' /\ PrevIsLive'
    BY <1>2 DEF NoNestedScan, PrevIsLive, QueueIsLive
  <1> QED BY <1>1, <1>3, <1>4, <1>5

(* A scan that starts with the current process made Waiting. *)
LEMMA HaltCurrentSafe ==
    ASSUME SafeInv, NEW waitFor \in Notifier, waitFor.kind # "none",
           waitFor.kind = "line" => current \in Range(foreground),
           NEW why \in Cause, HaltCurrent(waitFor, why), mode = "user",
           UNCHANGED <<queue, current, interrupt_counter, second_elapsed, foreground, line>>
    PROVE  SafeInv'
  <1> USE DEF SafeInv, HaltCurrent, BeginScan
  <1>1. TypeOK'
    BY DEF TypeOK, Mode, ProcessState
  <1>2. live' = live
    BY DEF live, TypeOK, QueueIsLive
  <1>3. QueueIsLive'
    BY <1>2 DEF QueueIsLive
  <1>4. StatesAgree'
    BY DEF StatesAgree, TypeOK
  <1>5. NoNestedScan' /\ PrevIsLive'
    BY <1>2 DEF NoNestedScan, PrevIsLive, QueueIsLive
  <1>6. ForegroundIsLive'
    BY <1>2 DEF ForegroundIsLive, TypeOK
  <1> QED BY <1>1, <1>3, <1>4, <1>5, <1>6

LEMMA TickBounds ==
    ASSUME TypeOK, Tick
    PROVE  interrupt_counter' \in 0..TicksPerSecond /\ second_elapsed' \in 0..MaxSecond
  BY ClockAssumption DEF TypeOK, Tick, clockVars

LEMMA InterruptSafe ==
    ASSUME SafeInv, Timer \/ Keyboard
    PROVE  SafeInv'
  <1>1. CASE Timer /\ state[current] # "Waiting"
    BY <1>1, TickBounds, PreemptSafe
       DEF SafeInv, Timer, InterruptsEnabled, runQueueVars, Cause
  <1>2. CASE Timer /\ state[current] = "Waiting"
    <2> USE DEF SafeInv
    <2>1. /\ mode \in {"halt", "woken"} /\ mode' = "woken"
          /\ UNCHANGED <<queue, current, state, notifier, prev, cause, foreground, line>>
      BY <1>2 DEF Timer, InterruptsEnabled, runQueueVars, scanVars, Preempt, StatesAgree
    <2>2. TypeOK'
      BY <1>2, <2>1, TickBounds DEF Timer, TypeOK, Mode
    <2>3. QueueIsLive' /\ ForegroundIsLive'
      BY <2>1 DEF QueueIsLive, ForegroundIsLive, live
    <2>4. StatesAgree' /\ NoNestedScan' /\ PrevIsLive'
      BY <2>1 DEF StatesAgree, NoNestedScan, PrevIsLive, live
    <2> QED BY <2>2, <2>3, <2>4
  <1>3. CASE Keyboard
    <2> USE <1>3 DEF SafeInv, Keyboard, InterruptsEnabled, runQueueVars, scanVars, clockVars
    <2>1. TypeOK'
      BY DEF TypeOK, Mode
    <2>2. QueueIsLive' /\ ForegroundIsLive'
      BY DEF QueueIsLive, ForegroundIsLive, live
    <2>3. StatesAgree' /\ NoNestedScan' /\ PrevIsLive'
      BY DEF StatesAgree, NoNestedScan, PrevIsLive, live
    <2> QED BY <2>1, <2>2, <2>3
  <1> QED BY <1>1, <1>2, <1>3

LEMMA ExitSafe ==
    ASSUME SafeInv, Exit \/ PageFault
    PROVE  SafeInv'
  BY PreemptSafe DEF SafeInv, TypeOK, Exit, PageFault, Cause, runQueueVars, clockVars

LEMMA SleepSafe ==
    ASSUME SafeInv, NEW seconds \in 0..MaxSecond, Sleep(seconds)
    PROVE  SafeInv'
  <1>1. second_elapsed + seconds \in 0..MaxSecond
    BY ClockAssumption DEF SafeInv, TypeOK, Sleep
  <1> DEFINE waitFor == SleepUntil(second_elapsed + seconds)
  <1>2. waitFor \in Notifier /\ waitFor.kind = "sleep"
    BY <1>1 DEF SleepUntil, Notifier
  <1> HIDE DEF waitFor
  <1>3. HaltCurrent(waitFor, "sleep")
    BY DEF Sleep, waitFor
  <1> QED BY <1>2, <1>3, HaltCurrentSafe DEF Sleep, Cause, runQueueVars, clockVars

LEMMA ReadBlocksSafe ==
    ASSUME SafeInv, ReadBlocks
    PROVE  SafeInv'
  <1>1. UntilLine \in Notifier /\ UntilLine.kind = "line"
    BY ClockAssumption DEF UntilLine, Notifier
  <1> QED BY <1>1, HaltCurrentSafe DEF ReadBlocks, Cause, runQueueVars, clockVars

LEMMA StdinSafe ==
    ASSUME SafeInv, ReadLine \/ OpenStdin \/ LoseStdin \/ CloseStdin
    PROVE  SafeInv'
  <1> USE DEF SafeInv
  <1>1. /\ mode = "user" /\ mode' = "user"
        /\ line' \in BOOLEAN
        /\ UNCHANGED <<queue, current, state, notifier, prev, cause,
                       interrupt_counter, second_elapsed>>
    BY DEF ReadLine, OpenStdin, LoseStdin, CloseStdin, runQueueVars, scanVars, clockVars, TypeOK
  <1>2. current \in live /\ current \in Pid /\ notifier[current].kind = "none"
    BY <1>1 DEF QueueIsLive, StatesAgree, TypeOK
  <1>3. /\ foreground' \in Seq(Pid \cup {NoPid}) /\ Len(foreground') <= MAX_FT
        /\ OwnersDiffer(foreground')
        /\ Range(foreground') \subseteq Range(foreground) \cup {NoPid, current}
        /\ Range(foreground) \ {current} \subseteq Range(foreground')
    <2>1. /\ foreground \in Seq(Pid \cup {NoPid}) /\ Len(foreground) <= MAX_FT
          /\ OwnersDiffer(foreground)
      BY DEF TypeOK, ForegroundIsLive
    <2>2. CASE ReadLine
      BY <2>1, <2>2 DEF ReadLine
    <2>3. CASE OpenStdin
      <3> DEFINE s == foreground
                 t == foreground'
      <3>1. t = Append(s, current) /\ Len(s) < MAX_FT /\ current \notin Range(s)
        BY <2>3 DEF OpenStdin
      <3>2. t \in Seq(Pid \cup {NoPid}) /\ Range(t) = Range(s) \cup {current}
        BY <1>2, <2>1, <3>1, AppendToQueue
      <3>3. /\ Len(t) = Len(s) + 1 /\ Len(s) \in Nat
            /\ \A i \in 1..Len(t) : t[i] = IF i <= Len(s) THEN s[i] ELSE current
        BY <1>2, <2>1, <3>1
      <3>4. /\ \A i \in 1..Len(s) : s[i] # current
            /\ \A i, j \in 1..Len(s) : s[i] = s[j] /\ s[i] # NoPid => i = j
        BY <2>1, <3>1, RangeByIndex DEF OwnersDiffer
      <3>5. DOMAIN t = 1..Len(t)
        BY <3>2
      <3> HIDE DEF s, t
      <3>6. \A i, j \in 1..Len(t) : t[i] = t[j] /\ t[i] # NoPid => i = j
        BY <3>3, <3>4
      <3>7. Len(t) <= MAX_FT
        BY <3>1, <3>3, FileTableAssumption
      <3>8. OwnersDiffer(t)
        BY <3>5, <3>6 DEF OwnersDiffer
      <3> QED BY <3>2, <3>7, <3>8 DEF s, t
    <2>4. CASE LoseStdin \/ CloseStdin
      BY <1>2, <2>4, ContextGone DEF LoseStdin, CloseStdin
    <2> QED BY <2>2, <2>3, <2>4
  <1>4. TypeOK'
    BY <1>1, <1>3 DEF TypeOK
  <1>5. QueueIsLive' /\ StatesAgree' /\ NoNestedScan' /\ PrevIsLive'
    BY <1>1 DEF QueueIsLive, StatesAgree, NoNestedScan, PrevIsLive, live
  <1>6. ForegroundIsLive'
    BY <1>1, <1>2, <1>3 DEF ForegroundIsLive, live
  <1> QED BY <1>4, <1>5, <1>6

LEMMA StutterSafe ==
    ASSUME SafeInv, UNCHANGED vars
    PROVE  SafeInv'
  BY DEF SafeInv, vars, TypeOK, QueueIsLive, StatesAgree, NoNestedScan, PrevIsLive,
         ForegroundIsLive, live

LEMMA StepSafe == SafeInv /\ [Next]_vars => SafeInv'
  BY ScanPastSafe, DispatchSafe, ResumeSafe, ReturnSafe, InterruptSafe, ProcessCreateSafe,
     KillSafe, ExitSafe, SleepSafe, ReadBlocksSafe, StdinSafe, StutterSafe DEF Next, Scan

LEMMA AlwaysSafe == Spec => []SafeInv
  BY InitSafe, StepSafe, PTL DEF Spec

-----------------------------------------------------------------------------

(***************************************************************************)
(* An iteration that finds the next process blocked leaves it behind prev, *)
(* with the ones it found before; if it comes back to prev, no process of  *)
(* the queue could run.                                                    *)
(***************************************************************************)
LEMMA IterationBlocks ==
    ASSUME SafeInv, ScanIsComplete, ScanPast \/ ScanHalt
    PROVE  /\ current' # prev => BlockedBehindPrev'
           /\ current' = prev => \A p \in live : ~Eligible(p)
  <1>1. /\ SwitchNext
        /\ mode = "scan"
        /\ ~Eligible(current')
        /\ UNCHANGED <<state, notifier, prev, second_elapsed, foreground, line>>
    BY DEF ScanPast, ScanHalt, scanVars, clockVars
  <1>3. CASE queue = <<>>
    <2>1. live = {current} /\ current' = current
      BY <1>1, <1>3, EmptyQueue DEF SafeInv, QueueIsLive, SwitchNext, runQueueVars
    <2>2. current = prev
      BY <1>1, <1>3 DEF ScanIsComplete, BlockedBehindPrev
    <2> QED BY <1>1, <2>1, <2>2
  <1>4. CASE queue # <<>>
    <2> DEFINE n == Len(queue)
    <2>1. /\ n \in Nat \ {0}
          /\ Len(queue') = n
          /\ \A i \in 1..n : queue'[i] = IF i < n THEN queue[i + 1] ELSE current
          /\ current' = queue[1]
      BY <1>1, <1>4, RotationByIndex DEF SafeInv
    <2>2. /\ Range(queue) = {queue[i] : i \in 1..n}
          /\ \A i, j \in 1..n : queue[i] = queue[j] => i = j
          /\ current \notin Range(queue)
          /\ live = Range(queue) \cup {current}
      BY RangeByIndex, InjectiveByIndex DEF SafeInv, TypeOK, QueueIsLive
    <2> HIDE DEF n
    <2>3. CASE current = prev
      <3>1. current' # prev
        BY <2>1, <2>2, <2>3
      <3>2. queue'[n] = prev /\ n \in 1..n
        BY <2>1, <2>3
      <3>3. Eligible(current)' = Eligible(current')
        BY <1>1 DEF Eligible, Satisfied, LineReadable
      <3>4. BlockedBehindPrev'
        BY <1>1, <2>1, <3>2, <3>3 DEF BlockedBehindPrev
      <3> QED BY <3>1, <3>4
    <2>4. CASE current # prev
      <3>1. PICK k \in 1..n : /\ queue[k] = prev
                              /\ \A j \in (k + 1)..n : ~Eligible(queue[j])
        BY <1>1, <2>4 DEF ScanIsComplete, BlockedBehindPrev, n
      <3>2. ~Eligible(current)
        BY <1>1, <2>4 DEF ScanIsComplete, BlockedBehindPrev
      <3>3. ASSUME current' # prev
            PROVE  BlockedBehindPrev'
        <4>1. k - 1 \in 1..n /\ queue'[k - 1] = prev
          <5>1. k # 1
            BY <2>1, <3>1, <3>3
          <5> QED BY <2>1, <3>1, <5>1
        <4>2. ASSUME NEW j \in ((k - 1) + 1)..n
              PROVE  ~Eligible(queue'[j])
          <5>1. CASE j = n
            BY <2>1, <3>2, <5>1
          <5>2. CASE j # n
            <6>1. j + 1 \in (k + 1)..n /\ queue'[j] = queue[j + 1]
              BY <2>1, <3>1, <4>2, <5>2
            <6> QED BY <3>1, <6>1
          <5> QED BY <5>1, <5>2
        <4>4. ~Eligible(current)'
          BY <1>1 DEF Eligible, Satisfied, LineReadable
        <4>5. \A j \in ((k - 1) + 1)..Len(queue') : ~Eligible(queue[j])'
          BY <1>1, <2>1, <4>2 DEF Eligible, Satisfied, LineReadable
        <4> QED BY <1>1, <2>1, <4>1, <4>4, <4>5 DEF BlockedBehindPrev
      <3>4. ASSUME current' = prev
            PROVE  \A p \in live : ~Eligible(p)
        <4>1. k = 1
          <5>1. 1 \in 1..n /\ queue[1] = queue[k]
            BY <2>1, <3>1, <3>4
          <5> QED BY <2>2, <3>1, <5>1
        <4>2. ASSUME NEW p \in live
              PROVE  ~Eligible(p)
          <5>1. CASE p = current
            BY <3>2, <5>1
          <5>2. CASE p = prev
            BY <1>1, <3>4, <5>2
          <5>3. CASE p # current /\ p # prev
            <6>1. PICK j \in 1..n : queue[j] = p
              BY <2>2, <5>3
            <6>2. j \in (k + 1)..n
              BY <2>1, <3>1, <4>1, <5>3, <6>1
            <6> QED BY <3>1, <6>1, <6>2
          <5> QED BY <5>1, <5>2, <5>3
        <4> QED BY <4>2
      <3> QED BY <3>3, <3>4
    <2> QED BY <2>3, <2>4
  <1> QED BY <1>3, <1>4

LEMMA InitComplete == Init => ScanIsComplete /\ HaltsOnlyIfBlocked
  BY DEF Init, ScanIsComplete, HaltsOnlyIfBlocked

LEMMA StepComplete == IInv /\ [Next]_vars => ScanIsComplete' /\ HaltsOnlyIfBlocked'
  <1> SUFFICES ASSUME IInv, [Next]_vars
               PROVE  ScanIsComplete' /\ HaltsOnlyIfBlocked'
    OBVIOUS
  <1> USE DEF IInv
  <1>1. CASE ScanPast \/ ScanHalt
    <2>1. mode' # "halt" => mode' = "scan" /\ current' # prev
      BY <1>1 DEF ScanPast, ScanHalt
    <2>2. mode' = "halt" => mode' # "scan" /\ current' = prev
      BY <1>1 DEF ScanPast, ScanHalt
    <2>3. (\A p \in live : ~Eligible(p)) => (\A p \in live : ~Eligible(p))'
      BY <1>1 DEF ScanPast, ScanHalt, scanVars, clockVars, live, Eligible, Satisfied, LineReadable
    <2> QED BY <1>1, <2>1, <2>2, <2>3, IterationBlocks DEF ScanIsComplete, HaltsOnlyIfBlocked
  <1>2. CASE Resume
    BY <1>2 DEF Resume, SafeInv, NoNestedScan, runQueueVars, scanVars,
                ScanIsComplete, HaltsOnlyIfBlocked
  <1>3. CASE mode' = "scan" /\ prev' = current /\ current' = current
    BY <1>3 DEF ScanIsComplete, HaltsOnlyIfBlocked
  <1>4. CASE mode' \notin {"scan", "halt"}
    BY <1>4 DEF ScanIsComplete, HaltsOnlyIfBlocked
  <1>5. CASE UNCHANGED vars
    BY <1>5 DEF vars, ScanIsComplete, BlockedBehindPrev, HaltsOnlyIfBlocked, live, Eligible,
                Satisfied, LineReadable
  <1> QED BY <1>1, <1>2, <1>3, <1>4, <1>5
          DEF Next, Scan, Dispatch, Return, Timer, Keyboard, ProcessCreate, Kill, Exit, PageFault,
              Preempt, Sleep, ReadLine, ReadBlocks, HaltCurrent, OpenStdin, LoseStdin,
              CloseStdin, BeginScan,
              runQueueVars

LEMMA InvariantHolds == Spec => []IInv
  <1>1. Init => IInv
    BY InitSafe, InitComplete DEF IInv
  <1>2. IInv /\ [Next]_vars => IInv'
    BY StepSafe, StepComplete DEF IInv
  <1> QED BY <1>1, <1>2, PTL DEF Spec

-----------------------------------------------------------------------------

(* The variables keep the types of the C fields they stand for. *)
THEOREM SchedulerTypeOK == Spec => []TypeOK
  BY AlwaysSafe, PTL DEF SafeInv

(***************************************************************************)
(* No live process is lost and no destroyed one stays reachable: the queue *)
(* and current_running hold every live process exactly once.               *)
(***************************************************************************)
THEOREM NoProcessLost == Spec => []QueueIsLive
  BY AlwaysSafe, PTL DEF SafeInv

(***************************************************************************)
(* A process is Waiting exactly while its notifier says what for, and only *)
(* the process that holds the CPU is Running.                              *)
(***************************************************************************)
THEOREM StatesAlwaysAgree == Spec => []StatesAgree
  BY AlwaysSafe, PTL DEF SafeInv

(***************************************************************************)
(* The handler of an interrupt that ends the hlt of the scan never starts  *)
(* a second scan: it finds prev_pcb current and Waiting.                   *)
(***************************************************************************)
THEOREM ScansDoNotNest == Spec => []NoNestedScan
  BY AlwaysSafe, PTL DEF SafeInv

(***************************************************************************)
(* Whatever opens, closes, dies or loses a descriptor, a context in the    *)
(* foreground list of dev.c is the only one of a live process or nobody's  *)
(* (one that cleanup_fd did not find behind fd[]), so no process gets the  *)
(* place of a dead one; and every process waiting for a line is in it.     *)
(***************************************************************************)
THEOREM ForegroundAlwaysLive == Spec => []ForegroundIsLive
  BY AlwaysSafe, PTL DEF SafeInv

(***************************************************************************)
(* switch_next_with_notifier halts the CPU only when the Ready processes   *)
(* are none and every Waiting one waits for what has not happened.         *)
(***************************************************************************)
THEOREM HaltsOnlyWhenAllBlocked == Spec => []HaltsOnlyIfBlocked
  BY InvariantHolds, PTL DEF IInv

(***************************************************************************)
(* EXIT and the page fault return to the process they should have          *)
(* destroyed only after the loop found every other process blocked.        *)
(***************************************************************************)
THEOREM ExitDestroysUnlessAlone == Spec => ExitFailsOnlyIfAlone
  <1>1. IInv /\ [Next]_vars =>
          [mode = "scan" /\ mode' = "return" /\ current' = prev /\ state[prev] = "Ready"
              => \A p \in live \ {prev} : ~Eligible(p)]_vars
    <2> SUFFICES ASSUME IInv, Next, mode = "scan", mode' = "return", current' = prev,
                        NEW p \in live, p # prev
                 PROVE  ~Eligible(p)
      OBVIOUS
    <2>1. SwitchNext /\ mode = "scan"
      BY DEF Next, Scan, ScanPast, ScanHalt, Dispatch, Resume, Return, Timer, Keyboard,
             InterruptsEnabled, ProcessCreate, Kill, Exit, PageFault, Sleep, ReadLine, ReadBlocks,
             OpenStdin, LoseStdin, CloseStdin
    <2>2. live = Range(queue) \cup {current} /\ current \notin Range(queue)
      BY DEF IInv, SafeInv, QueueIsLive
    <2>3. CASE queue = <<>>
      BY <2>1, <2>2, <2>3, EmptyQueue DEF SwitchNext, runQueueVars
    <2>4. CASE queue # <<>>
      <3> DEFINE n == Len(queue)
      <3>1. n \in Nat \ {0} /\ current' = queue[1]
        BY <2>1, <2>4, RotationByIndex DEF IInv, SafeInv
      <3>2. /\ Range(queue) = {queue[i] : i \in 1..n}
            /\ \A i, j \in 1..n : queue[i] = queue[j] => i = j
        BY RangeByIndex, InjectiveByIndex DEF IInv, SafeInv, TypeOK, QueueIsLive
      <3>3. current # prev
        BY <2>2, <3>1, <3>2
      <3>4. /\ ~Eligible(current)
            /\ \E k \in 1..n : /\ queue[k] = prev
                               /\ \A j \in (k + 1)..n : ~Eligible(queue[j])
        BY <3>3 DEF IInv, ScanIsComplete, BlockedBehindPrev
      <3> HIDE DEF n
      <3>5. \A j \in 2..n : ~Eligible(queue[j])
        <4>1. PICK k \in 1..n : /\ queue[k] = prev
                                /\ \A j \in (k + 1)..n : ~Eligible(queue[j])
          BY <3>4
        <4>2. 1 \in 1..n
          BY <3>1
        <4>3. queue[1] = queue[k]
          BY <3>1, <4>1
        <4>4. k = 1
          BY <3>2, <4>1, <4>2, <4>3
        <4> QED BY <4>1, <4>4
      <3>6. CASE p = current
        BY <3>4, <3>6
      <3>7. CASE p # current
        <4>1. PICK j \in 1..n : queue[j] = p
          BY <2>2, <3>2, <3>7
        <4>2. j \in 2..n
          BY <3>1, <4>1
        <4> QED BY <3>5, <4>1, <4>2
      <3> QED BY <3>6, <3>7
    <2> QED BY <2>3, <2>4
  <1> QED BY <1>1, InvariantHolds, PTL DEF Spec, ExitFailsOnlyIfAlone

-----------------------------------------------------------------------------

(***************************************************************************)
(* Each step is at most one operation of the abstract run queue.           *)
(***************************************************************************)
LEMMA QueueSteps ==
    ASSUME SafeInv, [Next]_vars
    PROVE  \/ UNCHANGED <<queue, current>>
           \/ SwitchNext /\ queue # <<>>
           \/ \E p \in Pid : /\ p \notin Range(queue) \cup {current}
                             /\ queue' = Append(queue, p)
                             /\ current' = current
           \/ \E p \in Pid : /\ p \in Range(queue)
                             /\ queue' = RemoveFirst(queue, p)
                             /\ current' = current
  <1>1. CASE Scan
    BY <1>1 DEF Scan, ScanPast, ScanHalt, Dispatch, SwitchNext, runQueueVars
  <1>2. CASE Return
    <2>1. prev \in Pid
      BY DEF SafeInv, TypeOK
    <2>2. prev # current => prev \in Range(queue)
      BY DEF SafeInv, PrevIsLive, QueueIsLive
    <2> QED BY <1>2, <2>1, <2>2 DEF Return, ProcessDestroy
  <1>3. ASSUME NEW p \in Pid, ProcessCreate(p)
        PROVE  p \notin Range(queue) \cup {current} /\ queue' = Append(queue, p)
               /\ current' = current
    BY <1>3 DEF ProcessCreate, SafeInv, QueueIsLive, live
  <1>4. ASSUME NEW p \in Pid, Kill(p)
        PROVE  p \in Range(queue) /\ queue' = RemoveFirst(queue, p) /\ current' = current
    BY <1>4 DEF Kill, ProcessDestroy, SafeInv, QueueIsLive
  <1> QED BY <1>1, <1>2, <1>3, <1>4
          DEF Next, Resume, Timer, Keyboard, Exit, PageFault, Sleep, ReadLine, ReadBlocks,
              OpenStdin, LoseStdin, CloseStdin, runQueueVars, vars

(***************************************************************************)
(* The scheduler implements the FIFO run queue, processes that come and go *)
(* and blocking calls included.                                            *)
(***************************************************************************)
THEOREM SchedulerImplementsQueue == Spec => RefinesRunQueue
  <1>1. Init => RQ!Init
    <2>1. 1 \in Pid
      BY MaxPidAssumption DEF Pid
    <2> QED BY <2>1 DEF Init, RQ!Init
  <1>2. SafeInv /\ [Next]_vars => [RQ!Next]_<<queue, current>>
    <2> SUFFICES ASSUME SafeInv, [Next]_vars
                 PROVE  [RQ!Next]_<<queue, current>>
      OBVIOUS
    <2>1. RQ!Range(queue) = Range(queue)
      BY DEF Range, RQ!Range
    <2>2. \A p : RQ!RemoveFirst(queue, p) = RemoveFirst(queue, p)
      BY DEF RemoveFirst, RQ!RemoveFirst, SelectInSeq, RQ!SelectInSeq, RemoveAt, RQ!RemoveAt,
             Min, RQ!Min
    <2>3. current # NoPid
      BY DEF SafeInv, TypeOK, Pid, NoPid
    <2>4. SwitchNext /\ queue # <<>> => RQ!Switch
      BY <2>3 DEF SwitchNext, RQ!Switch
    <2>5. ASSUME NEW p \in Pid, p \notin Range(queue) \cup {current},
                 queue' = Append(queue, p), current' = current
          PROVE  RQ!Add(p)
      BY <2>1, <2>5 DEF RQ!Add
    <2>6. ASSUME NEW p \in Pid, p \in Range(queue),
                 queue' = RemoveFirst(queue, p), current' = current
          PROVE  RQ!Leave(p)
      BY <2>1, <2>2, <2>6 DEF RQ!Leave
    <2> QED BY <2>4, <2>5, <2>6, QueueSteps DEF RQ!Next
  <1> QED BY <1>1, <1>2, AlwaysSafe, PTL DEF Spec, RefinesRunQueue, RQ!Spec, RQ!vars

(* A process that is in the queue once has one position there. *)
LEMMA PositionIs ==
    ASSUME NEW q, NEW n \in Nat, NEW i \in 1..n, NEW p, q[i] = p,
           \A j, k \in 1..n : q[j] = q[k] => j = k
    PROVE  (CHOOSE j \in 1..n : q[j] = p) = i
  OBVIOUS

(***************************************************************************)
(* Round robin: whatever starts, ends, sleeps or wakes, a process in the   *)
(* queue only ever moves forward, and it does at every switch.             *)
(***************************************************************************)
THEOREM NobodyOvertaken == Spec => NoOvertaking
  <1>1. ASSUME SafeInv, SafeInv', [Next]_vars, NEW p \in Range(queue) \cap Range(queue')
        PROVE  /\ PositionOf(p)' <= PositionOf(p)
               /\ current' # current => PositionOf(p)' < PositionOf(p)
    <2> DEFINE n == Len(queue)
               m == Len(queue')
    <2>1. /\ n \in Nat /\ m \in Nat
          /\ queue \in Seq(Pid) /\ queue' \in Seq(Pid)
          /\ IsInjective(queue) /\ IsInjective(queue')
          /\ Range(queue) = {queue[i] : i \in 1..n}
          /\ Range(queue') = {queue'[i] : i \in 1..m}
          /\ \A j, k \in 1..n : queue[j] = queue[k] => j = k
          /\ \A j, k \in 1..m : queue'[j] = queue'[k] => j = k
      <3>1. queue \in Seq(Pid) /\ queue' \in Seq(Pid) /\ IsInjective(queue) /\ IsInjective(queue')
        BY <1>1 DEF SafeInv, TypeOK, QueueIsLive
      <3>2. n \in Nat /\ m \in Nat
        BY <3>1
      <3>3. Range(queue) = {queue[i] : i \in 1..n}
        BY <3>1, RangeByIndex
      <3>4. Range(queue') = {queue'[i] : i \in 1..m}
        BY <3>1, RangeByIndex
      <3>5. \A j, k \in 1..n : queue[j] = queue[k] => j = k
        BY <3>1, InjectiveByIndex
      <3>6. \A j, k \in 1..m : queue'[j] = queue'[k] => j = k
        BY <3>1, InjectiveByIndex
      <3> QED BY <3>1, <3>2, <3>3, <3>4, <3>5, <3>6
    <2>2. PICK i \in 1..n : queue[i] = p
      BY <1>1, <2>1
    <2>3. PositionOf(p) = i
      BY <2>1, <2>2, PositionIs DEF PositionOf
    <2>4. ASSUME NEW k \in 1..m, queue'[k] = p
          PROVE  PositionOf(p)' = k
      BY <2>1, <2>4, PositionIs DEF PositionOf
    <2>5. CASE UNCHANGED <<queue, current>>
      BY <2>2, <2>3, <2>4, <2>5
    <2>6. CASE SwitchNext /\ queue # <<>>
      <3>1. /\ m = n
            /\ \A k \in 1..n : queue'[k] = IF k < n THEN queue[k + 1] ELSE current
            /\ current' = queue[1]
        BY <1>1, <2>6, RotationByIndex DEF SafeInv
      <3>2. i # 1
        BY <1>1, <2>2, <3>1 DEF SafeInv, QueueIsLive
      <3>3. i - 1 \in 1..m /\ queue'[i - 1] = p
        BY <2>1, <2>2, <3>1, <3>2
      <3> QED BY <2>2, <2>3, <2>4, <3>3
    <2>7. CASE \E r \in Pid : queue' = Append(queue, r) /\ current' = current
      <3>1. i \in 1..m /\ queue'[i] = p
        BY <2>1, <2>2, <2>7
      <3> QED BY <2>2, <2>3, <2>4, <2>7, <3>1
    <2>8. ASSUME NEW r \in Range(queue), queue' = RemoveFirst(queue, r), current' = current
          PROVE  PositionOf(p)' <= PositionOf(p)
      <3>1. PICK k \in 1..n : queue[k] = r
        BY <2>1
      <3>2. queue' = RemoveAt(queue, k)
        BY <2>1, <2>8, <3>1, RemoveFirstIsRemoveAt
      <3>3. /\ m = n - 1
            /\ \A j \in 1..(n - 1) : queue'[j] = IF j < k THEN queue[j] ELSE queue[j + 1]
        <4>1. queue \in Seq(Pid)
          BY <2>1
        <4>2. /\ Len(RemoveAt(queue, k)) = Len(queue) - 1
              /\ \A j \in 1..(Len(queue) - 1) :
                     RemoveAt(queue, k)[j] = IF j < k THEN queue[j] ELSE queue[j + 1]
          BY <4>1, RemoveAtPosition
        <4> QED BY <3>2, <4>2
      <3>4. Range(queue') = Range(queue) \ {r}
        BY <2>1, <2>8, RemoveFromQueue
      <3>5. i # k
        BY <1>1, <2>2, <3>1, <3>4
      <3>6. CASE i < k
        <4>1. i \in 1..m /\ queue'[i] = p
          BY <2>1, <2>2, <3>3, <3>6
        <4> QED BY <2>2, <2>3, <2>4, <4>1
      <3>7. CASE i > k
        <4>1. i - 1 \in 1..m /\ queue'[i - 1] = p
          BY <2>1, <2>2, <3>3, <3>7
        <4> QED BY <2>2, <2>3, <2>4, <4>1
      <3> QED BY <3>5, <3>6, <3>7
    <2> QED BY <1>1, <2>5, <2>6, <2>7, <2>8, QueueSteps
  <1>2. SafeInv /\ SafeInv' /\ [Next]_vars =>
          [\A p \in Range(queue) \cap Range(queue') :
               /\ PositionOf(p)' <= PositionOf(p)
               /\ current' # current => PositionOf(p)' < PositionOf(p)]_vars
    BY <1>1
  <1> QED BY <1>2, AlwaysSafe, PTL DEF Spec, NoOvertaking

-----------------------------------------------------------------------------
(* Page frames stay isolated and counted, for any number of frames and     *)
(* processes: the two operations of paging.c keep the records of the page  *)
(* manager and the page directories in agreement.                          *)

FrameInv == /\ PagingTypeOK
            /\ FramesIsolated
            /\ CounterCountsKernel

LEMMA FramesAreFinite ==
    /\ IsFiniteSet(Frame)
    /\ IsFiniteSet(FreeFrames)
    /\ Cardinality(FreeFrames) \in Nat
    /\ IsFiniteSet(Pid)
  <1>1. 0 \in Int /\ FrameCount - 1 \in Int
    BY FrameCountAssumption
  <1>2. IsFiniteSet(Frame)
    BY <1>1, FS_Interval, Zenon DEF Frame
  <1>3. FreeFrames \in SUBSET Frame
    BY DEF FreeFrames
  <1>4. IsFiniteSet(FreeFrames)
    BY <1>2, <1>3, FS_Subset
  <1>5. 1 \in Int /\ MaxPid \in Int
    BY MaxPidAssumption
  <1>6. IsFiniteSet(Pid)
    BY <1>5, FS_Interval, Zenon DEF Pid
  <1> QED BY <1>2, <1>4, <1>6, FS_CardinalityType

LEMMA KernelFrameCount == Cardinality(KernelFrames) = 2
  <1>1. KernelFrames = 0..1
    BY DEF KernelFrames
  <1>2. Cardinality(0..1) = IF 0 > 1 THEN 0 ELSE 1 - 0 + 1
    <2>1. 0 \in Int /\ 1 \in Int
      OBVIOUS
    <2> QED BY <2>1, FS_Interval, Zenon
  <1> QED BY <1>1, <1>2

(* The frames after the first process started. *)
LEMMA PagingInitFrames ==
    ASSUME NEW first \in Pid, PagingInit(first)
    PROVE  FrameInv
  <1> USE DEF PagingInit
  <1>1. 2 \in Frame /\ 0 \in Frame /\ 1 \in Frame /\ NoFrame \notin Frame /\ first # NoPid
    BY FrameCountAssumption, MaxPidAssumption DEF Frame, NoFrame, Pid, NoPid
  <1>2. PagingTypeOK
    BY <1>1, FrameCountAssumption DEF PagingTypeOK
  <1>3. FramesIsolated
    <2>1. \A p \in Pid : p # NoPid
      BY DEF Pid, NoPid
    <2>2. KernelFrames \subseteq Frame /\ 2 \notin KernelFrames
      BY <1>1 DEF KernelFrames
    <2>3. \A f \in Frame : mapped_dir[f] = IF f = 2 THEN first ELSE NoPid
      OBVIOUS
    <2>4. \A d \in Pid : entry[d] = IF d = first THEN 2 ELSE NoFrame
      OBVIOUS
    <2>5. \A f \in Frame, d \in Pid : mapped_dir[f] = d <=> entry[d] = f
      BY <1>1, <2>1, <2>3, <2>4
    <2>6. \A f \in Frame : mapped[f] <=> f \in KernelFrames \/ mapped_dir[f] # NoPid
      BY <1>1, <2>2, <2>3
    <2>7. \A d \in Pid : d \in directories <=> entry[d] # NoFrame
      BY <1>1, <2>4
    <2> QED BY <2>2, <2>3, <2>5, <2>6, <2>7 DEF FramesIsolated
  <1>4. CounterCountsKernel
    <2>1. FreeFrames = 3..(FrameCount - 1)
      <3>1. \A f \in Frame : ~mapped[f] <=> f \notin {0, 1, 2}
        BY DEF KernelFrames
      <3>2. \A f : f \in 3..(FrameCount - 1) <=> f \in Frame /\ f \notin {0, 1, 2}
        BY FrameCountAssumption DEF Frame
      <3> QED BY <3>1, <3>2 DEF FreeFrames
    <2>2. 3 \in Int /\ FrameCount - 1 \in Int
      BY FrameCountAssumption
    <2>3. Cardinality(3..(FrameCount - 1)) =
              IF 3 > FrameCount - 1 THEN 0 ELSE (FrameCount - 1) - 3 + 1
      BY <2>2, FS_Interval, Zenon
    <2> QED BY <2>1, <2>3, KernelFrameCount, FrameCountAssumption DEF CounterCountsKernel
  <1> QED BY <1>2, <1>3, <1>4 DEF FrameInv

(***************************************************************************)
(* A new process gets a frame that nobody else has.                        *)
(***************************************************************************)
LEMMA AllocateKeepsFrames ==
    ASSUME FrameInv, NEW d \in Pid, d \notin directories, AllocateUserFrame(d), cr3' \in Pid
    PROVE  FrameInv'
  <1> USE DEF FrameInv
  <1>1. PICK f \in Frame : /\ IsFirstFree(f)
                           /\ mapped' = [mapped EXCEPT ![f] = TRUE]
                           /\ mapped_dir' = [mapped_dir EXCEPT ![f] = d]
                           /\ entry' = [entry EXCEPT ![d] = f]
    BY DEF AllocateUserFrame
  <1>2. f \in FreeFrames /\ ~mapped[f] /\ mapped_dir[f] = NoPid /\ f \notin KernelFrames
    BY <1>1 DEF IsFirstFree, FreeFrames, FramesIsolated
  <1>3. entry[d] = NoFrame /\ NoFrame \notin Frame /\ NoPid \notin Pid
    BY DEF FramesIsolated, Frame, NoFrame, Pid, NoPid
  <1>4. PagingTypeOK'
    BY <1>1 DEF PagingTypeOK, AllocateUserFrame
  <1>5. FramesIsolated'
    <2>1. \A g \in Frame, e \in Pid : mapped_dir'[g] = e <=> entry'[e] = g
      BY <1>1, <1>2, <1>3 DEF FramesIsolated, PagingTypeOK
    <2>2. \A g \in Frame : mapped'[g] <=> g \in KernelFrames \/ mapped_dir'[g] # NoPid
      BY <1>1, <1>2, <1>3 DEF FramesIsolated, PagingTypeOK
    <2>3. \A g \in KernelFrames \cap Frame : mapped_dir'[g] = NoPid
      BY <1>1, <1>2 DEF FramesIsolated, PagingTypeOK
    <2>4. KernelFrames \subseteq Frame
      BY FrameCountAssumption DEF KernelFrames, Frame
    <2>5. \A e \in Pid : e \in directories' <=> entry'[e] # NoFrame
      BY <1>1, <1>3 DEF FramesIsolated, PagingTypeOK, AllocateUserFrame
    <2> QED BY <2>1, <2>2, <2>3, <2>4, <2>5 DEF FramesIsolated
  <1>6. CounterCountsKernel'
    <2>1. FreeFrames' = FreeFrames \ {f}
      BY <1>1 DEF FreeFrames, PagingTypeOK
    <2>2. Cardinality(FreeFrames \ {f}) = Cardinality(FreeFrames) - 1
      BY <1>2, FramesAreFinite, FS_RemoveElement
    <2> QED BY <2>1, <2>2, FramesAreFinite, KernelFrameCount
            DEF CounterCountsKernel, AllocateUserFrame
  <1> QED BY <1>4, <1>5, <1>6

(***************************************************************************)
(* A freed page directory gives back exactly the frame it mapped.          *)
(***************************************************************************)
LEMMA FreeKeepsFrames ==
    ASSUME FrameInv, NEW d \in directories, FreePageDirectory(d), cr3' \in Pid
    PROVE  FrameInv'
  <1> USE DEF FrameInv
  <1>1. d \in Pid /\ entry[d] # NoFrame /\ entry[d] \in Frame /\ mapped_dir[entry[d]] = d
    BY DEF FramesIsolated, PagingTypeOK
  <1>2. PICK f \in Frame : /\ IsFrameOf(f, d)
                           /\ mapped' = [mapped EXCEPT ![f] = FALSE]
                           /\ mapped_dir' = [mapped_dir EXCEPT ![f] = NoPid]
    BY <1>1 DEF FreePageDirectory
  <1>3. /\ free_page_frame_count' = free_page_frame_count + 1
        /\ entry' = [entry EXCEPT ![d] = NoFrame]
        /\ directories' = directories \ {d}
    BY <1>1 DEF FreePageDirectory
  <1>4. mapped_dir[f] = d /\ entry[d] = f /\ mapped[f] /\ f \notin KernelFrames
    BY <1>1, <1>2 DEF IsFrameOf, FramesIsolated, Pid, NoPid
  <1>5. NoFrame \notin Frame /\ NoPid \notin Pid
    BY DEF Frame, NoFrame, Pid, NoPid
  <1>6. PagingTypeOK'
    BY <1>1, <1>2, <1>3 DEF PagingTypeOK
  <1>7. FramesIsolated'
    <2>1. \A g \in Frame, e \in Pid : mapped_dir'[g] = e <=> entry'[e] = g
      BY <1>2, <1>3, <1>4, <1>5 DEF FramesIsolated, PagingTypeOK
    <2>2. \A g \in Frame : mapped'[g] <=> g \in KernelFrames \/ mapped_dir'[g] # NoPid
      BY <1>2, <1>4, <1>5 DEF FramesIsolated, PagingTypeOK
    <2>3. \A g \in KernelFrames \cap Frame : mapped_dir'[g] = NoPid
      BY <1>2, <1>4 DEF FramesIsolated, PagingTypeOK
    <2>4. KernelFrames \subseteq Frame
      BY FrameCountAssumption DEF KernelFrames, Frame
    <2>5. \A e \in Pid : e \in directories' <=> entry'[e] # NoFrame
      BY <1>1, <1>3 DEF FramesIsolated, PagingTypeOK
    <2> QED BY <2>1, <2>2, <2>3, <2>4, <2>5 DEF FramesIsolated
  <1>8. CounterCountsKernel'
    <2>1. FreeFrames' = FreeFrames \cup {f}
      BY <1>2 DEF FreeFrames, PagingTypeOK
    <2>2. f \notin FreeFrames
      BY <1>4 DEF FreeFrames
    <2>3. Cardinality(FreeFrames \cup {f}) = Cardinality(FreeFrames) + 1
      BY <2>2, FramesAreFinite, FS_AddElement
    <2> QED BY <1>3, <2>1, <2>3, FramesAreFinite, KernelFrameCount DEF CounterCountsKernel
  <1> QED BY <1>6, <1>7, <1>8

-----------------------------------------------------------------------------
(* The kernel.                                                             *)

(* Every handler of the kernel is a handler of the scheduler. *)
LEMMA KernelStep == [KernelNext]_kernelVars => [Next]_vars
  <1> SUFFICES ASSUME [KernelNext]_kernelVars PROVE [Next]_vars
    OBVIOUS
  <1>1. CASE KernelNext
    BY <1>1 DEF KernelNext, KernelScanPast, KernelScanHalt, KernelDispatch, KernelResume,
                KernelReturn, KernelTimer, KernelKeyboard, Exec, KernelKill, ExecFails,
                KillSelfFails, KernelExit, KernelPageFault, KernelSleep, KernelReadLine,
                KernelReadBlocks, KernelOpenStdin, KernelLoseStdin, KernelCloseStdin, Next, Scan
  <1>2. CASE UNCHANGED kernelVars
    BY <1>2 DEF kernelVars
  <1> QED BY <1>1, <1>2

(***************************************************************************)
(* Memory and registers take nothing away from the scheduler and give it   *)
(* no new step: all its theorems hold of the kernel.                       *)
(***************************************************************************)
THEOREM KernelImplementsScheduler == KernelSpec => Spec
  <1>1. KernelInit => Init
    BY DEF KernelInit
  <1> QED BY <1>1, KernelStep, PTL DEF KernelSpec, Spec

-----------------------------------------------------------------------------

(* The part of the invariant that is about memory. *)
MemoryInv == /\ SafeInv
             /\ FrameInv
             /\ MemoryIsLive
             /\ ActiveDirectory

(* What a step may do to the processes and to their memory. *)
Kept == /\ live' = live
        /\ UNCHANGED <<frameVars, directories, entry, active_process_count>>

Created(p) == /\ p \notin live
              /\ live' = live \cup {p}
              /\ AllocateUserFrame(p)
              /\ active_process_count' = active_process_count + 1

Destroyed(p) == /\ p \in live
                /\ live' = live \ {p}
                /\ FreePageDirectory(p)
                /\ active_process_count' = active_process_count - 1

(* Life and memory go together in every handler. *)
LEMMA MemorySteps ==
    ASSUME SafeInv, KernelNext
    PROVE  Kept \/ \E p \in Pid : Created(p) \/ Destroyed(p)
  <1> USE DEF KeepMemory, pagingVars, frameVars
  <1>1. ASSUME NEW p \in Pid, Exec(p)
        PROVE  Created(p)
    BY <1>1 DEF Exec, ProcessCreate, Created, live, SafeInv, TypeOK
  <1>2. ASSUME NEW p \in live, ProcessDestroy(p)
        PROVE  live' = live \ {p}
    BY <1>2 DEF ProcessDestroy, live, SafeInv, TypeOK
  <1>3. ASSUME NEW p \in Pid, KernelKill(p)
        PROVE  Destroyed(p)
    BY <1>2, <1>3 DEF KernelKill, Kill, ReleaseMemory, Destroyed
  <1>4. CASE KernelReturn
    <2>1. CASE cause \in {"exit", "fault"} /\ current # prev
      <3>1. prev \in live /\ prev \in Pid
        BY DEF SafeInv, PrevIsLive, TypeOK
      <3>2. ProcessDestroy(prev) /\ ReleaseMemory(prev)
        BY <1>4, <2>1 DEF KernelReturn, Return
      <3> QED BY <1>2, <3>1, <3>2 DEF ReleaseMemory, Destroyed
    <2>2. CASE ~ (cause \in {"exit", "fault"} /\ current # prev)
      BY <1>4, <2>2 DEF KernelReturn, Return, Kept, live
    <2> QED BY <2>1, <2>2
  <1>5. CASE KernelDispatch
    <2>1. live' = live
      <3>1. current' \in Pid /\ current' \in live
        BY <1>5, RotationKeepsProcesses DEF KernelDispatch, Dispatch, SafeInv, QueueIsLive, live
      <3> QED BY <1>5, <3>1 DEF KernelDispatch, Dispatch, live, SafeInv, TypeOK
    <2> QED BY <1>5, <2>1 DEF KernelDispatch, Kept
  <1>6. ASSUME UNCHANGED state, KeepMemory
        PROVE  Kept
    BY <1>6 DEF Kept, live
  <1>7. CASE KernelTimer \/ KernelExit \/ KernelPageFault
    <2>1. live' = live
      BY <1>7 DEF KernelTimer, Timer, KernelExit, Exit, KernelPageFault, PageFault, Preempt, live,
                  SafeInv, TypeOK, QueueIsLive
    <2> QED BY <1>7, <2>1 DEF KernelTimer, KernelExit, KernelPageFault, Kept
  <1>8. CASE KernelReadBlocks \/ \E seconds \in 0..MaxSecond : KernelSleep(seconds)
    <2>1. live' = live
      BY <1>8 DEF KernelReadBlocks, ReadBlocks, KernelSleep, Sleep, HaltCurrent, live,
                  SafeInv, TypeOK, QueueIsLive
    <2> QED BY <1>8, <2>1 DEF KernelReadBlocks, KernelSleep, Kept
  <1>9. CASE ExecFails \/ KillSelfFails
    BY <1>6, <1>9 DEF ExecFails, KillSelfFails, vars
  <1> QED BY <1>1, <1>3, <1>4, <1>5, <1>6, <1>7, <1>8, <1>9
          DEF KernelNext, KernelScanPast, ScanPast, KernelScanHalt, ScanHalt, KernelResume, Resume,
              KernelKeyboard, Keyboard, KernelReadLine, ReadLine, KernelOpenStdin, OpenStdin,
              KernelLoseStdin, LoseStdin, KernelCloseStdin, CloseStdin

(* CR3 follows the process that the CPU executes. *)
LEMMA DirectoryFollows ==
    ASSUME SafeInv, SafeInv', KernelNext,
           cr3 = IF mode = "scan" THEN prev ELSE current
    PROVE  cr3' = IF mode' = "scan" THEN prev' ELSE current'
  <1>1. CASE KernelDispatch
    BY <1>1 DEF KernelDispatch, Dispatch, UsePageDirectory
  <1>2. CASE KernelScanPast \/ KernelScanHalt \/ KernelResume
    BY <1>2 DEF KernelScanPast, ScanPast, KernelScanHalt, ScanHalt, KernelResume, Resume, KeepMemory,
                pagingVars, scanVars, runQueueVars, SafeInv, NoNestedScan
  <1>3. CASE KernelReturn
    BY <1>3 DEF KernelReturn, Return, ReleaseMemory, KeepMemory, pagingVars
  <1>4. CASE \E p \in Pid : Exec(p) \/ KernelKill(p)
    BY <1>4 DEF Exec, ProcessCreate, UsePageDirectory, KernelKill, Kill, ReleaseMemory, scanVars
  <1>5. ASSUME current' = current, mode # "scan", mode' = "scan" => prev' = current, KeepMemory
        PROVE  cr3' = IF mode' = "scan" THEN prev' ELSE current'
    BY <1>5 DEF KeepMemory, pagingVars
  <1>6. CASE KernelTimer \/ KernelExit \/ KernelPageFault
    BY <1>5, <1>6 DEF KernelTimer, Timer, InterruptsEnabled, KernelExit, Exit, KernelPageFault,
                      PageFault, Preempt, BeginScan, runQueueVars
  <1>7. CASE KernelReadBlocks \/ \E seconds \in 0..MaxSecond : KernelSleep(seconds)
    BY <1>5, <1>7 DEF KernelReadBlocks, ReadBlocks, KernelSleep, Sleep, HaltCurrent, BeginScan,
                      runQueueVars
  <1>8. CASE ExecFails \/ KillSelfFails
    BY <1>5, <1>8 DEF ExecFails, KillSelfFails, vars
  <1>9. CASE KernelKeyboard \/ KernelReadLine \/ KernelOpenStdin \/ KernelLoseStdin \/ KernelCloseStdin
    BY <1>5, <1>9 DEF KernelKeyboard, Keyboard, InterruptsEnabled, KernelReadLine, ReadLine,
                      KernelOpenStdin, OpenStdin, KernelLoseStdin, LoseStdin,
                      KernelCloseStdin, CloseStdin, runQueueVars
  <1> QED BY <1>1, <1>2, <1>3, <1>4, <1>6, <1>7, <1>8, <1>9 DEF KernelNext

LEMMA InitMemory == KernelInit => MemoryInv
  <1> SUFFICES ASSUME KernelInit PROVE MemoryInv
    OBVIOUS
  <1>1. 1 \in Pid
    BY MaxPidAssumption DEF Pid
  <1>2. FrameInv
    BY <1>1, PagingInitFrames DEF KernelInit
  <1>3. live = {1}
    BY <1>1 DEF KernelInit, Init, live
  <1>4. MemoryIsLive
    BY <1>3, FS_Singleton DEF KernelInit, PagingInit, MemoryIsLive
  <1>5. ActiveDirectory
    BY DEF KernelInit, Init, PagingInit, ActiveDirectory
  <1> QED BY <1>2, <1>4, <1>5, InitSafe DEF MemoryInv, KernelInit

LEMMA StepMemory == MemoryInv /\ [KernelNext]_kernelVars => MemoryInv'
  <1> SUFFICES ASSUME MemoryInv, [KernelNext]_kernelVars PROVE MemoryInv'
    OBVIOUS
  <1> USE DEF MemoryInv
  <1>1. SafeInv'
    BY KernelStep, StepSafe
  <1>2. CASE UNCHANGED kernelVars
    <2>1. FrameInv'
      BY <1>2 DEF kernelVars, pagingVars, FrameInv, PagingTypeOK, FramesIsolated,
                  CounterCountsKernel, FreeFrames
    <2>2. MemoryIsLive' /\ ActiveDirectory'
      BY <1>2 DEF kernelVars, vars, pagingVars, MemoryIsLive, ActiveDirectory, live
    <2> QED BY <1>1, <2>1, <2>2
  <1>3. CASE KernelNext
    <2>1. cr3' = IF mode' = "scan" THEN prev' ELSE current'
      BY <1>1, <1>3, DirectoryFollows DEF ActiveDirectory
    <2>2. cr3' \in live' /\ cr3' \in Pid
      BY <1>1, <2>1 DEF SafeInv, PrevIsLive, QueueIsLive, TypeOK
    <2>3. IsFiniteSet(live)
      BY FramesAreFinite, FS_Subset DEF live
    <2>4. CASE Kept
      <3>1. FrameInv'
        BY <2>2, <2>4 DEF Kept, frameVars, FrameInv, PagingTypeOK, FramesIsolated,
                          CounterCountsKernel, FreeFrames
      <3>2. MemoryIsLive'
        BY <2>4 DEF Kept, MemoryIsLive
      <3> QED BY <1>1, <2>1, <2>2, <3>1, <3>2 DEF ActiveDirectory, MemoryIsLive
    <2>5. ASSUME NEW p \in Pid, Created(p)
          PROVE  MemoryInv'
      <3>1. FrameInv'
        BY <2>2, <2>5, AllocateKeepsFrames DEF Created, MemoryIsLive
      <3>2. Cardinality(live \cup {p}) = Cardinality(live) + 1
        BY <2>3, <2>5, FS_AddElement DEF Created
      <3>3. MemoryIsLive'
        BY <2>5, <3>2 DEF Created, MemoryIsLive, AllocateUserFrame
      <3> QED BY <1>1, <2>1, <2>2, <3>1, <3>3 DEF ActiveDirectory, MemoryIsLive
    <2>6. ASSUME NEW p \in Pid, Destroyed(p)
          PROVE  MemoryInv'
      <3>1. FrameInv'
        BY <2>2, <2>6, FreeKeepsFrames DEF Destroyed, MemoryIsLive
      <3>2. Cardinality(live \ {p}) = Cardinality(live) - 1
        BY <2>3, <2>6, FS_RemoveElement DEF Destroyed
      <3>3. MemoryIsLive'
        BY <2>6, <3>2 DEF Destroyed, MemoryIsLive, FreePageDirectory
      <3> QED BY <1>1, <2>1, <2>2, <3>1, <3>3 DEF ActiveDirectory, MemoryIsLive
    <2> QED BY <1>3, <2>4, <2>5, <2>6, MemorySteps
  <1> QED BY <1>2, <1>3

LEMMA MemoryHolds == KernelSpec => []MemoryInv
  BY InitMemory, StepMemory, PTL DEF KernelSpec

-----------------------------------------------------------------------------

(***************************************************************************)
(* The part of the invariant that is about registers: a process that is    *)
(* owed its own registers has them saved, and it has them in eax when it   *)
(* is dispatched; only a process that is owed a result waits for a line.   *)
(***************************************************************************)
RegisterInv ==
    /\ eax \in Value
    /\ saved \in [Pid -> {"own", "number"}]
    /\ owed \in [Pid -> {"own", "result", "anything"}]
    /\ syscall_return_value_flag \in BOOLEAN
    /\ \A p \in Pid : owed[p] = "own" => saved[p] = "own"
    /\ \A p \in Pid : notifier[p].kind = "line" => owed[p] = "result"
    /\ mode = "return" /\ owed[current] = "own" => eax = "own"

LEMMA InitRegisters == KernelInit => RegisterInv
  <1> SUFFICES ASSUME KernelInit PROVE RegisterInv
    OBVIOUS
  <1>1. saved = [p \in Pid |-> "own"] /\ owed = [p \in Pid |-> "own"] /\ eax = "own"
        /\ syscall_return_value_flag = FALSE
    BY DEF KernelInit
  <1>2. \A p \in Pid : notifier[p].kind = "none"
    BY DEF KernelInit, Init, NoNotifier
  <1> QED BY <1>1, <1>2 DEF RegisterInv, Value

LEMMA StepRegisters == SafeInv /\ RegisterInv /\ [KernelNext]_kernelVars => RegisterInv'
  <1> SUFFICES ASSUME SafeInv, RegisterInv, [KernelNext]_kernelVars
               PROVE  RegisterInv'
    OBVIOUS
  <1> USE DEF RegisterInv, Value
  <1>1. current \in Pid /\ state \in [Pid -> ProcessState] /\ notifier \in [Pid -> Notifier]
    BY DEF SafeInv, TypeOK
  <1>2. \A p \in Pid : state[p] = "Waiting" <=> notifier[p].kind # "none"
    BY DEF SafeInv, StatesAgree
  <1>3. CASE KernelDispatch
    <2>1. current' \in Pid
      BY <1>3, RotationKeepsProcesses DEF KernelDispatch, Dispatch, SafeInv
    <2>2. /\ notifier' = [notifier EXCEPT ![current'] = NoNotifier]
          /\ NoNotifier.kind = "none"
          /\ UNCHANGED <<saved, owed>>
      BY <1>3 DEF KernelDispatch, Dispatch, NoNotifier
    <2>3. notifier[current'].kind # "line" => eax' = saved[current']
      BY <1>3 DEF KernelDispatch
    <2>4. eax' \in Value /\ syscall_return_value_flag' \in BOOLEAN
      BY <1>3, <2>1 DEF KernelDispatch
    <2> QED BY <1>1, <2>1, <2>2, <2>3, <2>4
  <1>4. CASE KernelReturn
    <2>1. mode' = "user" /\ UNCHANGED <<saved, owed>>
      BY <1>4 DEF KernelReturn, Return
    <2>2. \A p \in Pid : notifier'[p].kind = "line" => notifier[p].kind = "line"
      <3>1. prev \in Pid /\ NoNotifier.kind = "none"
        BY DEF SafeInv, TypeOK, NoNotifier
      <3> QED BY <1>1, <1>4, <3>1 DEF KernelReturn, Return, ProcessDestroy
    <2>3. eax' \in Value /\ syscall_return_value_flag' \in BOOLEAN
      BY <1>4 DEF KernelReturn
    <2> QED BY <2>1, <2>2, <2>3
  <1>5. ASSUME NEW p \in Pid, Exec(p)
        PROVE  RegisterInv'
    <2>1. p # current /\ notifier[p].kind = "none" /\ mode' = "user" /\ UNCHANGED notifier
      BY <1>2, <1>5 DEF Exec, ProcessCreate, SafeInv, QueueIsLive, live
    <2>2. /\ eax' = "result" /\ syscall_return_value_flag' = TRUE
          /\ saved' = [saved EXCEPT ![p] = "own"]
          /\ owed' = [owed EXCEPT ![p] = "anything", ![current] = "result"]
      BY <1>5 DEF Exec, EnterSyscall
    <2> QED BY <1>1, <2>1, <2>2
  <1>6. ASSUME ImmediateSyscall, mode' = "user",
               \A p \in Pid : notifier'[p].kind = "line" => notifier[p].kind = "line"
        PROVE  RegisterInv'
    BY <1>1, <1>6 DEF ImmediateSyscall, EnterSyscall
  <1>7. ASSUME NEW p \in Pid, KernelKill(p)
        PROVE  RegisterInv'
    <2>1. NoNotifier.kind = "none"
      BY DEF NoNotifier
    <2> QED BY <1>1, <1>6, <1>7, <2>1 DEF KernelKill, Kill, ProcessDestroy
  <1>8. CASE ExecFails \/ KillSelfFails
    BY <1>6, <1>8 DEF ExecFails, KillSelfFails, vars
  <1>9. CASE KernelReadLine \/ KernelOpenStdin \/ KernelLoseStdin \/ KernelCloseStdin
    BY <1>6, <1>9 DEF KernelReadLine, ReadLine, KernelOpenStdin, OpenStdin,
                      KernelLoseStdin, LoseStdin, KernelCloseStdin, CloseStdin
  <1>10. CASE KernelExit \/ KernelPageFault
    <2>1. mode' = "scan" /\ UNCHANGED notifier /\ notifier[current].kind = "none"
      BY <1>1, <1>2, <1>10 DEF KernelExit, Exit, KernelPageFault, PageFault, Preempt, BeginScan
    <2>2. eax' = eax /\ syscall_return_value_flag' \in BOOLEAN
      BY <1>10 DEF KernelExit, KernelPageFault, EnterSyscall
    <2>3. SaveFrame("number", "result") \/ SaveFrame("own", "own")
      BY <1>10 DEF KernelExit, KernelPageFault
    <2> QED BY <1>1, <2>1, <2>2, <2>3 DEF SaveFrame
  <1>11. CASE KernelTimer
    <2>1. mode' # "return" /\ UNCHANGED <<notifier, eax, syscall_return_value_flag>>
      BY <1>11 DEF KernelTimer, Timer, Preempt, BeginScan
    <2>2. state[current] # "Waiting" => notifier[current].kind = "none"
      BY <1>1, <1>2
    <2> QED BY <1>1, <1>11, <2>1, <2>2 DEF KernelTimer, SaveFrame
  <1>12. ASSUME NEW seconds \in 0..MaxSecond, KernelSleep(seconds)
         PROVE  RegisterInv'
    <2>1. /\ mode' = "scan"
          /\ notifier' = [notifier EXCEPT ![current] = SleepUntil(second_elapsed + seconds)]
          /\ SleepUntil(second_elapsed + seconds).kind = "sleep"
      BY <1>12 DEF KernelSleep, Sleep, HaltCurrent, BeginScan, SleepUntil
    <2>2. SaveFrame("number", "anything") /\ eax' = eax /\ syscall_return_value_flag' = TRUE
      BY <1>12 DEF KernelSleep, EnterSyscall
    <2> QED BY <1>1, <2>1, <2>2 DEF SaveFrame
  <1>13. CASE KernelReadBlocks
    <2>1. mode' = "scan" /\ notifier' = [notifier EXCEPT ![current] = UntilLine]
      BY <1>13 DEF KernelReadBlocks, ReadBlocks, HaltCurrent, BeginScan
    <2>2. SaveFrame("number", "result") /\ eax' = eax /\ syscall_return_value_flag' = TRUE
      BY <1>13 DEF KernelReadBlocks, EnterSyscall
    <2> QED BY <1>1, <2>1, <2>2 DEF SaveFrame
  <1>14. CASE KernelScanPast \/ KernelScanHalt \/ KernelResume \/ KernelKeyboard
    <2>1. mode' # "return" /\ UNCHANGED <<notifier, registerVars>>
      BY <1>14 DEF KernelScanPast, ScanPast, KernelScanHalt, ScanHalt, KernelResume, Resume,
                   KernelKeyboard, Keyboard, NoSwitch
    <2> QED BY <2>1 DEF registerVars
  <1>15. CASE UNCHANGED kernelVars
    BY <1>15 DEF kernelVars, vars, registerVars
  <1> QED BY <1>3, <1>4, <1>5, <1>7, <1>8, <1>9, <1>10, <1>11, <1>12, <1>13, <1>14, <1>15
          DEF KernelNext

LEMMA RegistersHold == KernelSpec => []RegisterInv
  BY InitRegisters, StepRegisters, MemoryHolds, PTL DEF KernelSpec, MemoryInv

-----------------------------------------------------------------------------

(***************************************************************************)
(* Every variable keeps its type; in particular the two unsigned counters  *)
(* of the C code, free_page_frame_count and active_process_count, are      *)
(* never decremented below zero.                                           *)
(***************************************************************************)
THEOREM KernelAlwaysTyped == KernelSpec => []KernelTypeOK
  <1>1. MemoryInv /\ RegisterInv => KernelTypeOK
    <2> SUFFICES ASSUME MemoryInv, RegisterInv PROVE KernelTypeOK
      OBVIOUS
    <2>1. IsFiniteSet(live)
      BY FramesAreFinite, FS_Subset DEF live
    <2>2. active_process_count \in Nat
      BY <2>1, FS_CardinalityType DEF MemoryInv, MemoryIsLive
    <2> QED BY <2>2 DEF MemoryInv, SafeInv, FrameInv, RegisterInv, KernelTypeOK
  <1> QED BY <1>1, MemoryHolds, RegistersHold, PTL

(***************************************************************************)
(* No frame is mapped by two processes or by a process and the kernel, and *)
(* none is lost when processes exit, fault or are killed.                  *)
(***************************************************************************)
THEOREM MemoryIsIsolated == KernelSpec => []FramesIsolated
  BY MemoryHolds, PTL DEF MemoryInv, FrameInv

(***************************************************************************)
(* free_page_frame_count differs from the number of free frames by the two *)
(* kernel frames for ever: EXEC passes paging_allocate_check too easily,   *)
(* but the error never grows.                                              *)
(***************************************************************************)
THEOREM CounterErrorIsConstant == KernelSpec => []CounterCountsKernel
  BY MemoryHolds, PTL DEF MemoryInv, FrameInv

(***************************************************************************)
(* Page directories exist for the live processes and no other, and         *)
(* active_process_count is their number.                                   *)
(***************************************************************************)
THEOREM MemoryFollowsLife == KernelSpec => []MemoryIsLive
  BY MemoryHolds, PTL DEF MemoryInv

(***************************************************************************)
(* CR3 is never a freed page directory, even while a process is destroyed  *)
(* by the handler that it called itself.                                   *)
(***************************************************************************)
THEOREM DirectoryNeverDangles == KernelSpec => []ActiveDirectory
  BY MemoryHolds, PTL DEF MemoryInv

(***************************************************************************)
(* A process that was preempted gets its registers back when the scan that *)
(* chose it was started by a timer interrupt, a SLEEP or a page fault.     *)
(***************************************************************************)
THEOREM PreemptionRestores == KernelSpec => PreemptionIsTransparent
  <1>1. RegisterInv /\ [KernelNext]_kernelVars =>
          [mode = "return" /\ cause \in {"timer", "sleep", "fault"} /\ owed[current] = "own"
             => eax' = "own"]_kernelVars
    <2> SUFFICES ASSUME RegisterInv, KernelNext, mode = "return",
                        cause \in {"timer", "sleep", "fault"}, owed[current] = "own"
                 PROVE  eax' = "own"
      OBVIOUS
    <2>1. KernelReturn
      BY DEF KernelNext, KernelScanPast, ScanPast, KernelScanHalt, ScanHalt, KernelDispatch, Dispatch,
             KernelResume, Resume, KernelTimer, Timer, InterruptsEnabled, KernelKeyboard, Keyboard,
             Exec, ProcessCreate, KernelKill, Kill, ExecFails, KillSelfFails, KernelExit, Exit,
             KernelPageFault, PageFault, KernelSleep, Sleep, KernelReadLine, ReadLine,
             KernelReadBlocks, ReadBlocks, KernelOpenStdin, OpenStdin,
             KernelLoseStdin, LoseStdin, KernelCloseStdin, CloseStdin
    <2>2. eax = "own"
      BY DEF RegisterInv
    <2> QED BY <2>1, <2>2 DEF KernelReturn
  <1> QED BY <1>1, RegistersHold, PTL DEF KernelSpec, PreemptionIsTransparent
=============================================================================
