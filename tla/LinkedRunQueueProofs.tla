------------------------ MODULE LinkedRunQueueProofs ------------------------
(***************************************************************************)
(* The pointer manipulations of scheduler.c are correct for any number of  *)
(* processes: the list always spells the waiting line, no node is leaked,  *)
(* and the list implements the FIFO queue of RunQueue.                     *)
(***************************************************************************)
EXTENDS LinkedRunQueue, ProofLemmas

(* The invariants of the run are inductive together. *)
IInv == /\ TypeOK
        /\ ListIsQueue
        /\ NodesAccounted

(* ListIsQueue, field by field of the node at each position. *)
Spells(q, f, b, nx, pv) ==
    /\ f = IF q = <<>> THEN None ELSE q[1]
    /\ b = IF q = <<>> THEN None ELSE q[Len(q)]
    /\ \A i \in 1..Len(q) : /\ nx[q[i]] = IF i = Len(q) THEN None ELSE q[i + 1]
                            /\ pv[q[i]] = IF i = 1 THEN None ELSE q[i - 1]

LEMMA SpellsIfListIsQueue ==
    ASSUME TypeOK, ListIsQueue
    PROVE  Spells(queue, front, back, next, prev)
  <1>1. Len(queue) \in Nat /\ (queue = <<>> <=> Len(queue) = 0)
    BY DEF TypeOK
  <1>2. CASE queue = <<>>
    BY <1>1, <1>2 DEF ListIsQueue, Spells
  <1>3. CASE queue # <<>>
    <2>1. ASSUME NEW i \in 1..Len(queue)
          PROVE  next[queue[i]] = IF i = Len(queue) THEN None ELSE queue[i + 1]
      BY <1>1, <1>3 DEF ListIsQueue
    <2>2. ASSUME NEW i \in 1..Len(queue)
          PROVE  prev[queue[i]] = IF i = 1 THEN None ELSE queue[i - 1]
      <3>1. CASE i = 1
        BY <1>1, <1>3, <3>1 DEF ListIsQueue
      <3>2. CASE i # 1
        <4>1. i - 1 \in 1..(Len(queue) - 1) /\ (i - 1) + 1 = i
          BY <1>1, <3>2
        <4>2. prev[queue[(i - 1) + 1]] = queue[i - 1]
          BY <4>1 DEF ListIsQueue
        <4> QED BY <3>2, <4>1, <4>2
      <3> QED BY <3>1, <3>2
    <2> QED BY <1>3, <2>1, <2>2 DEF ListIsQueue, Spells
  <1> QED BY <1>2, <1>3

LEMMA ListIsQueueIfSpells ==
    ASSUME queue' \in Seq(Process), Spells(queue', front', back', next', prev')
    PROVE  ListIsQueue'
  <1>1. Len(queue') \in Nat /\ (queue' = <<>> <=> Len(queue') = 0)
    OBVIOUS
  <1>2. ASSUME NEW i \in 1..(Len(queue') - 1)
        PROVE  next'[queue'[i]] = queue'[i + 1] /\ prev'[queue'[i + 1]] = queue'[i]
    <2>1. i \in 1..Len(queue') /\ i + 1 \in 1..Len(queue') /\ i # Len(queue')
          /\ i + 1 # 1 /\ (i + 1) - 1 = i
      BY <1>1
    <2> QED BY <2>1 DEF Spells
  <1>3. queue' = <<>> => front' = None /\ back' = None
    BY DEF Spells
  <1>4. ASSUME queue' # <<>>
        PROVE  /\ front' = queue'[1]
               /\ back' = queue'[Len(queue')]
               /\ prev'[queue'[1]] = None
               /\ next'[queue'[Len(queue')]] = None
    <2>1. 1 \in 1..Len(queue') /\ Len(queue') \in 1..Len(queue')
      BY <1>1, <1>4
    <2> QED BY <1>4, <2>1 DEF Spells
  <1> QED BY <1>2, <1>3, <1>4 DEF ListIsQueue

(* What the invariant says of a single position. *)
LEMMA Positions ==
    ASSUME IInv
    PROVE  /\ Len(queue) \in Nat
           /\ queue = <<>> <=> Len(queue) = 0
           /\ Range(queue) = {queue[i] : i \in 1..Len(queue)}
           /\ \A i \in 1..Len(queue) : queue[i] \in Process /\ queue[i] # current
           /\ \A i, j \in 1..Len(queue) : queue[i] = queue[j] => i = j
           /\ Spells(queue, front, back, next, prev)
  <1> USE DEF IInv
  <1>1. queue \in Seq(Process)
    BY DEF TypeOK
  <1>2. Range(queue) = {queue[i] : i \in 1..Len(queue)}
    BY <1>1, RangeByIndex
  <1>3. \A i, j \in 1..Len(queue) : queue[i] = queue[j] => i = j
    BY <1>1, InjectiveByIndex DEF NodesAccounted
  <1>4. Spells(queue, front, back, next, prev)
    BY SpellsIfListIsQueue
  <1>5. \A i \in 1..Len(queue) : queue[i] \in Process /\ queue[i] # current
    BY <1>1, <1>2 DEF NodesAccounted
  <1> QED BY <1>1, <1>2, <1>3, <1>4, <1>5

(***************************************************************************)
(* The walk of scheduler_remove along the next pointers reaches every      *)
(* waiting process, so a killed process always leaves the list.            *)
(***************************************************************************)
LEMMA WalkReachesQueue ==
    ASSUME IInv, NEW p \in Range(queue)
    PROVE  WalkFinds(p)
  <1>1. PICK k \in 1..Len(queue) : queue[k] = p
    BY Positions
  <1> DEFINE path == [i \in 1..k |-> queue[i]]
  <1>2. path \in [1..k -> Process] /\ path[1] = front /\ path[k] = p
    BY <1>1, Positions DEF Spells
  <1>3. \A i \in 1..(k - 1) : next[path[i]] = path[i + 1]
    BY <1>1, Positions DEF Spells
  <1>4. k \in 1..Cardinality(Process)
    <2>1. queue \in Injection(1..Len(queue), Process)
      BY Positions DEF Injection, IsInjective, IInv, TypeOK
    <2>2. Cardinality(1..Len(queue)) <= Cardinality(Process)
      BY <2>1, FS_Injection, ProcessAssumption
    <2>3. Cardinality(1..Len(queue)) = Len(queue)
      <3>1. Len(queue) \in Int /\ 1 \in Int /\ 1 <= Len(queue)
        BY <1>1, Positions
      <3>2. Cardinality(1..Len(queue)) = IF 1 > Len(queue) THEN 0 ELSE Len(queue) - 1 + 1
        BY <3>1, FS_Interval, Zenon
      <3> QED BY <3>1, <3>2
    <2>4. Cardinality(Process) \in Nat
      BY ProcessAssumption, FS_CardinalityType
    <2> QED BY <2>2, <2>3, <2>4, Positions
  <1> QED BY <1>2, <1>3, <1>4 DEF WalkFinds

-----------------------------------------------------------------------------

LEMMA InitInvariant == Init => IInv
  BY EmptyQueue DEF Init, IInv, TypeOK, Pointer, ListIsQueue, NodesAccounted

(* scheduler_add. *)
LEMMA AddInvariant ==
    ASSUME IInv, NEW p \in Process, SchedulerAdd(p)
    PROVE  IInv'
  <1> DEFINE n == Len(queue)
  <1>1. /\ queue' \in Seq(Process)
        /\ Range(queue') = Range(queue) \cup {p}
        /\ p \notin Range(queue) => IsInjective(queue')
    BY AppendToQueue DEF IInv, TypeOK, NodesAccounted, SchedulerAdd
  <1>2. p \notin Range(queue) /\ p # current /\ p # None
    BY NoneAssumption DEF IInv, NodesAccounted, SchedulerAdd
  <1>3. TypeOK'
    BY <1>1 DEF IInv, TypeOK, Pointer, SchedulerAdd
  <1>4. NodesAccounted'
    BY <1>1, <1>2 DEF IInv, NodesAccounted, SchedulerAdd
  <1>5. Spells(queue', front', back', next', prev')
    <2>1. /\ Len(queue') = n + 1
          /\ queue' # <<>>
          /\ \A i \in 1..(n + 1) : queue'[i] = IF i <= n THEN queue[i] ELSE p
      BY Positions DEF SchedulerAdd, IInv, TypeOK
    <2>2. \A i \in 1..n : queue[i] # p
      BY <1>2, Positions
    <2>3. front' = queue'[1] /\ back' = queue'[n + 1]
      BY <2>1, Positions, NoneAssumption DEF Spells, SchedulerAdd
    <2>4. ASSUME NEW i \in 1..(n + 1)
          PROVE  next'[queue'[i]] = IF i = n + 1 THEN None ELSE queue'[i + 1]
      <3>1. CASE i = n + 1
        BY <1>2, <2>1, <3>1, Positions, NoneAssumption
           DEF Spells, SchedulerAdd, IInv, TypeOK, Pointer
      <3>2. CASE i = n
        BY <2>1, <2>2, <3>2, Positions, NoneAssumption
           DEF Spells, SchedulerAdd, IInv, TypeOK, Pointer
      <3>3. CASE i < n
        <4>1. queue[i] # back /\ queue[i] # p
          BY <2>2, <3>3, Positions DEF Spells
        <4>2. next'[queue[i]] = next[queue[i]]
          <5>1. queue[i] \in Process
            BY <3>3, Positions
          <5> QED BY <4>1, <5>1 DEF SchedulerAdd, IInv, TypeOK
        <4> QED BY <2>1, <3>3, <4>2, Positions DEF Spells
      <3> QED BY <3>1, <3>2, <3>3, Positions
    <2>5. ASSUME NEW i \in 1..(n + 1)
          PROVE  prev'[queue'[i]] = IF i = 1 THEN None ELSE queue'[i - 1]
      <3>1. CASE i = n + 1
        BY <2>1, <3>1, Positions DEF Spells, SchedulerAdd, IInv, TypeOK
      <3>2. CASE i # n + 1
        <4>1. i \in 1..n /\ queue'[i] = queue[i] /\ (i # 1 => queue'[i - 1] = queue[i - 1])
          BY <2>1, <3>2, Positions
        <4>2. prev'[queue[i]] = prev[queue[i]]
          BY <2>2, <4>1, Positions DEF SchedulerAdd, IInv, TypeOK
        <4> QED BY <4>1, <4>2, Positions DEF Spells
      <3> QED BY <3>1, <3>2
    <2> QED BY <2>1, <2>3, <2>4, <2>5 DEF Spells
  <1>6. ListIsQueue'
    BY <1>1, <1>5, ListIsQueueIfSpells
  <1> QED BY <1>3, <1>4, <1>6 DEF IInv

(* scheduler_init. *)
LEMMA InitSchedulerInvariant ==
    ASSUME IInv, SchedulerInit
    PROVE  IInv'
  <1> DEFINE n == Len(queue)
  <1>1. /\ queue # <<>> /\ front = queue[1] /\ back = queue[n]
        /\ n \in Nat \ {0} /\ 1 \in 1..n /\ (n # 1 => 2 \in 1..n)
    <2>1. /\ front = IF queue = <<>> THEN None ELSE queue[1]
          /\ back = IF queue = <<>> THEN None ELSE queue[n]
      BY Positions DEF Spells
    <2>2. queue # <<>>
      BY <2>1 DEF SchedulerInit
    <2>3. n \in Nat \ {0}
      BY <2>2, Positions
    <2> HIDE DEF n
    <2> QED BY <2>1, <2>2, <2>3
  <1>2. /\ queue' \in Seq(Process)
        /\ Len(queue') = n - 1
        /\ \A i \in 1..(n - 1) : queue'[i] = queue[i + 1]
        /\ IsInjective(queue')
        /\ Range(queue') = Range(queue) \ {front}
        /\ front \in Range(queue)
        /\ queue' = <<>> <=> n = 1
    <2>1. Head(queue) = front
      BY <1>1 DEF IInv, TypeOK
    <2>2. queue \in Seq(Process) /\ IsInjective(queue) /\ queue' = Tail(queue)
      BY DEF IInv, TypeOK, NodesAccounted, SchedulerInit
    <2>3. /\ queue' \in Seq(Process)
          /\ Len(queue') = n - 1
          /\ \A i \in 1..Len(queue') : queue'[i] = queue[i + 1]
          /\ IsInjective(queue')
          /\ Range(queue') = Range(queue) \ {front}
          /\ front \in Range(queue)
      BY <1>1, <2>1, <2>2, TailOfQueue
    <2> QED BY <1>1, <2>3
  <1>3. front' = (IF n = 1 THEN None ELSE queue[2])
    <2>1. next[queue[1]] = IF 1 = n THEN None ELSE queue[1 + 1]
      BY <1>1, Positions DEF Spells
    <2> QED BY <1>1, <2>1 DEF SchedulerInit
  <1>4. front \in Process /\ (n # 1 => queue[2] \in Process /\ queue[2] # front)
    <2>1. n # 1 => queue[2] # queue[1]
      BY <1>1, Positions
    <2> QED BY <1>1, <2>1, Positions
  <1>5. TypeOK'
    <2>1. front' \in Pointer
      BY <1>3, <1>4 DEF Pointer
    <2>2. current' \in Pointer /\ back' \in Pointer
      BY <1>4 DEF IInv, TypeOK, Pointer, SchedulerInit
    <2>3. next' \in [Process -> Pointer] /\ prev' \in [Process -> Pointer]
      BY <2>1 DEF IInv, TypeOK, Pointer, SchedulerInit
    <2> QED BY <1>2, <2>1, <2>2, <2>3 DEF IInv, TypeOK, SchedulerInit
  <1>6. NodesAccounted'
    BY <1>1, <1>2, <1>4, NoneAssumption DEF IInv, NodesAccounted, SchedulerInit
  <1>7. Spells(queue', front', back', next', prev')
    <2>1. front' = IF queue' = <<>> THEN None ELSE queue'[1]
      BY <1>1, <1>2, <1>3
    <2>2. back' = IF queue' = <<>> THEN None ELSE queue'[Len(queue')]
      <3>1. back = front <=> n = 1
        BY <1>1, Positions
      <3>2. n # 1 => queue'[n - 1] = queue[n]
        BY <1>1, <1>2
      <3> QED BY <1>1, <1>2, <3>1, <3>2 DEF SchedulerInit
    <2>3. ASSUME NEW i \in 1..(n - 1)
          PROVE  /\ next'[queue'[i]] = IF i = n - 1 THEN None ELSE queue'[i + 1]
                 /\ prev'[queue'[i]] = IF i = 1 THEN None ELSE queue'[i - 1]
      <3>1. /\ i + 1 \in 1..n
            /\ queue'[i] = queue[i + 1]
            /\ queue[i + 1] \in Process
            /\ queue[i + 1] # front
            /\ n # 1
        BY <1>1, <1>2, Positions
      <3>2. next'[queue'[i]] = IF i = n - 1 THEN None ELSE queue'[i + 1]
        <4>1. next'[queue'[i]] = next[queue[i + 1]]
          BY <3>1 DEF SchedulerInit, IInv, TypeOK
        <4>2. next[queue[i + 1]] = IF i + 1 = n THEN None ELSE queue[(i + 1) + 1]
          BY <3>1, Positions DEF Spells
        <4>3. i # n - 1 => i + 1 \in 1..(n - 1)
          BY <1>1
        <4>4. i # n - 1 => queue'[i + 1] = queue[(i + 1) + 1]
          BY <1>2, <4>3
        <4> QED BY <1>1, <4>1, <4>2, <4>4
      <3>3. CASE i = 1
        <4>1. queue'[i] = front' /\ front' # None
          BY <1>3, <1>4, <3>1, <3>3, NoneAssumption
        <4>2. prev'[front'] = None
          BY <3>1, <4>1 DEF SchedulerInit, IInv, TypeOK
        <4> QED BY <3>2, <3>3, <4>1, <4>2
      <3>4. CASE i # 1
        <4>1. queue[i + 1] # front'
          BY <1>1, <1>3, <3>1, <3>4, Positions
        <4>2. prev'[queue'[i]] = prev[queue[i + 1]]
          BY <3>1, <4>1 DEF SchedulerInit, IInv, TypeOK
        <4>3. prev[queue[i + 1]] = queue[i]
          BY <1>1, <3>1, Positions DEF Spells
        <4>4. queue'[i - 1] = queue[i]
          <5>1. i - 1 \in 1..(n - 1) /\ (i - 1) + 1 = i
            BY <1>1, <3>4
          <5> QED BY <1>2, <5>1
        <4> QED BY <3>2, <3>4, <4>2, <4>3, <4>4
      <3> QED BY <3>3, <3>4
    <2> QED BY <1>2, <2>1, <2>2, <2>3 DEF Spells
  <1>8. ListIsQueue'
    BY <1>2, <1>7, ListIsQueueIfSpells
  <1> QED BY <1>5, <1>6, <1>8 DEF IInv

(* switch_next. *)
LEMMA SwitchNextInvariant ==
    ASSUME IInv, SwitchNext
    PROVE  IInv'
  <1> DEFINE n == Len(queue)
             linked == [next EXCEPT ![current] = None, ![back] = current]
             rest == linked[front]
  <1>1. /\ queue # <<>> /\ front = queue[1] /\ back = queue[n]
        /\ n \in Nat \ {0} /\ 1 \in 1..n /\ n \in 1..n /\ (n # 1 => 2 \in 1..n)
    <2>1. /\ front = IF queue = <<>> THEN None ELSE queue[1]
          /\ back = IF queue = <<>> THEN None ELSE queue[n]
      BY Positions DEF Spells
    <2>2. queue # <<>>
      BY <2>1 DEF SwitchNext
    <2>3. n \in Nat \ {0}
      BY <2>2, Positions
    <2> QED BY <2>1, <2>2, <2>3
  <1>2. /\ current \in Process /\ current # front /\ current # back
        /\ front \in Process /\ back \in Process
        /\ front = back <=> n = 1
    BY <1>1, Positions DEF IInv, TypeOK, Pointer, SwitchNext
  <1>3. /\ queue' \in Seq(Process)
        /\ queue' # <<>>
        /\ Len(queue') = n
        /\ \A i \in 1..n : queue'[i] = IF i < n THEN queue[i + 1] ELSE current
        /\ IsInjective(queue')
        /\ Range(queue') = (Range(queue) \ {front}) \cup {current}
        /\ front \in Range(queue)
        /\ front \notin Range(queue')
    <2>1. queue \in Seq(Process) /\ IsInjective(queue) /\ current \notin Range(queue)
          /\ queue' = Append(Tail(queue), current) /\ Head(queue) = front
      BY <1>1 DEF IInv, TypeOK, NodesAccounted, SwitchNext
    <2>2. LET t == Append(Tail(queue), current)
          IN  /\ t \in Seq(Process)
              /\ t # <<>>
              /\ Len(t) = n
              /\ \A i \in 1..Len(t) : t[i] = IF i < n THEN queue[i + 1] ELSE current
              /\ IsInjective(t)
              /\ Range(t) = (Range(queue) \ {Head(queue)}) \cup {current}
              /\ Head(queue) \in Range(queue)
              /\ Head(queue) \notin Range(t)
      BY <1>1, <1>2, <2>1, RotateQueue
    <2> QED BY <2>1, <2>2
  <1>4. rest = queue'[1] /\ rest \in Process
    <2>1. next[queue[1]] = IF 1 = n THEN None ELSE queue[1 + 1]
      BY <1>1, Positions DEF Spells
    <2>2. rest = IF n = 1 THEN current ELSE queue[2]
      BY <1>1, <1>2, <2>1 DEF IInv, TypeOK
    <2>3. queue'[1] = IF n = 1 THEN current ELSE queue[2]
      BY <1>1, <1>3
    <2> QED BY <1>1, <1>2, <2>2, <2>3, Positions
  <1>5. linked \in [Process -> Pointer]
    BY <1>2 DEF IInv, TypeOK, Pointer
  <1>6. \A x \in Process : linked[x] = IF x = back THEN current
                                       ELSE IF x = current THEN None ELSE next[x]
    BY <1>2 DEF IInv, TypeOK
  <1> HIDE DEF linked
  <1>7. /\ current' = front
        /\ front' = rest
        /\ back' = current
        /\ next' = [linked EXCEPT ![front] = None]
        /\ prev' = [prev EXCEPT ![current] = back, ![rest] = None]
        /\ nodes' = nodes
    BY <1>2, <1>4, NoneAssumption DEF SwitchNext, linked
  <1>8. TypeOK'
    BY <1>2, <1>3, <1>4, <1>5, <1>7 DEF IInv, TypeOK, Pointer
  <1>9. NodesAccounted'
    BY <1>2, <1>3, <1>7, NoneAssumption DEF IInv, NodesAccounted
  <1>10. Spells(queue', front', back', next', prev')
    <2>1. front' = queue'[1] /\ back' = queue'[n]
      BY <1>1, <1>3, <1>4, <1>7
    <2>2. ASSUME NEW i \in 1..n
          PROVE  /\ next'[queue'[i]] = IF i = n THEN None ELSE queue'[i + 1]
                 /\ prev'[queue'[i]] = IF i = 1 THEN None ELSE queue'[i - 1]
      <3>1. prev'[rest] = None
        BY <1>4, <1>7 DEF IInv, TypeOK
      <3>2. \A j, k \in 1..n : queue'[j] = queue'[k] => j = k
        BY <1>3, InjectiveByIndex
      <3>3. CASE i = n
        <4>1. queue'[i] = current
          BY <1>3, <3>3
        <4>2. next'[current] = None
          BY <1>2, <1>5, <1>6, <1>7
        <4>3. ASSUME i # 1
              PROVE  prev'[current] = back /\ queue'[i - 1] = back
          <5>1. current # rest
            BY <1>1, <1>4, <3>2, <4>1, <4>3
          <5>2. i - 1 \in 1..n /\ i - 1 < n /\ (i - 1) + 1 = n
            BY <1>1, <3>3, <4>3
          <5> QED BY <1>1, <1>2, <1>3, <1>4, <1>7, <5>1, <5>2 DEF IInv, TypeOK
        <4> QED BY <1>4, <3>1, <3>3, <4>1, <4>2, <4>3
      <3>4. CASE i # n
        <4>1. /\ i + 1 \in 1..n /\ i < n
              /\ queue'[i] = queue[i + 1]
              /\ queue[i + 1] \in Process
              /\ queue[i + 1] # current
          BY <1>1, <1>3, <3>4, Positions
        <4>2. queue[i + 1] # front
          BY <1>1, <4>1, Positions
        <4>3. next'[queue[i + 1]] = linked[queue[i + 1]]
          BY <1>5, <1>7, <4>1, <4>2
        <4>4. next'[queue'[i]] = queue'[i + 1]
          <5>1. CASE i + 1 = n
            BY <1>1, <1>3, <1>6, <4>1, <4>3, <5>1
          <5>2. CASE i + 1 # n
            <6>1. queue[i + 1] # back
              BY <1>1, <4>1, <5>2, Positions
            <6>2. next[queue[i + 1]] = queue[(i + 1) + 1]
              BY <4>1, <5>2, Positions DEF Spells
            <6>3. i + 1 < n
              BY <4>1, <5>2
            <6>4. queue'[i + 1] = queue[(i + 1) + 1]
              BY <1>3, <4>1, <6>3
            <6> QED BY <1>6, <4>1, <4>3, <6>1, <6>2, <6>4
          <5> QED BY <5>1, <5>2
        <4>5. ASSUME i # 1
              PROVE  prev'[queue'[i]] = queue'[i - 1]
          <5>1. queue[i + 1] # rest
            BY <1>1, <1>4, <3>2, <4>1, <4>5
          <5>2. prev'[queue[i + 1]] = prev[queue[i + 1]]
            BY <1>2, <1>4, <1>7, <4>1, <5>1 DEF IInv, TypeOK
          <5>3. prev[queue[i + 1]] = queue[i]
            BY <1>1, <4>1, Positions DEF Spells
          <5>4. i - 1 \in 1..n /\ i - 1 < n /\ (i - 1) + 1 = i
            BY <1>1, <4>1, <4>5
          <5>5. queue'[i - 1] = queue[i]
            BY <1>3, <5>4
          <5> QED BY <4>1, <5>2, <5>3, <5>5
        <4> QED BY <1>4, <3>1, <3>4, <4>4, <4>5
      <3> QED BY <3>3, <3>4
    <2> QED BY <1>3, <2>1, <2>2 DEF Spells
  <1>11. ListIsQueue'
    BY <1>3, <1>10, ListIsQueueIfSpells
  <1> QED BY <1>8, <1>9, <1>11 DEF IInv

(* scheduler_remove. *)
LEMMA RemoveInvariant ==
    ASSUME IInv, NEW p \in Process, SchedulerRemove(p)
    PROVE  IInv'
  <1> DEFINE n == Len(queue)
  <1>1. p \in Range(queue)
    BY DEF IInv, NodesAccounted, SchedulerRemove
  <1>2. PICK k \in 1..n : queue[k] = p
    BY <1>1, Positions
  <1>3. /\ next' = IF prev[p] # None THEN [next EXCEPT ![prev[p]] = next[p]] ELSE next
        /\ prev' = IF next[p] # None THEN [prev EXCEPT ![next[p]] = prev[p]] ELSE prev
        /\ front' = IF p = front THEN next[p] ELSE front
        /\ back' = IF p = back THEN prev[p] ELSE back
        /\ nodes' = nodes \ {p}
        /\ current' = current
        /\ current # p
    BY <1>1, WalkReachesQueue DEF SchedulerRemove, Unlink
  <1>4. /\ queue' \in Seq(Process)
        /\ IsInjective(queue')
        /\ Range(queue') = Range(queue) \ {p}
        /\ Len(queue') = n - 1
        /\ \A i \in 1..(n - 1) : queue'[i] = IF i < k THEN queue[i] ELSE queue[i + 1]
        /\ queue' = <<>> <=> n = 1
    <2>1. queue \in Seq(Process) /\ IsInjective(queue) /\ queue' = RemoveFirst(queue, queue[k])
      BY <1>2 DEF IInv, TypeOK, NodesAccounted, SchedulerRemove
    <2>2. /\ queue' \in Seq(Process)
          /\ IsInjective(queue')
          /\ Range(queue') = Range(queue) \ {p}
      BY <1>2, <2>1, RemoveFromQueue
    <2>3. queue' = RemoveAt(queue, k)
      BY <2>1, RemoveFirstIsRemoveAt
    <2>4. /\ Len(queue') = n - 1
          /\ \A i \in 1..(n - 1) : queue'[i] = IF i < k THEN queue[i] ELSE queue[i + 1]
      BY <2>1, <2>3, RemoveAtPosition
    <2>5. queue' = <<>> <=> n = 1
      BY <2>2, <2>4, Positions
    <2> QED BY <2>2, <2>4, <2>5
  <1>5. /\ next[p] = IF k = n THEN None ELSE queue[k + 1]
        /\ prev[p] = IF k = 1 THEN None ELSE queue[k - 1]
        /\ p = front <=> k = 1
        /\ p = back <=> k = n
        /\ n \in Nat \ {0}
        /\ front = queue[1] /\ back = queue[n]
    <2>1. n \in Nat /\ 1 \in 1..n /\ n \in 1..n /\ queue # <<>>
      BY <1>2, Positions
    <2>2. front = queue[1] /\ back = queue[n]
      BY <2>1, Positions DEF Spells
    <2>3. (p = front <=> k = 1) /\ (p = back <=> k = n)
      BY <1>2, <2>1, <2>2, Positions
    <2>4. /\ next[p] = IF k = n THEN None ELSE queue[k + 1]
          /\ prev[p] = IF k = 1 THEN None ELSE queue[k - 1]
      BY <1>2, Positions DEF Spells
    <2> QED BY <2>1, <2>2, <2>3, <2>4
  <1>6. TypeOK'
    BY <1>3, <1>4 DEF IInv, TypeOK, Pointer
  <1>7. NodesAccounted'
    BY <1>3, <1>4 DEF IInv, NodesAccounted
  <1>8. Spells(queue', front', back', next', prev')
    <2>1. front' = IF queue' = <<>> THEN None ELSE queue'[1]
      BY <1>2, <1>3, <1>4, <1>5
    <2>2. back' = IF queue' = <<>> THEN None ELSE queue'[Len(queue')]
      <3>1. CASE n = 1
        BY <1>2, <1>3, <1>4, <1>5, <3>1
      <3>2. CASE n # 1
        <4>1. n - 1 \in 1..(n - 1) /\ (n - 1) + 1 = n
          <5> HIDE DEF n
          <5> QED BY <1>5, <3>2
        <4>2. queue'[n - 1] = IF k = n THEN queue[n - 1] ELSE queue[n]
          BY <1>2, <1>4, <4>1
        <4> QED BY <1>3, <1>4, <1>5, <3>2, <4>2
      <3> QED BY <3>1, <3>2
    <2>3. ASSUME NEW i \in 1..(n - 1)
          PROVE  /\ next'[queue'[i]] = IF i = n - 1 THEN None ELSE queue'[i + 1]
                 /\ prev'[queue'[i]] = IF i = 1 THEN None ELSE queue'[i - 1]
      <3> DEFINE j == IF i < k THEN i ELSE i + 1
      <3>1. j \in 1..n /\ j # k /\ queue'[i] = queue[j] /\ queue[j] \in Process
        BY <1>2, <1>4, Positions
      <3>2. /\ next[queue[j]] = IF j = n THEN None ELSE queue[j + 1]
            /\ prev[queue[j]] = IF j = 1 THEN None ELSE queue[j - 1]
        BY <3>1, Positions DEF Spells
      <3> HIDE DEF j
      <3>3. next'[queue[j]] = IF j = k - 1 THEN next[p] ELSE next[queue[j]]
        <4>1. CASE k = 1
          BY <1>3, <1>5, <3>1, <4>1
        <4>2. CASE k # 1
          <5>1. k - 1 \in 1..n /\ prev[p] = queue[k - 1] /\ queue[k - 1] \in Process
            BY <1>2, <1>5, <4>2, Positions
          <5>2. prev[p] # None
            BY <5>1, NoneAssumption
          <5>3. queue[j] = queue[k - 1] <=> j = k - 1
            BY <3>1, <5>1, Positions
          <5> QED BY <1>3, <3>1, <5>1, <5>2, <5>3 DEF IInv, TypeOK
        <4> QED BY <4>1, <4>2
      <3>4. prev'[queue[j]] = IF j = k + 1 THEN prev[p] ELSE prev[queue[j]]
        <4>1. CASE k = n
          BY <1>3, <1>5, <3>1, <4>1
        <4>2. CASE k # n
          <5>1. k + 1 \in 1..n /\ next[p] = queue[k + 1] /\ queue[k + 1] \in Process
            BY <1>2, <1>5, <4>2, Positions
          <5>2. next[p] # None
            BY <5>1, NoneAssumption
          <5>3. queue[j] = queue[k + 1] <=> j = k + 1
            BY <3>1, <5>1, Positions
          <5> QED BY <1>3, <3>1, <5>1, <5>2, <5>3 DEF IInv, TypeOK
        <4> QED BY <4>1, <4>2
      <3>5. next'[queue'[i]] = IF i = n - 1 THEN None ELSE queue'[i + 1]
        <4>1. CASE i = n - 1
          BY <1>2, <1>5, <3>1, <3>2, <3>3, <4>1 DEF j
        <4>2. CASE i # n - 1
          <5>1. i + 1 \in 1..(n - 1)
            BY <1>5, <4>2
          <5>2. queue'[i + 1] = IF i + 1 < k THEN queue[i + 1] ELSE queue[(i + 1) + 1]
            BY <1>4, <5>1
          <5> QED BY <1>2, <1>5, <3>1, <3>2, <3>3, <4>2, <5>2 DEF j
        <4> QED BY <4>1, <4>2
      <3>6. prev'[queue'[i]] = IF i = 1 THEN None ELSE queue'[i - 1]
        <4>1. CASE i = 1
          BY <1>2, <1>5, <3>1, <3>2, <3>4, <4>1 DEF j
        <4>2. CASE i # 1
          <5>1. i - 1 \in 1..(n - 1) /\ (i - 1) + 1 = i
            BY <1>5, <4>2
          <5>2. queue'[i - 1] = IF i - 1 < k THEN queue[i - 1] ELSE queue[i]
            BY <1>4, <5>1
          <5> QED BY <1>2, <1>5, <3>1, <3>2, <3>4, <4>2, <5>2 DEF j
        <4> QED BY <4>1, <4>2
      <3> QED BY <3>5, <3>6
    <2> QED BY <1>4, <2>1, <2>2, <2>3 DEF Spells
  <1>9. ListIsQueue'
    BY <1>4, <1>8, ListIsQueueIfSpells
  <1> QED BY <1>6, <1>7, <1>9 DEF IInv

LEMMA StutterInvariant ==
    ASSUME IInv, UNCHANGED vars
    PROVE  IInv'
  BY DEF IInv, vars, TypeOK, ListIsQueue, NodesAccounted

LEMMA InvariantHolds == Spec => []IInv
  <1>1. IInv /\ [Next]_vars => IInv'
    BY AddInvariant, InitSchedulerInvariant, SwitchNextInvariant, RemoveInvariant,
       StutterInvariant DEF Next
  <1> QED BY InitInvariant, <1>1, PTL DEF Spec

(***************************************************************************)
(* The pointers of the list and of the nodes never dangle outside the      *)
(* nodes of processes, whatever the order of the scheduler's calls.        *)
(***************************************************************************)
THEOREM LinkedRunQueueTypeOK == Spec => []TypeOK
  BY InvariantHolds, PTL DEF IInv

(***************************************************************************)
(* After every scheduler_add, scheduler_init, switch_next and              *)
(* scheduler_remove the next pointers spell the waiting line forwards and  *)
(* the prev pointers spell it backwards.                                   *)
(***************************************************************************)
THEOREM ListSpellsQueue == Spec => []ListIsQueue
  BY InvariantHolds, PTL DEF IInv

(***************************************************************************)
(* Every allocated LinkedPCB is either the running one or linked exactly   *)
(* once: scheduler_remove leaks none and frees none that is linked.        *)
(***************************************************************************)
THEOREM NoNodeLeaks == Spec => []NodesAccounted
  BY InvariantHolds, PTL DEF IInv

(***************************************************************************)
(* The doubly linked list implements the FIFO queue: each function of      *)
(* scheduler.c does to the line and the CPU what RunQueue says.            *)
(***************************************************************************)
THEOREM ListImplementsQueue == Spec => RefinesRunQueue
  <1>1. Init => RQ!Init
    BY DEF Init, RQ!Init
  <1>2. IInv /\ [Next]_vars => [RQ!Next]_<<queue, current>>
    <2> SUFFICES ASSUME IInv, [Next]_vars
                 PROVE  [RQ!Next]_<<queue, current>>
      OBVIOUS
    <2>1. ASSUME NEW p \in Process, SchedulerAdd(p)
          PROVE  RQ!Add(p)
      <3>1. p \notin Range(queue) /\ p # current
        BY <2>1, NoneAssumption DEF SchedulerAdd, IInv, NodesAccounted
      <3>2. RQ!Range(queue) = Range(queue)
        BY DEF Range, RQ!Range
      <3> QED BY <2>1, <3>1, <3>2 DEF SchedulerAdd, RQ!Add
    <2>2. ASSUME NEW p \in Process, SchedulerRemove(p)
          PROVE  RQ!Leave(p)
      <3>1. p \in Range(queue)
        BY <2>2 DEF SchedulerRemove, IInv, NodesAccounted
      <3>2. RQ!Range(queue) = Range(queue)
        BY DEF Range, RQ!Range
      <3>3. RQ!RemoveFirst(queue, p) = RemoveFirst(queue, p)
        BY DEF RemoveFirst, RQ!RemoveFirst, SelectInSeq, RQ!SelectInSeq, RemoveAt, RQ!RemoveAt,
               Min, RQ!Min
      <3> QED BY <2>2, <3>1, <3>2, <3>3 DEF SchedulerRemove, RQ!Leave
    <2>3. ASSUME SchedulerInit
          PROVE  RQ!Start
      <3>1. queue # <<>> /\ front = queue[1]
        BY <2>3, Positions DEF SchedulerInit, Spells
      <3> QED BY <2>3, <3>1 DEF SchedulerInit, RQ!Start
    <2>4. ASSUME SwitchNext
          PROVE  RQ!Switch
      <3>1. queue # <<>> /\ front = queue[1]
        BY <2>4, Positions DEF SwitchNext, Spells
      <3> QED BY <2>4, <3>1 DEF SwitchNext, RQ!Switch
    <2>5. CASE UNCHANGED vars
      BY <2>5 DEF vars
    <2> QED BY <2>1, <2>2, <2>3, <2>4, <2>5 DEF Next, RQ!Next
  <1> QED BY <1>1, <1>2, InvariantHolds, PTL DEF Spec, RefinesRunQueue, RQ!Spec, RQ!vars
=============================================================================
