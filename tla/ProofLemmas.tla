---------------------------- MODULE ProofLemmas ----------------------------
(***************************************************************************)
(* Facts that the proofs of several modules rest on: induction, the        *)
(* operations on sequences that queues and lists of disk writes are made   *)
(* of, and multiples and quotients.                                        *)
(***************************************************************************)
EXTENDS Selections, SequencesExt, SequenceTheorems, FiniteSetTheorems, Integers, TLAPS

-----------------------------------------------------------------------------
(* Induction.                                                              *)

(* Every set of natural numbers that is not empty has a smallest element. *)
LEMMA SmallestElement ==
    ASSUME NEW S \in SUBSET Nat, S # {}
    PROVE  \E n \in S : \A m \in S : n <= m
  <1> DEFINE Less == {p \in Nat \X Nat : p[1] < p[2]}
  <1>1. IsWellFoundedOn(Less, Nat)
    BY NatLessThanWellFounded DEF OpToRel
  <1>2. \A x, y \in Nat : x < y => <<x, y>> \in Less
    OBVIOUS
  <1> HIDE DEF Less
  <1>3. PICK n \in S : \A m \in S : <<m, n>> \notin Less
    BY <1>1, WFMin, Zenon
  <1>4. \A m \in S : ~(m < n)
    BY <1>2, <1>3
  <1> QED BY <1>4

(* Induction, for a property that is given as a set. *)
LEMMA SetInduction ==
    ASSUME NEW S, 0 \in S, \A n \in Nat : n \in S => n + 1 \in S
    PROVE  Nat \subseteq S
  <1> DEFINE T == {n \in Nat : n \notin S}
  <1> SUFFICES ASSUME T # {} PROVE FALSE
    OBVIOUS
  <1>1. PICK n \in T : \A m \in T : n <= m
    <2>1. T \in SUBSET Nat
      OBVIOUS
    <2> HIDE DEF T
    <2> QED BY <2>1, SmallestElement
  <1>2. n # 0 /\ n - 1 \in Nat
    OBVIOUS
  <1>3. n - 1 \notin T
    BY <1>1, <1>2
  <1>4. n - 1 \in S
    BY <1>2, <1>3
  <1> QED BY <1>2, <1>4

-----------------------------------------------------------------------------
(* Sequences.                                                              *)

(* The sequence u is s with b behind it. *)
LEMMA OneMore ==
    ASSUME NEW S, NEW s \in Seq(S), NEW b \in S, NEW u \in Seq(S),
           Len(u) = Len(s) + 1, \A i \in 1..Len(s) : u[i] = s[i], u[Len(s) + 1] = b
    PROVE  s \o <<b>> = u /\ Append(s, b) = u
  <1> DEFINE t == s \o <<b>>
             v == Append(s, b)
  <1>1. <<b>> \in Seq(S) /\ Len(<<b>>) = 1 /\ <<b>>[1] = b
    OBVIOUS
  <1>2. Len(s) \in Nat
    OBVIOUS
  <1>3. /\ t \in Seq(S) /\ Len(t) = Len(s) + 1
        /\ \A i \in 1..(Len(s) + 1) : t[i] = IF i <= Len(s) THEN s[i] ELSE <<b>>[i - Len(s)]
    BY <1>1, ConcatProperties
  <1>4. /\ v \in Seq(S) /\ Len(v) = Len(s) + 1
        /\ \A i \in 1..Len(s) : v[i] = s[i]
        /\ v[Len(s) + 1] = b
    BY AppendProperties
  <1> HIDE DEF t, v
  <1>5. \A i \in 1..(Len(s) + 1) : i \in 1..Len(s) \/ i = Len(s) + 1
    BY <1>2
  <1>6. ASSUME NEW i \in 1..Len(t)
        PROVE  t[i] = u[i]
    <2>1. CASE i \in 1..Len(s)
      BY <1>2, <1>3, <2>1
    <2>2. CASE i = Len(s) + 1
      <3>1. t[i] = <<b>>[i - Len(s)] /\ i - Len(s) = 1
        BY <1>2, <1>3, <2>2
      <3>2. t[i] = b
        BY <1>1, <3>1, Zenon
      <3> QED BY <2>2, <3>2
    <2>3. Len(t) = Len(s) + 1
      BY <1>3
    <2> QED BY <1>5, <2>1, <2>2, <2>3
  <1>7. ASSUME NEW i \in 1..Len(u)
        PROVE  v[i] = u[i]
    <2>1. i \in 1..Len(s) \/ i = Len(s) + 1
      BY <1>5
    <2> QED BY <1>4, <2>1
  <1>8. t = u
    <2>1. t \in Seq(S) /\ Len(t) = Len(u)
      BY <1>3
    <2> QED BY <1>6, <2>1, SeqEqual
  <1>9. v = u
    BY <1>4, <1>7, SeqEqual
  <1> QED BY <1>8, <1>9 DEF t, v

LEMMA ShortSequences ==
    ASSUME NEW S, NEW a \in S, NEW b \in S, NEW c \in S
    PROVE  /\ <<a>> \o <<b>> = <<a, b>> /\ Append(<<a>>, b) = <<a, b>>
           /\ <<a, b>> \o <<c>> = <<a, b, c>>
  <1>1. <<a>> \in Seq(S) /\ <<a, b>> \in Seq(S) /\ <<a, b, c>> \in Seq(S)
    OBVIOUS
  <1>2. /\ Len(<<a>>) = 1 /\ Len(<<a, b>>) = 2 /\ Len(<<a, b, c>>) = 3
        /\ \A i \in 1..1 : <<a, b>>[i] = <<a>>[i]
        /\ \A i \in 1..2 : <<a, b, c>>[i] = <<a, b>>[i]
        /\ <<a, b>>[2] = b /\ <<a, b, c>>[3] = c
    OBVIOUS
  <1>3. <<a>> \o <<b>> = <<a, b>> /\ Append(<<a>>, b) = <<a, b>>
    <2> DEFINE s == <<a>>
               u == <<a, b>>
    <2>1. s \in Seq(S) /\ u \in Seq(S) /\ Len(s) = 1 /\ Len(u) = Len(s) + 1
          /\ u[Len(s) + 1] = b
      BY <1>1, <1>2
    <2>2. \A i \in 1..Len(s) : u[i] = s[i]
      BY <1>2
    <2> HIDE DEF s, u
    <2>3. s \o <<b>> = u /\ Append(s, b) = u
      BY <2>1, <2>2, OneMore
    <2> QED BY <2>3 DEF s, u
  <1>4. <<a, b>> \o <<c>> = <<a, b, c>>
    <2> DEFINE s == <<a, b>>
               u == <<a, b, c>>
    <2>1. s \in Seq(S) /\ u \in Seq(S) /\ Len(s) = 2 /\ Len(u) = Len(s) + 1
          /\ u[Len(s) + 1] = c
      BY <1>1, <1>2
    <2>2. \A i \in 1..Len(s) : u[i] = s[i]
      BY <1>2
    <2> HIDE DEF s, u
    <2>3. s \o <<c>> = u
      BY <2>1, <2>2, OneMore
    <2> QED BY <2>3 DEF s, u
  <1> QED BY <1>3, <1>4

(* The elements of a sequence, by position. *)
LEMMA RangeByIndex ==
    ASSUME NEW S, NEW s \in Seq(S)
    PROVE  Range(s) = {s[i] : i \in 1..Len(s)}
  BY DEF Range

(* A sequence without duplicates, by position. *)
LEMMA InjectiveByIndex ==
    ASSUME NEW S, NEW s \in Seq(S)
    PROVE  IsInjective(s) <=> \A i, j \in 1..Len(s) : s[i] = s[j] => i = j
  BY DEF IsInjective

(* The empty sequence. *)
LEMMA EmptyQueue == /\ Range(<<>>) = {}
                    /\ IsInjective(<<>>)
  BY DEF Range, IsInjective

(* A new element at the back. *)
LEMMA AppendToQueue ==
    ASSUME NEW S, NEW s \in Seq(S), NEW c \in S
    PROVE  /\ Append(s, c) \in Seq(S)
           /\ Range(Append(s, c)) = Range(s) \cup {c}
           /\ IsInjective(s) /\ c \notin Range(s) => IsInjective(Append(s, c))
  <1> DEFINE t == Append(s, c)
  <1>1. /\ t \in Seq(S)
        /\ Len(t) = Len(s) + 1
        /\ \A i \in 1..Len(t) : t[i] = IF i <= Len(s) THEN s[i] ELSE c
    OBVIOUS
  <1>2. Range(t) = Range(s) \cup {c}
    <2>1. Range(t) = {t[i] : i \in 1..Len(t)} /\ Range(s) = {s[i] : i \in 1..Len(s)}
      BY <1>1, RangeByIndex
    <2>2. Len(t) \in 1..Len(t) /\ t[Len(t)] = c
      BY <1>1
    <2> HIDE DEF t
    <2> QED BY <1>1, <2>1, <2>2
  <1>3. ASSUME IsInjective(s), c \notin Range(s)
        PROVE  IsInjective(t)
    <2>1. \A i, j \in 1..Len(s) : s[i] = s[j] => i = j
      BY <1>3, InjectiveByIndex
    <2>2. \A i \in 1..Len(s) : s[i] # c
      BY <1>3, RangeByIndex
    <2> HIDE DEF t
    <2>3. \A i, j \in 1..Len(t) : t[i] = t[j] => i = j
      BY <1>1, <2>1, <2>2
    <2> QED BY <1>1, <2>3, InjectiveByIndex
  <1> QED BY <1>1, <1>2, <1>3

(* The rotation of switch_next: the front leaves, c joins at the back. *)
LEMMA RotateQueue ==
    ASSUME NEW S, NEW s \in Seq(S), NEW c \in S, s # <<>>,
           IsInjective(s), c \notin Range(s)
    PROVE  LET t == Append(Tail(s), c)
           IN  /\ t \in Seq(S)
               /\ t # <<>>
               /\ Len(t) = Len(s)
               /\ \A i \in 1..Len(t) : t[i] = IF i < Len(s) THEN s[i + 1] ELSE c
               /\ IsInjective(t)
               /\ Range(t) = (Range(s) \ {Head(s)}) \cup {c}
               /\ Head(s) \in Range(s)
               /\ Head(s) \notin Range(t)
  <1> DEFINE t == Append(Tail(s), c)
  <1>1. /\ t \in Seq(S)
        /\ t # <<>>
        /\ Len(t) = Len(s)
        /\ \A i \in 1..Len(t) : t[i] = IF i < Len(s) THEN s[i + 1] ELSE c
        /\ Len(s) \in Nat \ {0}
        /\ Head(s) = s[1]
    OBVIOUS
  <1> HIDE DEF t
  <1>2. Range(t) = {t[i] : i \in 1..Len(t)} /\ Range(s) = {s[i] : i \in 1..Len(s)}
    BY <1>1, RangeByIndex
  <1>3. \A i, j \in 1..Len(s) : s[i] = s[j] => i = j
    BY InjectiveByIndex
  <1>4. \A i \in 1..Len(s) : s[i] # c
    BY <1>2
  <1>5. IsInjective(t)
    <2>1. \A i, j \in 1..Len(t) : t[i] = t[j] => i = j
      BY <1>1, <1>3, <1>4
    <2> QED BY <2>1, <1>1, InjectiveByIndex
  <1>6. Head(s) \in Range(s)
    BY <1>1, <1>2
  <1>7. Range(t) = (Range(s) \ {Head(s)}) \cup {c}
    <2>1. ASSUME NEW x \in Range(t)
          PROVE  x \in (Range(s) \ {Head(s)}) \cup {c}
      <3>1. PICK i \in 1..Len(t) : x = t[i]
        BY <1>2
      <3>2. CASE i < Len(s)
        <4>1. i + 1 \in 1..Len(s) /\ x = s[i + 1]
          BY <1>1, <3>1, <3>2
        <4>2. s[i + 1] # s[1]
          BY <1>1, <1>3, <4>1
        <4> QED BY <1>1, <1>2, <4>1, <4>2
      <3>3. CASE ~(i < Len(s))
        BY <1>1, <3>1, <3>3
      <3> QED BY <3>2, <3>3
    <2>2. ASSUME NEW x \in Range(s), x # Head(s)
          PROVE  x \in Range(t)
      <3>1. PICK i \in 1..Len(s) : x = s[i]
        BY <1>2
      <3>2. i - 1 \in 1..Len(t) /\ t[i - 1] = x
        BY <1>1, <2>2, <3>1
      <3> QED BY <1>2, <3>2
    <2>3. c \in Range(t)
      <3>1. Len(s) \in 1..Len(t) /\ t[Len(s)] = c
        BY <1>1
      <3> QED BY <1>2, <3>1
    <2> QED BY <2>1, <2>2, <2>3
  <1>8. Head(s) \notin Range(t)
    BY <1>6, <1>7
  <1> QED BY <1>1, <1>5, <1>6, <1>7, <1>8 DEF t

(* The front leaves an idle line. *)
LEMMA TailOfQueue ==
    ASSUME NEW S, NEW s \in Seq(S), s # <<>>, IsInjective(s)
    PROVE  /\ Tail(s) \in Seq(S)
           /\ Len(Tail(s)) = Len(s) - 1
           /\ \A i \in 1..Len(Tail(s)) : Tail(s)[i] = s[i + 1]
           /\ IsInjective(Tail(s))
           /\ Range(Tail(s)) = Range(s) \ {Head(s)}
           /\ Head(s) \in Range(s)
  <1> DEFINE t == Tail(s)
  <1>1. /\ t \in Seq(S)
        /\ Len(t) = Len(s) - 1
        /\ \A i \in 1..Len(t) : t[i] = s[i + 1]
        /\ Len(s) \in Nat \ {0}
        /\ Head(s) = s[1]
    BY HeadTailProperties
  <1> HIDE DEF t
  <1>2. Range(t) = {t[i] : i \in 1..Len(t)} /\ Range(s) = {s[i] : i \in 1..Len(s)}
    BY <1>1, RangeByIndex
  <1>3. \A i, j \in 1..Len(s) : s[i] = s[j] => i = j
    BY InjectiveByIndex
  <1>4. IsInjective(t)
    <2>1. \A i, j \in 1..Len(t) : t[i] = t[j] => i = j
      BY <1>1, <1>3
    <2> QED BY <2>1, <1>1, InjectiveByIndex
  <1>5. Head(s) \in Range(s)
    BY <1>1, <1>2
  <1>6. ASSUME NEW x \in Range(t) PROVE x \in Range(s) \ {Head(s)}
    <2>1. PICK i \in 1..Len(t) : x = t[i]
      BY <1>2
    <2>2. i + 1 \in 1..Len(s) /\ x = s[i + 1] /\ s[i + 1] # s[1]
      BY <1>1, <1>3, <2>1
    <2> QED BY <1>1, <1>2, <2>2
  <1>7. ASSUME NEW x \in Range(s), x # Head(s) PROVE x \in Range(t)
    <2>1. PICK i \in 1..Len(s) : x = s[i]
      BY <1>2
    <2>2. i - 1 \in 1..Len(t) /\ t[i - 1] = x
      BY <1>1, <1>7, <2>1
    <2> QED BY <1>2, <2>2
  <1> QED BY <1>1, <1>4, <1>5, <1>6, <1>7 DEF t

(* Removing the element at a position shifts the ones behind it. *)
LEMMA RemoveAtPosition ==
    ASSUME NEW S, NEW s \in Seq(S), NEW i \in 1..Len(s)
    PROVE  /\ RemoveAt(s, i) \in Seq(S)
           /\ Len(RemoveAt(s, i)) = Len(s) - 1
           /\ \A j \in 1..(Len(s) - 1) :
                  RemoveAt(s, i)[j] = IF j < i THEN s[j] ELSE s[j + 1]
  <1> DEFINE a == SubSeq(s, 1, i - 1)
             b == SubSeq(s, i + 1, Len(s))
  <1>1. /\ a \in Seq(S)
        /\ Len(a) = i - 1
        /\ \A j \in 1..(i - 1) : a[j] = s[j]
    BY SubSeqProperties
  <1>2. /\ b \in Seq(S)
        /\ Len(b) = Len(s) - i
        /\ \A j \in 1..(Len(s) - i) : b[j] = s[j + i]
    BY SubSeqProperties
  <1> HIDE DEF a, b
  <1>3. RemoveAt(s, i) = a \o b
    BY DEF RemoveAt, a, b
  <1>4. /\ a \o b \in Seq(S)
        /\ Len(a \o b) = Len(s) - 1
        /\ \A j \in 1..(Len(s) - 1) : (a \o b)[j] = IF j <= i - 1 THEN a[j] ELSE b[j - (i - 1)]
    <2>1. /\ a \o b \in Seq(S)
          /\ Len(a \o b) = Len(a) + Len(b)
          /\ \A j \in 1..(Len(a) + Len(b)) :
                 (a \o b)[j] = IF j <= Len(a) THEN a[j] ELSE b[j - Len(a)]
      <3>1. a \in Seq(S) /\ b \in Seq(S)
        BY <1>1, <1>2
      <3> QED BY <3>1, ConcatProperties, Zenon
    <2>2. Len(a) + Len(b) = Len(s) - 1
      BY <1>1, <1>2
    <2> QED BY <2>1, <2>2, <1>1
  <1>5. ASSUME NEW j \in 1..(Len(s) - 1)
        PROVE  (a \o b)[j] = IF j < i THEN s[j] ELSE s[j + 1]
    BY <1>1, <1>2, <1>4
  <1> QED BY <1>3, <1>4, <1>5

(* The first occurrence of what occurs once. *)
LEMMA RemoveFirstOfOne ==
    ASSUME NEW S, NEW s \in Seq(S), NEW i \in 1..Len(s), \A j \in 1..Len(s) : s[j] = s[i] => j = i
    PROVE  RemoveFirst(s, s[i]) = RemoveAt(s, i)
  <1> DEFINE I == {j \in 1..Len(s) : s[j] = s[i]}
  <1>1. I = {i}
    OBVIOUS
  <1>2. Min(I) = i
    BY <1>1 DEF Min
  <1>3. SelectInSeq(s, LAMBDA v : v = s[i]) = i
    BY <1>1, <1>2 DEF SelectInSeq
  <1> QED BY <1>3 DEF RemoveFirst

(* In a sequence without duplicates everything occurs once. *)
LEMMA RemoveFirstIsRemoveAt ==
    ASSUME NEW S, NEW s \in Seq(S), IsInjective(s), NEW i \in 1..Len(s)
    PROVE  RemoveFirst(s, s[i]) = RemoveAt(s, i)
  BY InjectiveByIndex, RemoveFirstOfOne

(* Removing what is not there. *)
LEMMA RemoveFirstAbsent ==
    ASSUME NEW S, NEW s \in Seq(S), NEW p, p \notin Range(s)
    PROVE  RemoveFirst(s, p) = s
  BY RangeByIndex DEF RemoveFirst

(* Removing one element of a sequence without duplicates. *)
LEMMA RemoveFromQueue ==
    ASSUME NEW S, NEW s \in Seq(S), IsInjective(s), NEW p
    PROVE  /\ RemoveFirst(s, p) \in Seq(S)
           /\ IsInjective(RemoveFirst(s, p))
           /\ Range(RemoveFirst(s, p)) = Range(s) \ {p}
  <1>1. CASE p \notin Range(s)
    BY <1>1, RemoveFirstAbsent
  <1>2. CASE p \in Range(s)
    <2>1. PICK i \in 1..Len(s) : s[i] = p
      BY <1>2, RangeByIndex
    <2> DEFINE t == RemoveFirst(s, p)
    <2>2. /\ t \in Seq(S)
          /\ Len(t) = Len(s) - 1
          /\ \A j \in 1..(Len(s) - 1) : t[j] = IF j < i THEN s[j] ELSE s[j + 1]
      <3>1. t = RemoveAt(s, i)
        BY <2>1, RemoveFirstIsRemoveAt
      <3>2. RemoveAt(s, i) \in Seq(S) /\ Len(RemoveAt(s, i)) = Len(s) - 1
        BY RemoveAtPosition
      <3>3. \A j \in 1..(Len(s) - 1) : RemoveAt(s, i)[j] = IF j < i THEN s[j] ELSE s[j + 1]
        BY RemoveAtPosition
      <3> HIDE DEF t
      <3> QED BY <3>1, <3>2, <3>3
    <2> HIDE DEF t
    <2>3. \A j, k \in 1..Len(s) : s[j] = s[k] => j = k
      BY InjectiveByIndex
    <2>4. Range(t) = {t[j] : j \in 1..Len(t)} /\ Range(s) = {s[j] : j \in 1..Len(s)}
      BY <2>2, RangeByIndex
    <2>5. IsInjective(t)
      <3>1. \A j, k \in 1..Len(t) : t[j] = t[k] => j = k
        BY <2>2, <2>3
      <3> QED BY <3>1, <2>2, InjectiveByIndex
    <2>6. ASSUME NEW x \in Range(t) PROVE x \in Range(s) \ {p}
      <3>1. PICK j \in 1..Len(t) : x = t[j]
        BY <2>4
      <3>2. j \in 1..Len(s) /\ j + 1 \in 1..Len(s)
        BY <2>2, <3>1
      <3>3. x \in Range(s)
        BY <2>2, <2>4, <3>1, <3>2
      <3>4. x # p
        BY <2>1, <2>2, <2>3, <3>1, <3>2
      <3> QED BY <3>3, <3>4
    <2>7. ASSUME NEW x \in Range(s), x # p PROVE x \in Range(t)
      <3>1. PICK j \in 1..Len(s) : x = s[j]
        BY <2>4
      <3>2. CASE j < i
        <4>1. j \in 1..Len(t) /\ t[j] = x
          BY <2>2, <3>1, <3>2
        <4> QED BY <2>4, <4>1
      <3>3. CASE ~(j < i)
        <4>1. j - 1 \in 1..Len(t) /\ t[j - 1] = x
          BY <2>1, <2>2, <2>7, <3>1, <3>3
        <4> QED BY <2>4, <4>1
      <3> QED BY <3>2, <3>3
    <2> QED BY <2>2, <2>5, <2>6, <2>7 DEF t
  <1> QED BY <1>1, <1>2
-----------------------------------------------------------------------------
(* Multiples and quotients of a size s. *)
LEMMA Multiples ==
    ASSUME NEW s \in Nat \ {0}, NEW i \in Nat, NEW j \in Nat
    PROVE  /\ i * s \in Nat
           /\ i <= j <=> i * s <= j * s
           /\ i < j <=> i * s < j * s
           /\ (i + 1) * s = i * s + s
           /\ (i * s) % s = 0
  <1>1. i * s \in Nat
    OBVIOUS
  <1>2. i <= j <=> i * s <= j * s
    OBVIOUS
  <1>3. i < j <=> i * s < j * s
    OBVIOUS
  <1>4. (i + 1) * s = i * s + s
    OBVIOUS
  <1>5. (i * s) % s = 0
    OBVIOUS
  <1> QED BY <1>1, <1>2, <1>3, <1>4, <1>5

LEMMA Quotients ==
    ASSUME NEW s \in Nat \ {0}, NEW n \in Nat
    PROVE  /\ n \div s \in Nat
           /\ (n \div s) * s <= n
           /\ n < (n \div s + 1) * s
           /\ n % s = 0 => n = (n \div s) * s
           /\ n % s \in 0..(s - 1)
  <1>1. n \div s \in Nat
    OBVIOUS
  <1>2. (n \div s) * s <= n
    OBVIOUS
  <1>3. n < (n \div s + 1) * s
    OBVIOUS
  <1>4. n % s = 0 => n = (n \div s) * s
    OBVIOUS
  <1>5. n % s \in 0..(s - 1)
    OBVIOUS
  <1> QED BY <1>1, <1>2, <1>3, <1>4, <1>5

LEMMA Quotient ==
    ASSUME NEW s \in Nat \ {0}, NEW n \in Nat, NEW i \in Nat, i * s <= n, n < (i + 1) * s
    PROVE  n \div s = i
  <1> DEFINE q == n \div s
  <1>1. q \in Nat /\ q * s <= n /\ n < (q + 1) * s
    BY Quotients
  <1> HIDE DEF q
  <1>2. q * s < (i + 1) * s /\ i * s < (q + 1) * s
    BY <1>1
  <1>3. q < i + 1 /\ i < q + 1
    BY <1>1, <1>2, Multiples
  <1> QED BY <1>1, <1>3 DEF q

(* Induction up to a bound, for a property that is given as a set. *)
LEMMA BoundedInduction ==
    ASSUME NEW N \in Nat, NEW S, 0 \in S, \A n \in 1..N : n - 1 \in S => n \in S
    PROVE  \A n \in 0..N : n \in S
  <1> DEFINE T == {n \in Nat : n <= N => n \in S}
  <1>1. 0 \in T
    OBVIOUS
  <1>2. ASSUME NEW n \in Nat, n \in T
        PROVE  n + 1 \in T
    <2>1. CASE n + 1 <= N
      <3>1. n \in S /\ n + 1 \in 1..N /\ (n + 1) - 1 = n
        BY <1>2, <2>1
      <3>2. n + 1 \in S
        BY <3>1
      <3> QED BY <3>2
    <2>2. CASE ~(n + 1 <= N)
      BY <2>2
    <2> QED BY <2>1, <2>2
  <1>3. Nat \subseteq T
    <2> HIDE DEF T
    <2> QED BY <1>1, <1>2, SetInduction
  <1> QED BY <1>3

TurnFunctions(N, X) == [1..N -> [X -> X]]
StepsAlong(f, x0, N, Turn) == f[0] = x0 /\ \A n \in 1..N : f[n] = Turn[n][f[n - 1]]

(* What a recursive definition over the steps 1..N defines, if every step  *)
(* leads from a state in X to one in X.                                    *)
LEMMA StepwiseFunction ==
    ASSUME NEW X, NEW x0 \in X, NEW N \in Nat, NEW Turn \in TurnFunctions(N, X)
    PROVE  \E f \in [0..N -> X] : StepsAlong(f, x0, N, Turn)
  <1> DEFINE IsPath(f, k) == /\ f \in [0..k -> X]
                             /\ f[0] = x0
                             /\ \A n \in 1..k : f[n] = Turn[n][f[n - 1]]
             S == {k \in 0..N : \E f : IsPath(f, k)}
  <1>1. 0 \in S
    <2>1. IsPath([n \in 0..0 |-> x0], 0)
      OBVIOUS
    <2> HIDE DEF IsPath
    <2> QED BY <2>1
  <1>2. ASSUME NEW k \in 1..N, k - 1 \in S
        PROVE  k \in S
    <2>1. PICK f : IsPath(f, k - 1)
      BY <1>2
    <2> DEFINE g == [n \in 0..k |-> IF n = k THEN Turn[k][f[k - 1]] ELSE f[n]]
    <2>2. k - 1 \in 0..(k - 1) /\ f[k - 1] \in X
      BY <2>1
    <2>3. Turn[k] \in [X -> X]
      BY DEF TurnFunctions
    <2>4. Turn[k][f[k - 1]] \in X
      BY <2>2, <2>3
    <2>5. \A n \in 0..(k - 1) : n \in 0..k /\ n # k /\ f[n] \in X
      BY <2>1
    <2>6. g \in [0..k -> X]
      BY <2>4, <2>5
    <2>7. k # 0 /\ \A n \in 0..(k - 1) : g[n] = f[n]
      BY <2>5
    <2>8. g[k] = Turn[k][f[k - 1]]
      OBVIOUS
    <2> HIDE DEF g
    <2>9. \A n \in 1..k : g[n] = Turn[n][g[n - 1]]
      <3> SUFFICES ASSUME NEW n \in 1..k PROVE g[n] = Turn[n][g[n - 1]]
        OBVIOUS
      <3>1. n - 1 \in 0..(k - 1) /\ g[n - 1] = f[n - 1]
        BY <2>7
      <3>2. CASE n = k
        BY <2>8, <3>1, <3>2
      <3>3. CASE n # k
        <4>1. n \in 1..(k - 1) /\ n \in 0..(k - 1)
          BY <3>3
        <4> QED BY <2>1, <2>7, <3>1, <4>1
      <3> QED BY <3>2, <3>3
    <2>10. g[0] = x0
      <3>1. 0 \in 0..(k - 1)
        OBVIOUS
      <3> QED BY <2>1, <2>7, <3>1
    <2>11. IsPath(g, k)
      BY <2>6, <2>9, <2>10
    <2> HIDE DEF IsPath
    <2> QED BY <2>11
  <1>3. 0 \in 0..N /\ N \in 0..N
    OBVIOUS
  <1> HIDE DEF S
  <1>4. N \in S
    BY <1>1, <1>2, <1>3, BoundedInduction
  <1> USE DEF S
  <1> QED BY <1>4 DEF StepsAlong

-----------------------------------------------------------------------------
(* Numbers and sets of them.                                               *)

LEMMA TwoNumbers ==
    ASSUME NEW a \in Int, NEW b \in Int
    PROVE  /\ Min({a, b}) = IF a <= b THEN a ELSE b
           /\ Max({a, b}) = IF a <= b THEN b ELSE a
  <1>1. Min({a, b}) = IF a <= b THEN a ELSE b
    <2>1. PICK x : x \in {a, b} /\ \A y \in {a, b} : x <= y
      OBVIOUS
    <2>2. /\ Min({a, b}) \in {a, b}
          /\ \A y \in {a, b} : Min({a, b}) <= y
      BY DEF Min
    <2> QED BY <2>2
  <1>2. Max({a, b}) = IF a <= b THEN b ELSE a
    <2>1. PICK x : x \in {a, b} /\ \A y \in {a, b} : x >= y
      OBVIOUS
    <2>2. /\ Max({a, b}) \in {a, b}
          /\ \A y \in {a, b} : Max({a, b}) >= y
      BY DEF Max
    <2> QED BY <2>2
  <1> QED BY <1>1, <1>2

LEMMA LargerNumber ==
    ASSUME NEW a \in Nat, NEW b \in Nat
    PROVE  Max({a, b}) \in Nat
  <1>1. Max({a, b}) = IF a <= b THEN b ELSE a
    BY TwoNumbers
  <1> QED BY <1>1

LEMMA SmallerNumber ==
    ASSUME NEW a \in Int, NEW b \in Int
    PROVE  Min({a, b}) \in Int /\ Min({a, b}) <= a /\ Min({a, b}) <= b
  <1>1. Min({a, b}) = IF a <= b THEN a ELSE b
    BY TwoNumbers
  <1> QED BY <1>1

(* How many elements a set has that is enumerated without repetition. *)
LEMMA EnumeratedBy ==
    ASSUME NEW T, NEW m \in Nat, NEW f \in [1..m -> T],
           \A i, j \in 1..m : f[i] = f[j] => i = j,
           \A t \in T : \E i \in 1..m : f[i] = t
    PROVE  IsFiniteSet(T) /\ Cardinality(T) = m
  <1>1. f \in Bijection(1..m, T)
    BY DEF Bijection, Injection, Surjection, IsInjective
  <1>2. ExistsBijection(1..m, T)
    BY <1>1 DEF ExistsBijection
  <1> QED BY <1>2, FS_CountingElements, FS_NatBijection

Below(B, n) == {b \in B : b <= n}

LEMMA BelowOne ==
    ASSUME NEW B \in SUBSET Int, NEW n \in B
    PROVE  Below(B, n) = Below(B, n - 1) \cup {n}
  <1>1. \A b : \A m : b \in Below(B, m) <=> b \in B /\ b <= m
    BY DEF Below
  <1>2. \A b \in B : b \in Int
    OBVIOUS
  <1>3. \A b \in B : b <= n <=> b <= n - 1 \/ b = n
    BY <1>2
  <1> QED BY <1>1, <1>3

LEMMA BelowFacts ==
    ASSUME NEW N \in Nat, NEW B, \A b \in B : b \in 1..N
    PROVE  /\ Below(B, 0) = {}
           /\ Below(B, N) = B
           /\ \A n \in 1..N : n \notin B => Below(B, n) = Below(B, n - 1)
           /\ \A n \in 1..N : \A b \in Below(B, n - 1) : b \in Int /\ b < n
  <1>1. \A b : \A n : b \in Below(B, n) <=> b \in B /\ b <= n
    BY DEF Below
  <1>2. \A b \in B : b \in Int /\ 1 <= b /\ b <= N
    OBVIOUS
  <1>3. Below(B, 0) = {}
    BY <1>1, <1>2
  <1>4. Below(B, N) = B
    BY <1>1, <1>2
  <1>5. ASSUME NEW n \in 1..N
        PROVE  /\ n \notin B => Below(B, n) = Below(B, n - 1)
               /\ \A b \in Below(B, n - 1) : b \in Int /\ b < n
    <2>1. \A b \in B : b <= n <=> b <= n - 1 \/ b = n
      BY <1>2
    <2>2. \A b \in Below(B, n - 1) : b \in Int /\ b < n
      BY <1>1, <1>2
    <2> QED BY <1>1, <2>1, <2>2
  <1> QED BY <1>3, <1>4, <1>5

-----------------------------------------------------------------------------
(* Sequences of anything.                                                  *)

(* Induction on sequences, for a property that is given as a set. *)
LEMMA AppendInduction ==
    ASSUME NEW X, NEW G, <<>> \in G,
           \A s \in Seq(X) : \A x \in X : s \in G => Append(s, x) \in G
    PROVE  \A s \in Seq(X) : s \in G
  <1> DEFINE T == {n \in Nat : \A s \in Seq(X) : Len(s) = n => s \in G}
  <1>1. 0 \in T
    <2>1. \A s \in Seq(X) : Len(s) = 0 => s = <<>>
      BY EmptySeq
    <2> QED BY <2>1
  <1>2. ASSUME NEW n \in Nat, n \in T
        PROVE  n + 1 \in T
    <2> SUFFICES ASSUME NEW s \in Seq(X), Len(s) = n + 1 PROVE s \in G
      OBVIOUS
    <2>1. s # <<>>
      OBVIOUS
    <2>2. PICK r \in Seq(X), x \in X : s = Append(r, x)
      BY <2>1, SequenceEmptyOrAppend
    <2>3. Len(r) = n
      <3>1. Len(s) = Len(r) + 1 /\ Len(r) \in Nat
        BY <2>2, AppendProperties
      <3> QED BY <3>1
    <2> QED BY <1>2, <2>2, <2>3
  <1> HIDE DEF T
  <1>3. Nat \subseteq T
    BY <1>1, <1>2, SetInduction
  <1>4. ASSUME NEW s \in Seq(X) PROVE s \in G
    <2>1. Len(s) \in T
      BY <1>3
    <2> QED BY <2>1 DEF T
  <1> QED BY <1>4

(* The last element of a sequence and those before it. *)
LEMMA AppendFacts ==
    ASSUME NEW X, NEW s \in Seq(X), NEW x \in X
    PROVE  /\ Append(s, x) # <<>>
           /\ Last(Append(s, x)) = x
           /\ Front(Append(s, x)) = s
  <1> DEFINE a == Append(s, x)
  <1>1. /\ a \in Seq(X) /\ Len(a) = Len(s) + 1 /\ a[Len(s) + 1] = x
        /\ \A i \in 1..Len(s) : a[i] = s[i]
    BY AppendProperties
  <1>2. Len(s) \in Nat /\ a # <<>>
    BY <1>1
  <1> HIDE DEF a
  <1>3. Last(a) = x
    BY <1>1 DEF Last
  <1>4. Front(a) = s
    <2>1. Len(a) - 1 = Len(s)
      BY <1>1, <1>2
    <2>2. Front(a) = SubSeq(a, 1, Len(s))
      BY <2>1 DEF Front
    <2>3. SubSeq(a, 1, Len(s)) = [i \in 1..Len(s) |-> a[i]]
      BY <1>2 DEF SubSeq
    <2>4. s = [i \in 1..Len(s) |-> s[i]]
      OBVIOUS
    <2> QED BY <1>1, <2>2, <2>3, <2>4
  <1> QED BY <1>2, <1>3, <1>4 DEF a

LEMMA FrontType ==
    ASSUME NEW X, NEW s \in Seq(X), s # <<>>
    PROVE  Front(s) \in Seq(X)
  <1>1. PICK r \in Seq(X), x \in X : s = Append(r, x)
    BY SequenceEmptyOrAppend
  <1> QED BY <1>1, AppendFacts

LEMMA IndicesOf ==
    ASSUME NEW X, NEW s \in Seq(X)
    PROVE  DOMAIN s = 1..Len(s) /\ \A i \in 1..Len(s) : s[i] \in Range(s)
  BY DEF Range

(* What it is for elements to be the first ones.                           *)
LEMMA PrefixMeans ==
    ASSUME NEW X, NEW m \in Seq(X), NEW z \in Seq(X)
    PROVE  IsPrefix(m, z) <=> Len(m) <= Len(z) /\ \A i \in 1..Len(m) : m[i] = z[i]
  <1>1. Len(m) \in Nat /\ Len(z) \in Nat
    OBVIOUS
  <1>2. /\ SubSeq(m, 1, Len(m)) = [i \in 1..Len(m) |-> m[i]]
        /\ SubSeq(z, 1, Len(m)) = [i \in 1..Len(m) |-> z[i]]
    BY <1>1 DEF SubSeq
  <1>3. ASSUME SubSeq(m, 1, Len(m)) = SubSeq(z, 1, Len(m)), NEW i \in 1..Len(m)
        PROVE  m[i] = z[i]
    <2>1. SubSeq(m, 1, Len(m))[i] = m[i] /\ SubSeq(z, 1, Len(m))[i] = z[i]
      BY <1>2
    <2> QED BY <1>3, <2>1
  <1>4. (\A i \in 1..Len(m) : m[i] = z[i]) => SubSeq(m, 1, Len(m)) = SubSeq(z, 1, Len(m))
    BY <1>2
  <1> QED BY <1>3, <1>4 DEF IsPrefix

LEMMA JoinSeqs ==
    ASSUME NEW X, NEW s \in Seq(X), NEW t \in Seq(X)
    PROVE  /\ s \o t \in Seq(X) /\ Len(s \o t) = Len(s) + Len(t) /\ Len(s) \in Nat /\ Len(t) \in Nat
           /\ \A i \in 1..Len(s) : i \in 1..Len(s \o t) /\ (s \o t)[i] = s[i]
           /\ \A i \in 1..Len(t) : Len(s) + i \in 1..Len(s \o t) /\ (s \o t)[Len(s) + i] = t[i]
           /\ \A i \in 1..Len(s \o t) : \/ i \in 1..Len(s)
                                        \/ i - Len(s) \in 1..Len(t) /\ i = Len(s) + (i - Len(s))
  OBVIOUS

LEMMA JoinedIndices ==
    ASSUME NEW X, NEW s \in Seq(X), NEW t \in Seq(X)
    PROVE  /\ s \o t \in Seq(X) /\ Len(s) \in Nat
           /\ \A i \in 1..Len(s \o t) :
                 \/ i \in 1..Len(s) /\ (s \o t)[i] = s[i]
                 \/ \E k \in 1..Len(t) : i = Len(s) + k /\ (s \o t)[i] = t[k]
           /\ \A x : x \in Range(s \o t) <=> x \in Range(s) \/ x \in Range(t)
  <1> DEFINE u == s \o t
  <1>1. /\ u \in Seq(X) /\ Len(s) \in Nat
        /\ \A i \in 1..Len(s) : i \in 1..Len(u) /\ u[i] = s[i]
        /\ \A i \in 1..Len(t) : Len(s) + i \in 1..Len(u) /\ u[Len(s) + i] = t[i]
        /\ \A i \in 1..Len(u) : \/ i \in 1..Len(s)
                                \/ i - Len(s) \in 1..Len(t) /\ i = Len(s) + (i - Len(s))
    BY JoinSeqs
  <1> HIDE DEF u
  <1>2. \A i \in 1..Len(u) : \/ i \in 1..Len(s) /\ u[i] = s[i]
                             \/ \E k \in 1..Len(t) : i = Len(s) + k /\ u[i] = t[k]
    BY <1>1
  <1>3. DOMAIN u = 1..Len(u) /\ DOMAIN s = 1..Len(s) /\ DOMAIN t = 1..Len(t)
    BY <1>1
  <1>4. ASSUME NEW x, x \in Range(u)
        PROVE  x \in Range(s) \/ x \in Range(t)
    BY <1>2, <1>3, <1>4 DEF Range
  <1>5. ASSUME NEW x, x \in Range(s) \/ x \in Range(t)
        PROVE  x \in Range(u)
    BY <1>1, <1>3, <1>5 DEF Range
  <1> QED BY <1>1, <1>2, <1>4, <1>5 DEF u

LEMMA RangeOfAppend ==
    ASSUME NEW X, NEW s \in Seq(X), NEW y \in X
    PROVE  \A x : x \in Range(Append(s, y)) <=> x \in Range(s) \/ x = y
  <1> DEFINE u == Append(s, y)
  <1>1. /\ DOMAIN u = 1..(Len(s) + 1) /\ DOMAIN s = 1..Len(s) /\ Len(s) \in Nat
        /\ u[Len(s) + 1] = y /\ \A i \in 1..Len(s) : u[i] = s[i]
    OBVIOUS
  <1> HIDE DEF u
  <1>2. \A i \in 1..(Len(s) + 1) : i \in 1..Len(s) \/ i = Len(s) + 1
    BY <1>1
  <1>3. Len(s) + 1 \in 1..(Len(s) + 1) /\ \A i \in 1..Len(s) : i \in 1..(Len(s) + 1)
    BY <1>1
  <1>4. ASSUME NEW x, x \in Range(u)
        PROVE  x \in Range(s) \/ x = y
    BY <1>1, <1>2, <1>4 DEF Range
  <1>5. ASSUME NEW x, x \in Range(s) \/ x = y
        PROVE  x \in Range(u)
    BY <1>1, <1>3, <1>5 DEF Range
  <1> QED BY <1>4, <1>5 DEF u

-----------------------------------------------------------------------------
(* The indices of a set, in their order.                                   *)

IsAscending(s, m, B) ==
    /\ s \in [1..m -> B]
    /\ \A i, j \in 1..m : i < j => s[i] < s[j]
    /\ \A b \in B : \E i \in 1..m : s[i] = b

(* An enumeration in ascending order is the one Ascending gives. *)
LEMMA AscendingIsUnique ==
    ASSUME NEW B \in SUBSET Int, NEW m \in Nat, NEW s, IsAscending(s, m, B)
    PROVE  IsFiniteSet(B) /\ Cardinality(B) = m /\ Ascending(B) = s
  <1>1. \A i, j \in 1..m : s[i] \in Int /\ (i < j => s[i] < s[j])
    BY DEF IsAscending
  <1>2. \A i, j \in 1..m : /\ s[i] = s[j] => i = j
                           /\ s[i] <= s[j] <=> i <= j
    <2> SUFFICES ASSUME NEW i \in 1..m, NEW j \in 1..m
                 PROVE  /\ s[i] = s[j] => i = j
                        /\ s[i] <= s[j] <=> i <= j
      OBVIOUS
    <2>1. i < j \/ i = j \/ j < i
      OBVIOUS
    <2> QED BY <1>1, <2>1
  <1>3. IsFiniteSet(B) /\ Cardinality(B) = m
    BY <1>2, EnumeratedBy DEF IsAscending
  <1>4. ASSUME NEW k \in 1..m
        PROVE  Cardinality({j \in B : j <= s[k]}) = k
    <2> DEFINE T == {j \in B : j <= s[k]}
               f == [i \in 1..k |-> s[i]]
    <2>1. 1..k \subseteq 1..m /\ k \in Nat
      OBVIOUS
    <2>2. f \in [1..k -> T]
      BY <1>2, <2>1 DEF IsAscending
    <2>3. \A i, j \in 1..k : f[i] = f[j] => i = j
      BY <1>2, <2>1
    <2>4. \A t \in T : \E i \in 1..k : f[i] = t
      <3> SUFFICES ASSUME NEW t \in B, t <= s[k] PROVE \E i \in 1..k : f[i] = t
        OBVIOUS
      <3>1. PICK i \in 1..m : s[i] = t
        BY DEF IsAscending
      <3>2. i \in 1..k
        BY <1>2, <3>1
      <3> QED BY <3>1, <3>2
    <2> HIDE DEF T, f
    <2>5. Cardinality(T) = k
      BY <2>1, <2>2, <2>3, <2>4, EnumeratedBy
    <2> QED BY <2>5 DEF T
  <1>5. ASSUME NEW k \in 1..m
        PROVE  (CHOOSE i \in B : Cardinality({j \in B : j <= i}) = k) = s[k]
    <2> DEFINE P(i) == Cardinality({j \in B : j <= i}) = k
    <2>1. s[k] \in B /\ P(s[k])
      BY <1>4 DEF IsAscending
    <2>2. ASSUME NEW i \in B, P(i)
          PROVE  i = s[k]
      <3>1. PICK l \in 1..m : s[l] = i
        BY DEF IsAscending
      <3>2. Cardinality({j \in B : j <= i}) = l
        BY <1>4, <3>1
      <3> QED BY <2>2, <3>1, <3>2
    <2> HIDE DEF P
    <2>3. (CHOOSE i \in B : P(i)) = s[k]
      BY <2>1, <2>2
    <2> QED BY <2>3 DEF P
  <1>6. Ascending(B) = [k \in 1..m |-> CHOOSE i \in B : Cardinality({j \in B : j <= i}) = k]
    BY <1>3 DEF Ascending
  <1>7. s = [k \in 1..m |-> s[k]]
    BY DEF IsAscending
  <1> QED BY <1>3, <1>5, <1>6, <1>7, Zenon

(* One more position, behind all others. *)
LEMMA AscendingGrows ==
    ASSUME NEW B \in SUBSET Int, NEW m \in Nat, NEW s, IsAscending(s, m, B),
           NEW n \in Int, \A b \in B : b < n
    PROVE  IsAscending([i \in 1..(m + 1) |-> IF i <= m THEN s[i] ELSE n], m + 1, B \cup {n})
  <1> DEFINE t == [i \in 1..(m + 1) |-> IF i <= m THEN s[i] ELSE n]
  <1>1. \A i \in 1..m : s[i] \in B /\ s[i] < n /\ i \in 1..(m + 1) /\ t[i] = s[i]
    <2>1. s \in [1..m -> B]
      BY DEF IsAscending
    <2> SUFFICES ASSUME NEW i \in 1..m
                 PROVE  s[i] \in B /\ s[i] < n /\ i \in 1..(m + 1) /\ t[i] = s[i]
      OBVIOUS
    <2>2. s[i] \in B
      BY <2>1
    <2>3. i \in 1..(m + 1) /\ i <= m
      OBVIOUS
    <2> QED BY <2>2, <2>3
  <1>2. \A i \in 1..(m + 1) : i \in 1..m \/ i = m + 1
    OBVIOUS
  <1>3. m + 1 \in 1..(m + 1) /\ t[m + 1] = n
    OBVIOUS
  <1>4. t \in [1..(m + 1) -> B \cup {n}]
    <2> SUFFICES ASSUME NEW i \in 1..(m + 1) PROVE t[i] \in B \cup {n}
      OBVIOUS
    <2> HIDE DEF t
    <2> QED BY <1>1, <1>2, <1>3
  <1> HIDE DEF t
  <1>5. \A i, j \in 1..(m + 1) : i < j => t[i] < t[j]
    <2> SUFFICES ASSUME NEW i \in 1..(m + 1), NEW j \in 1..(m + 1), i < j
                 PROVE  t[i] < t[j]
      OBVIOUS
    <2>1. i \in 1..m
      OBVIOUS
    <2>2. CASE j \in 1..m
      BY <1>1, <2>1, <2>2 DEF IsAscending
    <2>3. CASE j = m + 1
      BY <1>1, <1>3, <2>1, <2>3
    <2> QED BY <1>2, <2>2, <2>3
  <1>6. \A b \in B \cup {n} : \E i \in 1..(m + 1) : t[i] = b
    <2>1. \A b \in B : \E i \in 1..m : s[i] = b
      BY DEF IsAscending
    <2> QED BY <1>1, <1>3, <2>1
  <1>7. IsAscending(t, m + 1, B \cup {n})
    BY <1>4, <1>5, <1>6 DEF IsAscending
  <1> QED BY <1>7 DEF t

(* Every finite set of positions is enumerated in ascending order. *)
LEMMA AscendingExists ==
    ASSUME NEW N \in Nat, NEW B, \A b \in B : b \in 1..N
    PROVE  \E m \in Nat : \E s : IsAscending(s, m, B)
  <1> DEFINE P(n) == \E m \in Nat : \E s : IsAscending(s, m, Below(B, n))
             S == {n \in 0..N : P(n)}
  <1>1. P(0)
    <2>1. Below(B, 0) = {}
      BY BelowFacts
    <2>2. IsAscending([i \in 1..0 |-> 0], 0, {})
      BY DEF IsAscending
    <2> QED BY <2>1, <2>2
  <1>2. ASSUME NEW n \in 1..N, P(n - 1)
        PROVE  P(n)
    <2>0. PICK m \in Nat : \E s : IsAscending(s, m, Below(B, n - 1))
      BY <1>2
    <2>1. PICK s : IsAscending(s, m, Below(B, n - 1))
      BY <2>0
    <2>2. CASE n \notin B
      <3>1. Below(B, n) = Below(B, n - 1)
        BY <2>2, BelowFacts
      <3> QED BY <2>1, <3>1
    <2>3. CASE n \in B
      <3>1. Below(B, n) = Below(B, n - 1) \cup {n}
        <4>1. B \in SUBSET Int
          OBVIOUS
        <4> QED BY <2>3, <4>1, BelowOne
      <3>2. \A b \in Below(B, n - 1) : b \in Int /\ b < n
        BY BelowFacts
      <3>3. m + 1 \in Nat /\ n \in Int /\ Below(B, n - 1) \in SUBSET Int
        BY <3>2
      <3> DEFINE D == Below(B, n - 1)
      <3>4. \E s1 : IsAscending(s1, m + 1, D \cup {n})
        <4>1. D \in SUBSET Int /\ \A b \in D : b < n
          BY <3>2, <3>3
        <4>2. IsAscending(s, m, D)
          BY <2>1
        <4> HIDE DEF D
        <4> QED BY <3>3, <4>1, <4>2, AscendingGrows
      <3> QED BY <3>1, <3>3, <3>4
    <2> QED BY <2>2, <2>3
  <1>3. P(N)
    <2> HIDE DEF P
    <2>1. 0 \in S /\ \A n \in 1..N : n - 1 \in S => n \in S
      BY <1>1, <1>2
    <2>2. N \in S
      <3> HIDE DEF S
      <3>1. N \in 0..N
        OBVIOUS
      <3> QED BY <2>1, <3>1, BoundedInduction
    <2> QED BY <2>2
  <1> QED BY <1>3, BelowFacts

(* What Ascending gives. *)
LEMMA AscendingFacts ==
    ASSUME NEW N \in Nat, NEW B \in SUBSET (1..N)
    PROVE  /\ IsFiniteSet(B) /\ Cardinality(B) \in Nat
           /\ IsAscending(Ascending(B), Cardinality(B), B)
  <1>0. PICK m \in Nat : \E s : IsAscending(s, m, B)
    <2>1. \A b \in B : b \in 1..N
      OBVIOUS
    <2> QED BY <2>1, AscendingExists
  <1>1. PICK s : IsAscending(s, m, B)
    BY <1>0
  <1>2. B \in SUBSET Int
    OBVIOUS
  <1> QED BY <1>1, <1>2, AscendingIsUnique

(* What the positions in a sequence select. *)
LEMMA SelectedFacts ==
    ASSUME NEW X, NEW s \in Seq(X), NEW B \in SUBSET (1..Len(s))
    PROVE  /\ Selected(s, B) \in Seq(X) /\ Len(Selected(s, B)) = Cardinality(B)
           /\ Cardinality(B) \in Nat
           /\ \A x : x \in Range(Selected(s, B)) <=> \E i \in B : x = s[i]
           /\ \A i \in 1..Len(Selected(s, B)) : Selected(s, B)[i] = s[Ascending(B)[i]]
  <1> DEFINE m == Cardinality(B)
             a == Ascending(B)
             q == Selected(s, B)
  <1>1. m \in Nat /\ IsAscending(a, m, B)
    <2>1. Len(s) \in Nat
      OBVIOUS
    <2>2. /\ Cardinality(B) \in Nat
          /\ IsAscending(Ascending(B), Cardinality(B), B)
      <3> DEFINE N == Len(s)
      <3>1. N \in Nat /\ B \in SUBSET (1..N)
        BY <2>1
      <3> HIDE DEF N
      <3> QED BY <3>1, AscendingFacts
    <2> QED BY <2>2
  <1>2. \A k \in 1..m : a[k] \in B /\ s[a[k]] \in X
    <2> HIDE DEF m, a
    <2>1. \A k \in 1..m : a[k] \in B
      BY <1>1 DEF IsAscending
    <2>2. \A b \in B : s[b] \in X
      OBVIOUS
    <2> QED BY <2>1, <2>2
  <1>3. q = [k \in 1..m |-> s[a[k]]]
    BY DEF Selected
  <1>4. \A b \in B : \E k \in 1..m : a[k] = b
    BY <1>1 DEF IsAscending
  <1> HIDE DEF m, a, q
  <1>5. q \in Seq(X) /\ Len(q) = m /\ DOMAIN q = 1..m
    <2>1. q \in [1..m -> X]
      BY <1>2, <1>3
    <2> QED BY <1>1, <2>1, SeqDef
  <1>6. ASSUME NEW x
        PROVE  x \in Range(q) <=> \E i \in B : x = s[i]
    <2>1. x \in Range(q) <=> \E k \in 1..m : x = q[k]
      BY <1>5 DEF Range
    <2> QED BY <1>2, <1>3, <1>4, <2>1
  <1> QED BY <1>1, <1>3, <1>5, <1>6 DEF m, a, q

-----------------------------------------------------------------------------
(* The elements of a set, in some order.                                   *)

(* An order of the elements of a set. *)
Lists(q, S) == q \in Seq(S) /\ Len(q) = Cardinality(S) /\ Range(q) = S /\ IsInjective(q)

Subsets(S, k) == {s \in SUBSET S : Cardinality(s) <= k}

LEMMA SubsetFacts ==
    ASSUME NEW S, IsFiniteSet(S), NEW k \in Nat
    PROVE  /\ \A s \in SUBSET S : IsFiniteSet(s) /\ Cardinality(s) \in Nat
           /\ \A s \in Subsets(S, k + 1) : \A x \in s : s \ {x} \in Subsets(S, k)
           /\ Subsets(S, k) \subseteq Subsets(S, k + 1)
           /\ Subsets(S, 0) = {{}}
           /\ Subsets(S, Cardinality(S)) = SUBSET S
  <1>1. \A s \in SUBSET S : IsFiniteSet(s) /\ Cardinality(s) \in Nat /\ Cardinality(s) <= Cardinality(S)
    BY FS_Subset, FS_CardinalityType
  <1>2. ASSUME NEW s \in Subsets(S, k + 1), NEW x \in s
        PROVE  s \ {x} \in Subsets(S, k)
    <2>1. s \in SUBSET S /\ IsFiniteSet(s) /\ Cardinality(s) \in Nat /\ Cardinality(s) <= k + 1
      BY <1>1 DEF Subsets
    <2>2. Cardinality(s \ {x}) = Cardinality(s) - 1
      BY <2>1, FS_RemoveElement
    <2>3. s \ {x} \in SUBSET S
      BY <2>1
    <2>4. Cardinality(s \ {x}) <= k
      BY <2>1, <2>2
    <2> QED BY <2>3, <2>4 DEF Subsets
  <1>3. Subsets(S, k) \subseteq Subsets(S, k + 1)
    <2> SUFFICES ASSUME NEW s \in SUBSET S, Cardinality(s) <= k PROVE Cardinality(s) <= k + 1
      BY DEF Subsets
    <2> QED BY <1>1
  <1>4. Subsets(S, 0) = {{}}
    <2>1. \A s \in SUBSET S : Cardinality(s) <= 0 <=> s = {}
      BY <1>1, FS_EmptySet
    <2>2. {} \in SUBSET S
      OBVIOUS
    <2> QED BY <2>1, <2>2 DEF Subsets
  <1>5. Subsets(S, Cardinality(S)) = SUBSET S
    BY <1>1 DEF Subsets
  <1> QED BY <1>1, <1>2, <1>3, <1>4, <1>5

OneOf(s) == CHOOSE x \in s : TRUE

(* Induction on the subsets of a finite set, for a property that is given  *)
(* as a set.                                                               *)
LEMMA SubsetInduction ==
    ASSUME NEW S, IsFiniteSet(S), NEW G, {} \in G,
           \A s \in SUBSET S : s # {} /\ s \ {OneOf(s)} \in G => s \in G
    PROVE  \A s \in SUBSET S : s \in G
  <1> DEFINE T == {k \in Nat : \A s \in Subsets(S, k) : s \in G}
  <1>1. 0 \in T
    BY SubsetFacts
  <1>2. ASSUME NEW k \in Nat, k \in T
        PROVE  k + 1 \in T
    <2> SUFFICES ASSUME NEW s \in Subsets(S, k + 1) PROVE s \in G
      OBVIOUS
    <2>1. s \in SUBSET S
      BY DEF Subsets
    <2>2. CASE s # {}
      <3>1. OneOf(s) \in s
        BY <2>2 DEF OneOf
      <3>2. s \ {OneOf(s)} \in Subsets(S, k)
        BY <3>1, SubsetFacts
      <3> QED BY <1>2, <2>1, <2>2, <3>2
    <2> QED BY <2>2
  <1>3. Cardinality(S) \in T
    <2> HIDE DEF T
    <2>1. Nat \subseteq T
      BY <1>1, <1>2, SetInduction
    <2> QED BY <2>1, FS_CardinalityType
  <1>4. Subsets(S, Cardinality(S)) = SUBSET S
    <2>1. 0 \in Nat
      OBVIOUS
    <2> QED BY <2>1, SubsetFacts
  <1> QED BY <1>3, <1>4

FoldSteps(S, X) == [S -> [X -> X]]

FoldsBy(f, S, x0, Turn) ==
    \A s \in SUBSET S : f[s] = IF s = {} THEN x0 ELSE Turn[OneOf(s)][f[s \ {OneOf(s)}]]

(* What a recursive definition over the subsets of a finite set defines.   *)
LEMMA SubsetwiseFunction ==
    ASSUME NEW S, IsFiniteSet(S), NEW X, NEW x0 \in X, NEW Turn \in FoldSteps(S, X)
    PROVE  \E f \in [SUBSET S -> X] : FoldsBy(f, S, x0, Turn)
  <1> DEFINE Body(f, s) == IF s = {} THEN x0 ELSE Turn[OneOf(s)][f[s \ {OneOf(s)}]]
             IsF(f, k) == f = [s \in Subsets(S, k) |-> Body(f, s)]
             IsG(f) == f = [s \in SUBSET S |-> Body(f, s)]
             T == {k \in Nat : \E f : IsF(f, k)}
  <1>1. 0 \in T
    <2> DEFINE f == [s \in {{}} |-> x0]
    <2>1. Subsets(S, 0) = {{}}
      BY SubsetFacts
    <2>2. \A s \in {{}} : Body(f, s) = x0
      OBVIOUS
    <2>3. IsF(f, 0)
      <3> HIDE DEF Body
      <3> QED BY <2>1, <2>2
    <2> HIDE DEF f, IsF
    <2> QED BY <2>3
  <1>2. ASSUME NEW k \in Nat, k \in T
        PROVE  k + 1 \in T
    <2>1. PICK f : IsF(f, k)
      BY <1>2
    <2> DEFINE g == [s \in Subsets(S, k + 1) |-> Body(f, s)]
    <2>2. /\ Subsets(S, k) \subseteq Subsets(S, k + 1)
          /\ \A s \in Subsets(S, k + 1) : \A x \in s : s \ {x} \in Subsets(S, k)
      BY SubsetFacts
    <2>3. \A s \in Subsets(S, k) : g[s] = f[s]
      <3> HIDE DEF Body
      <3> QED BY <2>1, <2>2
    <2>4. ASSUME NEW s \in Subsets(S, k + 1)
          PROVE  Body(g, s) = Body(f, s)
      <3>1. CASE s = {}
        BY <3>1
      <3>2. CASE s # {}
        <4>1. OneOf(s) \in s
          BY <3>2 DEF OneOf
        <4>2. s \ {OneOf(s)} \in Subsets(S, k)
          BY <2>2, <4>1
        <4> HIDE DEF g
        <4> QED BY <2>3, <3>2, <4>2
      <3> QED BY <3>1, <3>2
    <2>5. IsF(g, k + 1)
      <3> HIDE DEF Body
      <3> QED BY <2>4
    <2>6. k + 1 \in Nat
      OBVIOUS
    <2> HIDE DEF IsF, g
    <2> QED BY <2>5, <2>6
  <1>3. \E f : IsG(f)
    <2>1. Cardinality(S) \in T
      <3> HIDE DEF T
      <3>1. Nat \subseteq T
        BY <1>1, <1>2, SetInduction
      <3> QED BY <3>1, FS_CardinalityType
    <2>2. PICK f : IsF(f, Cardinality(S))
      BY <2>1
    <2>3. Subsets(S, Cardinality(S)) = SUBSET S
      <3>1. 0 \in Nat
        OBVIOUS
      <3> QED BY <3>1, SubsetFacts
    <2>4. IsG(f)
      <3> HIDE DEF Body
      <3> QED BY <2>2, <2>3
    <2> HIDE DEF IsG
    <2> QED BY <2>4
  <1>4. PICK f : IsG(f)
    BY <1>3
  <1>5. \A s \in SUBSET S : f[s] = Body(f, s)
    <2> HIDE DEF Body
    <2> QED BY <1>4
  <1>6. \A s \in SUBSET S : f[s] \in X
    <2> DEFINE G == {s \in SUBSET S : f[s] \in X}
    <2>1. {} \in G
      BY <1>5
    <2>2. \A s \in SUBSET S : s # {} /\ s \ {OneOf(s)} \in G => s \in G
      <3> SUFFICES ASSUME NEW s \in SUBSET S, s # {}, s \ {OneOf(s)} \in G PROVE f[s] \in X
        OBVIOUS
      <3>1. OneOf(s) \in S
        BY DEF OneOf
      <3>2. f[s \ {OneOf(s)}] \in X
        OBVIOUS
      <3>3. Turn[OneOf(s)] \in [X -> X]
        BY <3>1 DEF FoldSteps
      <3>4. f[s] = Turn[OneOf(s)][f[s \ {OneOf(s)}]]
        BY <1>5
      <3> QED BY <3>2, <3>3, <3>4
    <2> HIDE DEF G
    <2>3. \A s \in SUBSET S : s \in G
      BY <2>1, <2>2, SubsetInduction
    <2> QED BY <2>3 DEF G
  <1>7. f \in [SUBSET S -> X]
    <2> HIDE DEF Body
    <2> QED BY <1>4, <1>6
  <1> QED BY <1>5, <1>7 DEF FoldsBy

(* InSomeOrder gives every element once. *)
LEMMA InSomeOrderLists ==
    ASSUME NEW S, IsFiniteSet(S)
    PROVE  Lists(InSomeOrder(S), S)
  <1> DEFINE Body(f, s) == IF s = {} THEN <<>> ELSE Append(f[s \ {OneOf(s)}], OneOf(s))
             IsG(f) == f = [s \in SUBSET S |-> Body(f, s)]
             X == Seq(S)
             x0 == <<>>
             Turn == [x \in S |-> [q \in X |-> Append(q, x)]]
             F == CHOOSE f : IsG(f)
  <1>1. \E f : IsG(f)
    <2>1. x0 \in X /\ Turn \in FoldSteps(S, X)
      <3>1. \A x \in S : \A q \in X : Append(q, x) \in X
        BY AppendProperties
      <3> HIDE DEF X
      <3>2. Turn \in [S -> [X -> X]]
        BY <3>1
      <3>3. x0 \in X
        BY DEF X
      <3> HIDE DEF Turn
      <3> QED BY <3>2, <3>3 DEF FoldSteps
    <2>2. PICK f \in [SUBSET S -> X] : FoldsBy(f, S, x0, Turn)
      <3> HIDE DEF X, x0, Turn
      <3> QED BY <2>1, SubsetwiseFunction
    <2>3. ASSUME NEW s \in SUBSET S
          PROVE  f[s] = Body(f, s)
      <3>1. CASE s = {}
        BY <2>2, <3>1 DEF FoldsBy
      <3>2. CASE s # {}
        <4>1. OneOf(s) \in S /\ s \ {OneOf(s)} \in SUBSET S
          BY <3>2 DEF OneOf
        <4> HIDE DEF X
        <4>2. f[s \ {OneOf(s)}] \in X
          BY <4>1
        <4>3. Turn[OneOf(s)][f[s \ {OneOf(s)}]] = Append(f[s \ {OneOf(s)}], OneOf(s))
          BY <4>1, <4>2
        <4> HIDE DEF Turn
        <4> QED BY <2>2, <3>2, <4>3 DEF FoldsBy
      <3> QED BY <3>1, <3>2
    <2>4. IsG(f)
      <3> HIDE DEF Body
      <3> QED BY <2>3
    <2> HIDE DEF IsG
    <2> QED BY <2>4
  <1>2. InSomeOrder(S) = F[S]
    BY DEF InSomeOrder, FoldSet, MapThenFoldSet, OneOf
  <1>3. IsG(F)
    <2> HIDE DEF IsG
    <2> QED BY <1>1
  <1>4. \A s \in SUBSET S : F[s] = Body(F, s)
    <2> HIDE DEF F, Body
    <2> QED BY <1>3
  <1> HIDE DEF F
  <1> DEFINE G == {s \in SUBSET S : Lists(F[s], s)}
  <1>5. {} \in G
    <2>1. Lists(<<>>, {})
      BY EmptyQueue, FS_EmptySet DEF Lists
    <2>2. F[{}] = <<>>
      BY <1>4
    <2> QED BY <2>1, <2>2
  <1>6. \A s \in SUBSET S : s # {} /\ s \ {OneOf(s)} \in G => s \in G
    <2> SUFFICES ASSUME NEW s \in SUBSET S, s # {}, s \ {OneOf(s)} \in G PROVE Lists(F[s], s)
      OBVIOUS
    <2> DEFINE x == OneOf(s)
               r == s \ {x}
               q == F[r]
    <2>1. IsFiniteSet(s)
      BY FS_Subset
    <2>2. x \in s
      BY DEF OneOf
    <2>3. Lists(q, r)
      OBVIOUS
    <2>4. F[s] = Append(q, x)
      BY <1>4
    <2>5. x \notin r /\ r \cup {x} = s /\ r \subseteq s
      BY <2>2
    <2>6. Cardinality(r) = Cardinality(s) - 1 /\ Cardinality(s) \in Nat
      BY <2>1, <2>2, FS_RemoveElement, FS_CardinalityType
    <2>7. q \in Seq(s) /\ Len(q) = Cardinality(r) /\ Range(q) = r /\ IsInjective(q)
      <3>1. Seq(r) \subseteq Seq(s)
        BY <2>5, SeqMonotonic
      <3> QED BY <2>3, <3>1 DEF Lists
    <2> HIDE DEF x, r, q
    <2>8. /\ Append(q, x) \in Seq(s)
          /\ Range(Append(q, x)) = Range(q) \cup {x}
          /\ IsInjective(Append(q, x))
      <3>1. q \in Seq(s) /\ x \in s /\ IsInjective(q) /\ x \notin Range(q)
        BY <2>2, <2>5, <2>7
      <3> QED BY <3>1, AppendToQueue
    <2>9. Range(Append(q, x)) = s
      BY <2>5, <2>7, <2>8
    <2>10. Len(Append(q, x)) = Cardinality(s)
      <3>1. Len(Append(q, x)) = Len(q) + 1
        BY <2>2, <2>7, AppendProperties
      <3> QED BY <2>6, <2>7, <3>1
    <2> QED BY <2>4, <2>8, <2>9, <2>10 DEF Lists
  <1>7. S \in SUBSET S
    OBVIOUS
  <1>8. S \in G
    <2> HIDE DEF G
    <2> QED BY <1>5, <1>6, <1>7, SubsetInduction
  <1> QED BY <1>2, <1>8
=============================================================================
