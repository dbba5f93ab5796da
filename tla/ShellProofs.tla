---------------------------- MODULE ShellProofs -----------------------------
(***************************************************************************)
(* The shell's commands, for any lines, any trees and any number of        *)
(* processes: the paths they use are canonical, and the lists of entries   *)
(* they ask for fit.                                                       *)
(*                                                                         *)
(* The proofs go from words and paths (strtok, resolve_path) over the      *)
(* entries of directories, with the mounts, and the content of files to    *)
(* the invariant of the shell, and from there to what mv copies, what find *)
(* still has to look at and what del -r still has to delete.               *)
(***************************************************************************)
EXTENDS Shell, ProofLemmas

-----------------------------------------------------------------------------
(* Words.                                                                  *)

LEMMA NextWordsType ==
    ASSUME NEW text \in Text, NEW n \in 1..Len(text), NEW found \in Seq(Text)
    PROVE  NextWords(found, text, n) \in Seq(Text)
  <1>1. text[n] \in Symbol
    BY DEF Text
  <1>2. <<text[n]>> \in Text
    BY <1>1 DEF Text
  <1>3. Append(found, <<text[n]>>) \in Seq(Text)
    BY <1>2, AppendProperties
  <1>4. Longer(found, text[n]) \in Seq(Text)
    <2>1. CASE found = <<>>
      <3>1. found \in [1..0 -> Text]
        BY <2>1
      <3>2. [found EXCEPT ![Len(found)] = Append(@, text[n])] \in [1..0 -> Text]
        <4>1. DOMAIN found = 1..0 /\ \A i \in 1..0 : FALSE
          BY <3>1
        <4>2. DOMAIN [found EXCEPT ![Len(found)] = Append(@, text[n])] = 1..0
          BY <4>1
        <4>3. [found EXCEPT ![Len(found)] = Append(@, text[n])] =
                 [i \in 1..0 |-> [found EXCEPT ![Len(found)] = Append(@, text[n])][i]]
          BY <4>2
        <4> QED BY <4>1, <4>3
      <3>3. Longer(found, text[n]) = [found EXCEPT ![Len(found)] = Append(@, text[n])]
        BY DEF Longer
      <3>4. [1..0 -> Text] \subseteq Seq(Text)
        BY SeqDef
      <3> QED BY <3>2, <3>3, <3>4
    <2>2. CASE found # <<>>
      <3>1. Len(found) \in 1..Len(found) /\ found[Len(found)] \in Seq(Symbol)
        BY <2>2, EmptySeq DEF Text
      <3>2. Append(found[Len(found)], text[n]) \in Text
        BY <1>1, <3>1, AppendProperties DEF Text
      <3> QED BY <3>1, <3>2, ExceptSeq DEF Longer
    <2> QED BY <2>1, <2>2
  <1> QED BY <1>3, <1>4 DEF NextWords

(* WordsUpTo is what its recursive definition says. *)
LEMMA WordsUpToDef ==
    ASSUME NEW text \in Text
    PROVE  /\ WordsUpTo(text) \in [0..Len(text) -> Seq(Text)]
           /\ WordsUpTo(text)[0] = <<>>
           /\ \A n \in 1..Len(text) :
                 WordsUpTo(text)[n] = NextWords(WordsUpTo(text)[n - 1], text, n)
  <1> DEFINE N == Len(text)
             X == Seq(Text)
             Body(g, n) == IF n = 0 THEN <<>> ELSE NextWords(g[n - 1], text, n)
             IsW(g) == g = [n \in 0..N |-> Body(g, n)]
             Turn == [n \in 1..N |-> [x \in X |-> NextWords(x, text, n)]]
             W == WordsUpTo(text)
  <1>1. N \in Nat /\ <<>> \in X
    BY DEF Text
  <1>2. \A n \in 1..N : \A x \in X : NextWords(x, text, n) \in X
    BY NextWordsType
  <1> HIDE DEF N, X
  <1>3. Turn \in [1..N -> [X -> X]]
    BY <1>2
  <1>4. \A n \in 1..N : \A x \in X : Turn[n][x] = NextWords(x, text, n)
    OBVIOUS
  <1>5. PICK f \in [0..N -> X] : f[0] = <<>> /\ \A n \in 1..N : f[n] = Turn[n][f[n - 1]]
    <2> HIDE DEF Turn
    <2>1. Turn \in TurnFunctions(N, X)
      BY <1>3 DEF TurnFunctions
    <2>2. \E f \in [0..N -> X] : StepsAlong(f, <<>>, N, Turn)
      BY <1>1, <2>1, StepwiseFunction, Zenon
    <2> QED BY <2>2 DEF StepsAlong
  <1>6. IsW(f)
    <2> SUFFICES ASSUME NEW n \in 0..N PROVE f[n] = Body(f, n)
      OBVIOUS
    <2>1. CASE n = 0
      BY <1>5, <2>1
    <2>2. CASE n # 0
      <3>1. n \in 1..N /\ n - 1 \in 0..N
        BY <1>1, <2>2
      <3>2. f[n - 1] \in X
        BY <3>1
      <3> HIDE DEF Turn
      <3> QED BY <1>4, <1>5, <2>2, <3>1, <3>2
    <2> QED BY <2>1, <2>2
  <1>7. W = CHOOSE g : IsW(g)
    BY DEF WordsUpTo, N
  <1>8. IsW(W)
    <2> HIDE DEF IsW, W
    <2> QED BY <1>6, <1>7
  <1>9. W[0] = <<>> /\ \A n \in 1..N : W[n] = NextWords(W[n - 1], text, n)
    <2>1. 0 \in 0..N /\ \A n \in 1..N : n \in 0..N /\ n # 0
      BY <1>1
    <2> HIDE DEF W
    <2> QED BY <1>8, <2>1
  <1>10. \A n \in 0..N : n \in {m \in 0..N : W[m] \in X}
    <2> DEFINE S == {m \in 0..N : W[m] \in X}
    <2> HIDE DEF W
    <2>1. 0 \in S
      BY <1>1, <1>9
    <2>2. \A n \in 1..N : n - 1 \in S => n \in S
      BY <1>1, <1>2, <1>9
    <2> HIDE DEF S
    <2>3. \A n \in 0..N : n \in S
      BY <1>1, <2>1, <2>2, BoundedInduction
    <2> QED BY <2>3 DEF S
  <1>11. W \in [0..N -> X]
    <2> HIDE DEF W, Body
    <2> QED BY <1>8, <1>10
  <1> QED BY <1>9, <1>11 DEF N, X

(* The words of the first characters are those of any text that begins     *)
(* with them.                                                              *)
LEMMA WordsOfPrefix ==
    ASSUME NEW t \in Text, NEW u \in Text, Len(t) <= Len(u),
           \A i \in 1..Len(t) : u[i] = t[i]
    PROVE  WordsUpTo(u)[Len(t)] = Words(t)
  <1> DEFINE S == {n \in 0..Len(t) : WordsUpTo(u)[n] = WordsUpTo(t)[n]}
  <1>1. Len(t) \in Nat /\ Len(u) \in Nat
    BY DEF Text
  <1>2. 0 \in S
    BY <1>1, WordsUpToDef
  <1>3. ASSUME NEW n \in 1..Len(t), n - 1 \in S
        PROVE  n \in S
    <2>1. n \in 1..Len(u) /\ n \in 0..Len(t) /\ (n # 1 => n - 1 \in 1..Len(t))
      BY <1>1
    <2>2. /\ WordsUpTo(u)[n] = NextWords(WordsUpTo(u)[n - 1], u, n)
          /\ WordsUpTo(t)[n] = NextWords(WordsUpTo(t)[n - 1], t, n)
      BY <2>1, WordsUpToDef
    <2>3. u[n] = t[n] /\ (n # 1 => u[n - 1] = t[n - 1])
      BY <2>1
    <2>4. \A x : NextWords(x, u, n) = NextWords(x, t, n)
      BY <2>3 DEF NextWords
    <2> QED BY <1>3, <2>1, <2>2, <2>4
  <1>4. Len(t) \in 0..Len(t)
    BY <1>1
  <1>5. Len(t) \in S
    <2> HIDE DEF S
    <2> QED BY <1>1, <1>2, <1>3, <1>4, BoundedInduction
  <1> QED BY <1>5 DEF Words

LEMMA WordsEmpty == Words(<<>>) = <<>>
  <1>1. <<>> \in Text /\ Len(<<>>) = 0
    BY DEF Text
  <1> QED BY <1>1, WordsUpToDef DEF Words

(* A word that goes on. *)
LEMMA LongerWord ==
    ASSUME NEW s \in Seq(Text), NEW w \in Text, NEW c \in Symbol
    PROVE  Longer(Append(s, w), c) = Append(s, Append(w, c))
  <1> DEFINE a == Append(s, w)
             b == Append(s, Append(w, c))
             e == Longer(a, c)
  <1>1. Append(w, c) \in Text
    BY AppendProperties DEF Text
  <1>2. /\ a \in Seq(Text) /\ Len(a) = Len(s) + 1 /\ a[Len(s) + 1] = w
        /\ \A i \in 1..Len(s) : a[i] = s[i]
    BY AppendProperties
  <1>3. /\ b \in Seq(Text) /\ Len(b) = Len(s) + 1 /\ b[Len(s) + 1] = Append(w, c)
        /\ \A i \in 1..Len(s) : b[i] = s[i]
    BY <1>1, AppendProperties
  <1>4. Len(s) \in Nat
    OBVIOUS
  <1> HIDE DEF a, b
  <1>5. Len(a) \in 1..Len(a) /\ a[Len(a)] = w
    BY <1>2, <1>4
  <1>6. /\ e \in Seq(Text) /\ Len(e) = Len(a)
        /\ \A j \in 1..Len(a) : e[j] = IF j = Len(a) THEN Append(w, c) ELSE a[j]
    <2>1. e = [a EXCEPT ![Len(a)] = Append(w, c)]
      BY <1>5 DEF Longer
    <2> QED BY <1>1, <1>2, <1>5, <2>1, ExceptSeq
  <1> HIDE DEF e
  <1>7. \A i \in 1..Len(e) : e[i] = b[i]
    <2> SUFFICES ASSUME NEW i \in 1..Len(e) PROVE e[i] = b[i]
      OBVIOUS
    <2>1. i \in 1..Len(s) \/ i = Len(s) + 1
      BY <1>2, <1>4, <1>6
    <2> QED BY <1>2, <1>3, <1>4, <1>6, <2>1
  <1>8. e = b
    BY <1>2, <1>3, <1>6, <1>7, SeqEqual
  <1> QED BY <1>8 DEF a, b, e

LEMMA WordsAreNames ==
    ASSUME NEW t \in Text
    PROVE  Words(t) \in Seq(Name)
  <1> DEFINE W == WordsUpTo(t)
             S == {n \in 0..Len(t) : /\ W[n] \in Seq(Name)
                                     /\ n # 0 /\ t[n] # "/" => W[n] # <<>>}
  <1>1. Len(t) \in Nat /\ \A i \in 1..Len(t) : t[i] \in Symbol
    BY DEF Text
  <1>2. 0 \in S
    BY <1>1, WordsUpToDef
  <1>3. ASSUME NEW n \in 1..Len(t), n - 1 \in S
        PROVE  n \in S
    <2>1. W[n] = NextWords(W[n - 1], t, n) /\ t[n] \in Symbol
      BY <1>1, WordsUpToDef
    <2>2. W[n - 1] \in Seq(Name) /\ (n # 1 /\ t[n - 1] # "/" => W[n - 1] # <<>>)
      BY <1>1, <1>3
    <2>3. n \in 0..Len(t)
      BY <1>1
    <2> HIDE DEF W
    <2>4. CASE t[n] = "/"
      BY <2>1, <2>2, <2>3, <2>4 DEF NextWords
    <2>5. CASE t[n] # "/" /\ (n = 1 \/ t[n - 1] = "/")
      <3>1. <<t[n]>> \in Name
        BY <2>1, <2>5 DEF Name, Text
      <3>2. W[n] = Append(W[n - 1], <<t[n]>>)
        BY <2>1, <2>5 DEF NextWords
      <3>3. W[n] \in Seq(Name) /\ W[n] # <<>>
        BY <2>2, <3>1, <3>2, AppendProperties
      <3> QED BY <2>3, <3>3
    <2>6. CASE t[n] # "/" /\ ~(n = 1 \/ t[n - 1] = "/")
      <3>1. W[n - 1] # <<>>
        BY <2>2, <2>6
      <3>2. PICK s \in Seq(Name), w \in Name : W[n - 1] = Append(s, w)
        BY <2>2, <3>1, SequenceEmptyOrAppend
      <3>3. Append(w, t[n]) \in Name
        <4>1. w \in Seq(Symbol) /\ \A i \in 1..Len(w) : w[i] # "/"
          BY DEF Name, Text
        <4>2. /\ Append(w, t[n]) \in Seq(Symbol) /\ Append(w, t[n]) # <<>>
              /\ Len(Append(w, t[n])) = Len(w) + 1
              /\ \A i \in 1..Len(w) : Append(w, t[n])[i] = w[i]
              /\ Append(w, t[n])[Len(w) + 1] = t[n]
          BY <2>1, <4>1, AppendProperties
        <4>3. \A i \in 1..(Len(w) + 1) : i \in 1..Len(w) \/ i = Len(w) + 1
          BY <4>1
        <4> QED BY <2>6, <4>1, <4>2, <4>3 DEF Name, Text
      <3>4. W[n] = Append(s, Append(w, t[n]))
        <4>1. s \in Seq(Text) /\ w \in Text
          <5>1. Name \subseteq Text
            BY DEF Name
          <5> QED BY <5>1, SeqMonotonic
        <4>2. W[n] = Longer(W[n - 1], t[n])
          BY <2>1, <2>6 DEF NextWords
        <4> QED BY <2>1, <3>2, <4>1, <4>2, LongerWord
      <3>5. W[n] \in Seq(Name) /\ W[n] # <<>>
        BY <3>3, <3>4, AppendProperties
      <3> QED BY <2>3, <3>5
    <2> QED BY <2>4, <2>5, <2>6
  <1>4. Len(t) \in 0..Len(t)
    BY <1>1
  <1>5. Len(t) \in S
    <2> HIDE DEF S
    <2> QED BY <1>1, <1>2, <1>3, <1>4, BoundedInduction
  <1> QED BY <1>5 DEF Words

(* A text with a slash and a word behind it. *)
LEMMA JoinFacts ==
    ASSUME NEW t \in Text, NEW w \in Text
    PROVE  LET u == t \o Slash \o w
           IN  /\ u \in Text
               /\ Len(u) = Len(t) + 1 + Len(w)
               /\ \A i \in 1..Len(t) : u[i] = t[i]
               /\ u[Len(t) + 1] = "/"
               /\ \A i \in 1..Len(w) : u[Len(t) + 1 + i] = w[i]
  <1> DEFINE s == t \o Slash
             u == s \o w
  <1>1. Slash \in Text /\ Len(Slash) = 1 /\ Slash[1] = "/"
    BY VfsAssumption DEF Slash, Text
  <1>2. Len(t) \in Nat /\ Len(w) \in Nat
    BY DEF Text
  <1>0. t \in Seq(Symbol) /\ w \in Seq(Symbol) /\ Slash \in Seq(Symbol)
    BY <1>1 DEF Text
  <1>3. /\ s \in Text /\ Len(s) = Len(t) + 1
        /\ \A i \in 1..(Len(t) + 1) : s[i] = IF i <= Len(t) THEN t[i] ELSE Slash[i - Len(t)]
    <2>1. /\ s \in Seq(Symbol) /\ Len(s) = Len(t) + Len(Slash)
          /\ \A i \in 1..(Len(t) + Len(Slash)) :
                s[i] = IF i <= Len(t) THEN t[i] ELSE Slash[i - Len(t)]
      BY <1>0, ConcatProperties
    <2> HIDE DEF s
    <2> QED BY <1>1, <2>1 DEF Text
  <1> HIDE DEF s
  <1>4. /\ u \in Text /\ Len(u) = Len(s) + Len(w)
        /\ \A i \in 1..(Len(s) + Len(w)) : u[i] = IF i <= Len(s) THEN s[i] ELSE w[i - Len(s)]
    <2>1. s \in Seq(Symbol)
      BY <1>3 DEF Text
    <2>2. /\ u \in Seq(Symbol) /\ Len(u) = Len(s) + Len(w)
          /\ \A i \in 1..(Len(s) + Len(w)) : u[i] = IF i <= Len(s) THEN s[i] ELSE w[i - Len(s)]
      BY <1>0, <2>1, ConcatProperties
    <2> QED BY <2>2 DEF Text
  <1> HIDE DEF u
  <1>5. \A i \in 1..Len(t) : u[i] = t[i]
    <2> SUFFICES ASSUME NEW i \in 1..Len(t) PROVE u[i] = t[i]
      OBVIOUS
    <2>1. i \in 1..(Len(t) + 1) /\ i <= Len(t) /\ i \in 1..(Len(s) + Len(w)) /\ i <= Len(s)
      BY <1>2, <1>3
    <2> QED BY <1>3, <1>4, <2>1
  <1>6. u[Len(t) + 1] = "/"
    <2>1. /\ Len(t) + 1 \in 1..(Len(t) + 1) /\ ~(Len(t) + 1 <= Len(t))
          /\ Len(t) + 1 \in 1..(Len(s) + Len(w)) /\ Len(t) + 1 <= Len(s)
          /\ (Len(t) + 1) - Len(t) = 1
      BY <1>2, <1>3
    <2> QED BY <1>1, <1>3, <1>4, <2>1
  <1>7. \A i \in 1..Len(w) : u[Len(t) + 1 + i] = w[i]
    <2> SUFFICES ASSUME NEW i \in 1..Len(w) PROVE u[Len(t) + 1 + i] = w[i]
      OBVIOUS
    <2>1. /\ Len(t) + 1 + i \in 1..(Len(s) + Len(w)) /\ ~(Len(t) + 1 + i <= Len(s))
          /\ (Len(t) + 1 + i) - Len(s) = i
      BY <1>2, <1>3
    <2> QED BY <1>4, <2>1
  <1> QED BY <1>3, <1>4, <1>5, <1>6, <1>7 DEF u, s

(* A slash at the end makes no difference. *)
LEMMA WordsBehindSlash ==
    ASSUME NEW t \in Text, NEW u \in Text, Len(u) = Len(t) + 1,
           \A i \in 1..Len(t) : u[i] = t[i], u[Len(t) + 1] = "/"
    PROVE  Words(u) = Words(t)
  <1>1. Len(t) \in Nat
    BY DEF Text
  <1>2. WordsUpTo(u)[Len(t)] = Words(t)
    BY <1>1, WordsOfPrefix
  <1>3. Len(t) + 1 \in 1..Len(u) /\ (Len(t) + 1) - 1 = Len(t)
    BY <1>1
  <1>4. WordsUpTo(u)[Len(t) + 1] = NextWords(WordsUpTo(u)[Len(t)], u, Len(t) + 1)
    BY <1>3, WordsUpToDef
  <1> QED BY <1>2, <1>4 DEF Words, NextWords

(* A path with one more component. *)
LEMMA WordsOfJoin ==
    ASSUME NEW t \in Text, NEW w \in Name
    PROVE  Words(t \o Slash \o w) = Append(Words(t), w)
  <1> DEFINE u == t \o Slash \o w
             L == Len(t) + 1
             W == WordsUpTo(u)
             Found(k) == Append(Words(t), SubSeq(w, 1, k))
             S == {k \in 0..Len(w) : k # 0 => W[L + k] = Found(k)}
  <1>1. w \in Text /\ w # <<>> /\ \A i \in 1..Len(w) : w[i] # "/" /\ w[i] \in Symbol
    BY DEF Name, Text
  <1>2. /\ u \in Text /\ Len(u) = Len(t) + 1 + Len(w)
        /\ \A i \in 1..Len(t) : u[i] = t[i]
        /\ u[Len(t) + 1] = "/"
        /\ \A i \in 1..Len(w) : u[Len(t) + 1 + i] = w[i]
    BY <1>1, JoinFacts
  <1>3. Len(t) \in Nat /\ Len(w) \in Nat \ {0}
    BY <1>1, EmptySeq DEF Text
  <1> HIDE DEF u
  <1>4. W[L] = Words(t)
    <2>1. WordsUpTo(u)[Len(t)] = Words(t)
      BY <1>2, <1>3, WordsOfPrefix
    <2>2. L \in 1..Len(u) /\ L - 1 = Len(t)
      BY <1>2, <1>3
    <2>3. W[L] = NextWords(W[L - 1], u, L)
      BY <1>2, <2>2, WordsUpToDef
    <2> QED BY <1>2, <2>1, <2>2, <2>3 DEF NextWords
  <1>5. \A k \in 1..Len(w) : /\ W[L + k] = NextWords(W[L + (k - 1)], u, L + k)
                              /\ u[L + k] = w[k]
    <2> SUFFICES ASSUME NEW k \in 1..Len(w)
                 PROVE  /\ W[L + k] = NextWords(W[L + (k - 1)], u, L + k)
                        /\ u[L + k] = w[k]
      OBVIOUS
    <2>1. L + k \in 1..Len(u) /\ (L + k) - 1 = L + (k - 1)
      BY <1>2, <1>3
    <2>2. W[L + k] = NextWords(W[(L + k) - 1], u, L + k)
      BY <1>2, <2>1, WordsUpToDef
    <2> QED BY <1>2, <2>1, <2>2
  <1>6. Words(t) \in Seq(Text)
    BY WordsAreNames, SeqMonotonic DEF Name
  <1> HIDE DEF W
  <1>7. ASSUME NEW k \in 1..Len(w), k - 1 \in S
        PROVE  k \in S
    <2>1. /\ W[L + k] = NextWords(W[L + (k - 1)], u, L + k)
          /\ u[L + k] = w[k] /\ w[k] # "/" /\ w[k] \in Symbol
      BY <1>1, <1>5
    <2>2. k \in 0..Len(w)
      BY <1>3
    <2>3. CASE k = 1
      <3>1. W[L + (k - 1)] = Words(t) /\ u[(L + k) - 1] = "/"
        BY <1>2, <1>3, <1>4, <2>3
      <3>2. W[L + k] = Append(Words(t), <<w[k]>>)
        BY <2>1, <3>1 DEF NextWords
      <3>3. SubSeq(w, 1, k) = <<w[k]>>
        <4> DEFINE v == SubSeq(w, 1, k)
        <4>1. v \in Seq(Symbol) /\ Len(v) = 1 /\ v[1] = w[1]
          <5>1. 1 \in Int /\ k \in Int /\ \A i \in 1..k : w[i] \in Symbol
            BY <1>1, <2>1, <2>3
          <5>2. /\ v \in Seq(Symbol) /\ Len(v) = (IF 1 <= k THEN (k - 1) + 1 ELSE 0)
                /\ \A i \in 1..((k - 1) + 1) : v[i] = w[(1 + i) - 1]
            BY <5>1, SubSeqProperties
          <5> QED BY <2>3, <5>2
        <4> HIDE DEF v
        <4>2. v = <<w[k]>>
          BY <2>3, <4>1
        <4> QED BY <4>2 DEF v
      <3> QED BY <2>2, <3>2, <3>3
    <2>4. CASE k # 1
      <3> DEFINE v == SubSeq(w, 1, k - 1)
      <3>1. k - 1 # 0 /\ k - 1 \in 1..Len(w)
        BY <1>3, <2>4
      <3>2. W[L + (k - 1)] = Append(Words(t), v)
        BY <1>7, <3>1
      <3>3. u[(L + k) - 1] # "/" /\ L + k # 1
        <4>1. (L + k) - 1 = L + (k - 1)
          BY <1>3
        <4>2. u[L + (k - 1)] # "/"
          BY <1>1, <1>5, <3>1
        <4> QED BY <1>3, <4>1, <4>2
      <3>4. W[L + k] = Longer(W[L + (k - 1)], w[k])
        BY <2>1, <3>3 DEF NextWords
      <3>5. v \in Text /\ SubSeq(w, 1, k) = Append(v, w[k])
        <4>1. w \in Seq(Symbol) /\ 1 \in 1..Len(w) /\ k \in 1..Len(w)
          BY <1>1, <1>3 DEF Text
        <4>2. SubSeq(w, 1, k) = v \o <<w[k]>>
          BY <4>1, SubSeqRecursiveSecond
        <4>3. v \in Seq(Symbol)
          BY <1>1, <3>1, SubSeqProperties
        <4> QED BY <2>1, <4>2, <4>3, AppendIsConcat DEF Text
      <3> HIDE DEF v
      <3>6. W[L + k] = Append(Words(t), Append(v, w[k]))
        BY <1>6, <2>1, <3>2, <3>4, <3>5, LongerWord
      <3> QED BY <2>2, <3>5, <3>6
    <2> QED BY <2>3, <2>4
  <1>8. 0 \in S
    BY <1>3
  <1>9. Len(w) \in S
    <2> HIDE DEF S
    <2>1. Len(w) \in 0..Len(w) /\ Len(w) \in Nat
      BY <1>3
    <2> QED BY <1>7, <1>8, <2>1, BoundedInduction
  <1>10. W[Len(u)] = Append(Words(t), SubSeq(w, 1, Len(w)))
    <2>1. Len(u) = L + Len(w)
      BY <1>2, <1>3
    <2> QED BY <1>3, <1>9, <2>1
  <1>11. SubSeq(w, 1, Len(w)) = w
    BY <1>1, SubSeqFull DEF Text
  <1> QED BY <1>10, <1>11 DEF Words, W, u

-----------------------------------------------------------------------------
(* Texts of paths.                                                         *)

(* Joined is what its recursive definition says. *)
LEMMA JoinedDef ==
    ASSUME NEW names \in Seq(Text)
    PROVE  /\ Joined(names) \in [0..Len(names) -> Text]
           /\ Joined(names)[0] = <<>>
           /\ \A n \in 1..Len(names) :
                 Joined(names)[n] = Joined(names)[n - 1] \o Slash \o names[n]
  <1> DEFINE N == Len(names)
             Body(g, n) == IF n = 0 THEN <<>> ELSE g[n - 1] \o Slash \o names[n]
             IsJ(g) == g = [n \in 0..N |-> Body(g, n)]
             Turn == [n \in 1..N |-> [x \in Text |-> x \o Slash \o names[n]]]
             J == Joined(names)
  <1>1. N \in Nat /\ <<>> \in Text /\ \A n \in 1..N : names[n] \in Text
    BY EmptySeq DEF Text
  <1>2. \A n \in 1..N : \A x \in Text : x \o Slash \o names[n] \in Text
    BY <1>1, JoinFacts
  <1>3. Turn \in [1..N -> [Text -> Text]]
    <2> HIDE DEF N
    <2> QED BY <1>2
  <1>4. \A n \in 1..N : \A x \in Text : Turn[n][x] = x \o Slash \o names[n]
    <2> HIDE DEF N
    <2> SUFFICES ASSUME NEW n \in 1..N, NEW x \in Text
                 PROVE  Turn[n][x] = x \o Slash \o names[n]
      OBVIOUS
    <2>1. Turn[n] = [y \in Text |-> y \o Slash \o names[n]]
      OBVIOUS
    <2> HIDE DEF Turn
    <2> QED BY <2>1
  <1>5. PICK f \in [0..N -> Text] : f[0] = <<>> /\ \A n \in 1..N : f[n] = Turn[n][f[n - 1]]
    <2> DEFINE X == Text
               x0 == <<>>
    <2> HIDE DEF Turn, N
    <2>1. N \in Nat /\ x0 \in X /\ Turn \in TurnFunctions(N, X)
      BY <1>1, <1>3 DEF TurnFunctions
    <2> HIDE DEF X, x0
    <2>2. \E f \in [0..N -> X] : StepsAlong(f, x0, N, Turn)
      BY <2>1, StepwiseFunction, Zenon
    <2> QED BY <2>2 DEF X, x0, StepsAlong
  <1>6. IsJ(f)
    <2> HIDE DEF N, Turn
    <2> SUFFICES ASSUME NEW n \in 0..N PROVE f[n] = Body(f, n)
      OBVIOUS
    <2>1. CASE n = 0
      BY <1>5, <2>1
    <2>2. CASE n # 0
      <3>1. n \in 1..N /\ n - 1 \in 0..N
        BY <1>1, <2>2
      <3>2. f[n - 1] \in Text
        BY <3>1
      <3> QED BY <1>4, <1>5, <2>2, <3>1, <3>2
    <2> QED BY <2>1, <2>2
  <1>7. J = CHOOSE g : IsJ(g)
    BY DEF Joined
  <1>8. IsJ(J)
    <2> HIDE DEF IsJ, J
    <2> QED BY <1>6, <1>7
  <1>9. J[0] = <<>> /\ \A n \in 1..N : J[n] = J[n - 1] \o Slash \o names[n]
    <2>1. 0 \in 0..N /\ \A n \in 1..N : n \in 0..N /\ n # 0
      BY <1>1
    <2> HIDE DEF J, N
    <2> QED BY <1>8, <2>1
  <1>10. \A n \in 0..N : J[n] \in Text
    <2> DEFINE S == {m \in 0..N : J[m] \in Text}
    <2> HIDE DEF J
    <2>1. 0 \in S
      BY <1>1, <1>9
    <2>2. ASSUME NEW n \in 1..N, n - 1 \in S
          PROVE  n \in S
      <3>1. J[n - 1] \in Text /\ n \in 0..N
        BY <1>1, <2>2
      <3>2. J[n] \in Text
        BY <1>2, <1>9, <3>1
      <3> QED BY <3>1, <3>2
    <2> HIDE DEF S, N
    <2>3. \A n \in 0..N : n \in S
      BY <1>1, <2>1, <2>2, BoundedInduction
    <2> QED BY <2>3 DEF S
  <1>11. J \in [0..N -> Text]
    <2> HIDE DEF J, Body, N
    <2> QED BY <1>8, <1>10
  <1> QED BY <1>9, <1>11

(* The text of names without the slash of the root. *)
JoinedText(names) == Joined(names)[Len(names)]

(* The stack of resolve_path for a path that has these components. *)
StackOf(names) == [k \in 1..Len(names) |-> Len(Joined(names)[k - 1])]

LEMMA JoinedEmpty == JoinedText(<<>>) = <<>> /\ StackOf(<<>>) = <<>>
  <1>1. <<>> \in Seq(Text) /\ Len(<<>>) = 0
    OBVIOUS
  <1>2. JoinedText(<<>>) = <<>>
    BY <1>1, JoinedDef DEF JoinedText
  <1>3. StackOf(<<>>) = <<>>
    BY DEF StackOf
  <1> QED BY <1>2, <1>3

LEMMA JoinedType ==
    ASSUME NEW names \in Seq(Text)
    PROVE  /\ JoinedText(names) \in Text
           /\ StackOf(names) \in Seq(Nat) /\ Len(StackOf(names)) = Len(names)
  <1>1. Len(names) \in Nat /\ Len(names) \in 0..Len(names)
    OBVIOUS
  <1>2. JoinedText(names) \in Text
    BY <1>1, JoinedDef DEF JoinedText
  <1>3. \A k \in 1..Len(names) : Len(Joined(names)[k - 1]) \in Nat
    <2> SUFFICES ASSUME NEW k \in 1..Len(names) PROVE Len(Joined(names)[k - 1]) \in Nat
      OBVIOUS
    <2>1. k - 1 \in 0..Len(names)
      BY <1>1
    <2>2. Joined(names)[k - 1] \in Text
      BY <2>1, JoinedDef
    <2> QED BY <2>2 DEF Text
  <1>4. StackOf(names) \in [1..Len(names) -> Nat]
    BY <1>3 DEF StackOf
  <1>5. StackOf(names) \in Seq(Nat)
    BY <1>1, <1>4, SeqDef
  <1> QED BY <1>1, <1>2, <1>4, <1>5

LEMMA JoinedAppend ==
    ASSUME NEW names \in Seq(Text), NEW w \in Text
    PROVE  /\ JoinedText(Append(names, w)) = JoinedText(names) \o Slash \o w
           /\ StackOf(Append(names, w)) = Append(StackOf(names), Len(JoinedText(names)))
  <1> DEFINE L == Len(names)
             more == Append(names, w)
             S == {n \in 0..L : Joined(more)[n] = Joined(names)[n]}
  <1>1. /\ more \in Seq(Text) /\ Len(more) = L + 1 /\ more[L + 1] = w
        /\ \A i \in 1..L : more[i] = names[i]
    BY AppendProperties
  <1>2. L \in Nat
    OBVIOUS
  <1> HIDE DEF more
  <1>3. 0 \in S
    <2>1. Joined(more)[0] = <<>> /\ Joined(names)[0] = <<>>
      BY <1>1, JoinedDef
    <2> QED BY <1>2, <2>1
  <1>4. ASSUME NEW n \in 1..L, n - 1 \in S
        PROVE  n \in S
    <2>1. n \in 1..Len(more) /\ n \in 0..L
      BY <1>1, <1>2
    <2>2. /\ Joined(more)[n] = Joined(more)[n - 1] \o Slash \o more[n]
          /\ Joined(names)[n] = Joined(names)[n - 1] \o Slash \o names[n]
      BY <1>1, <2>1, JoinedDef
    <2> QED BY <1>1, <1>4, <2>1, <2>2
  <1> HIDE DEF L
  <1>5. \A n \in 0..L : Joined(more)[n] = Joined(names)[n]
    <2>1. \A n \in 0..L : n \in S
      <3> HIDE DEF S
      <3> QED BY <1>2, <1>3, <1>4, BoundedInduction
    <2> QED BY <2>1
  <1>6. L + 1 \in 1..Len(more) /\ (L + 1) - 1 = L /\ L \in 0..L
    BY <1>1, <1>2
  <1>7. Joined(more)[L + 1] = Joined(names)[L] \o Slash \o w
    <2>1. Joined(more)[L + 1] = Joined(more)[(L + 1) - 1] \o Slash \o more[L + 1]
      BY <1>1, <1>6, JoinedDef
    <2> QED BY <1>1, <1>5, <1>6, <2>1
  <1>8. StackOf(more) = Append(StackOf(names), Len(JoinedText(names)))
    <2> DEFINE s == StackOf(names)
               u == StackOf(more)
               b == Len(JoinedText(names))
    <2>1. /\ s \in Seq(Nat) /\ Len(s) = L /\ u \in Seq(Nat) /\ Len(u) = L + 1 /\ b \in Nat
      <3>1. b \in Nat
        BY JoinedType DEF Text
      <3> QED BY <1>1, <3>1, JoinedType DEF L
    <2>2. \A i \in 1..L : u[i] = s[i]
      <3> SUFFICES ASSUME NEW i \in 1..L PROVE u[i] = s[i]
        OBVIOUS
      <3>1. i - 1 \in 0..L /\ i \in 1..Len(more)
        BY <1>1, <1>2
      <3>2. Joined(more)[i - 1] = Joined(names)[i - 1]
        BY <1>5, <3>1
      <3> QED BY <3>1, <3>2 DEF StackOf, L
    <2>3. u[L + 1] = b
      <3>1. u[L + 1] = Len(Joined(more)[(L + 1) - 1])
        BY <1>6 DEF StackOf
      <3> QED BY <1>5, <1>6, <3>1 DEF JoinedText, L
    <2> HIDE DEF s, u, b
    <2>4. Append(s, b) = u
      BY <2>1, <2>2, <2>3, OneMore
    <2> QED BY <2>4 DEF s, u, b
  <1> QED BY <1>1, <1>7, <1>8 DEF JoinedText, L, more

LEMMA NamesAreText == Name \subseteq Text /\ Seq(Name) \subseteq Seq(Text)
  <1>1. Name \subseteq Text
    BY DEF Name
  <1> QED BY <1>1, SeqMonotonic

LEMMA SlashFacts == Slash \in Text /\ Slash # <<>> /\ Len(Slash) = 1 /\ Slash[1] = "/"
  BY VfsAssumption DEF Slash, Text

LEMMA EmptyText == <<>> \in Text /\ <<>> \in Seq(Name) /\ <<>> \in Seq(Text) /\ Len(<<>>) = 0
  BY DEF Text

LEMMA TextOfEmpty == TextOf(<<>>) = Slash
  BY DEF TextOf

LEMMA TextOfNames ==
    ASSUME NEW names, names # <<>>
    PROVE  TextOf(names) = JoinedText(names)
  BY DEF TextOf, JoinedText

LEMMA TextOfType ==
    ASSUME NEW names \in Seq(Name)
    PROVE  TextOf(names) \in Text
  <1>1. names \in Seq(Text)
    BY NamesAreText
  <1>2. JoinedText(names) \in Text
    BY <1>1, JoinedType
  <1> QED BY <1>2, SlashFacts, TextOfEmpty, TextOfNames

(* A path of names is its own sequence of names. *)
LEMMA WordsOfJoined ==
    ASSUME NEW names \in Seq(Name)
    PROVE  Words(JoinedText(names)) = names
  <1> DEFINE G == {s \in Seq(Name) : Words(JoinedText(s)) = s}
  <1>1. <<>> \in G
    BY EmptyText, JoinedEmpty, WordsEmpty
  <1>2. ASSUME NEW s \in Seq(Name), NEW w \in Name, s \in G
        PROVE  Append(s, w) \in G
    <2>1. s \in Seq(Text) /\ w \in Text /\ Append(s, w) \in Seq(Name)
      BY NamesAreText, AppendProperties
    <2>2. JoinedText(Append(s, w)) = JoinedText(s) \o Slash \o w
      BY <2>1, JoinedAppend
    <2>3. JoinedText(s) \in Text
      BY <2>1, JoinedType
    <2>4. Words(JoinedText(s) \o Slash \o w) = Append(Words(JoinedText(s)), w)
      BY <2>3, WordsOfJoin
    <2>5. Words(JoinedText(s)) = s
      BY <1>2
    <2> QED BY <2>1, <2>2, <2>4, <2>5
  <1> HIDE DEF G
  <1>3. names \in G
    BY <1>1, <1>2, AppendInduction
  <1> QED BY <1>3 DEF G

LEMMA WordsOfSlash == Words(Slash) = <<>>
  <1>1. <<>> \in Text /\ Slash \in Text /\ Len(Slash) = Len(<<>>) + 1 /\ Slash[Len(<<>>) + 1] = "/"
    BY EmptyText, SlashFacts
  <1>2. \A i \in 1..Len(<<>>) : Slash[i] = <<>>[i]
    BY EmptyText
  <1>3. Words(Slash) = Words(<<>>)
    BY <1>1, <1>2, WordsBehindSlash
  <1> QED BY <1>3, WordsEmpty

LEMMA WordsOfText ==
    ASSUME NEW names \in Seq(Name)
    PROVE  Words(TextOf(names)) = names
  BY TextOfEmpty, TextOfNames, WordsOfSlash, WordsOfJoined

LEMMA JoinedNonempty ==
    ASSUME NEW names \in Seq(Name)
    PROVE  JoinedText(names) = <<>> <=> names = <<>>
  <1>1. names = <<>> => JoinedText(names) = <<>>
    BY JoinedEmpty
  <1>2. JoinedText(names) = <<>> => names = <<>>
    BY WordsOfJoined, WordsEmpty
  <1> QED BY <1>1, <1>2

(* With one more component. *)
LEMMA TextOfAppend ==
    ASSUME NEW names \in Seq(Name), NEW w \in Name
    PROVE  TextOf(Append(names, w)) = JoinedText(names) \o Slash \o w
  <1>1. names \in Seq(Text) /\ w \in Text
    BY NamesAreText
  <1>2. Append(names, w) # <<>>
    BY AppendProperties
  <1> QED BY <1>1, <1>2, JoinedAppend, TextOfNames

-----------------------------------------------------------------------------
(* resolve_path.                                                           *)

(* What resolve_path has when these names are left. *)
Reached(names) == [path |-> JoinedText(names), stack |-> StackOf(names)]
ReachedStates == {Reached(names) : names \in Seq(Name)}

(* ".." removes the last component. *)
LEMMA PoppedJoin ==
    ASSUME NEW s \in Seq(Name), NEW w \in Name
    PROVE  /\ Reached(Append(s, w)).stack # <<>>
           /\ SubSeq(Reached(Append(s, w)).path, 1, Last(Reached(Append(s, w)).stack)) = JoinedText(s)
           /\ Front(Reached(Append(s, w)).stack) = StackOf(s)
  <1> DEFINE t == JoinedText(s)
             u == t \o Slash \o w
             st == StackOf(s)
             l == Len(t)
  <1>1. s \in Seq(Text) /\ w \in Text
    BY NamesAreText
  <1>2. Reached(Append(s, w)).path = u /\ Reached(Append(s, w)).stack = Append(st, l)
    BY <1>1, JoinedAppend DEF Reached
  <1>3. t \in Text /\ st \in Seq(Nat) /\ l \in Nat
    BY <1>1, JoinedType DEF Text
  <1>4. Append(st, l) # <<>> /\ Last(Append(st, l)) = l /\ Front(Append(st, l)) = st
    <2>1. st \in Seq(Nat) /\ l \in Nat
      BY <1>3
    <2> HIDE DEF st, l
    <2> QED BY <2>1, AppendFacts
  <1>5. /\ u \in Text /\ Len(u) = Len(t) + 1 + Len(w) /\ \A i \in 1..Len(t) : u[i] = t[i]
    BY <1>1, <1>3, JoinFacts
  <1>6. Len(w) \in Nat
    BY <1>1 DEF Text
  <1> HIDE DEF t, u, st
  <1>7. SubSeq(u, 1, l) = t
    <2> DEFINE v == SubSeq(u, 1, l)
    <2>1. \A i \in 1..l : u[i] \in Symbol
      BY <1>3, <1>5 DEF Text
    <2>2. 1 \in Int /\ l \in Int
      BY <1>3
    <2> HIDE DEF l
    <2>3. v \in Seq(Symbol) /\ Len(v) = (IF 1 <= l THEN (l - 1) + 1 ELSE 0)
          /\ \A i \in 1..((l - 1) + 1) : v[i] = u[(1 + i) - 1]
      BY <2>1, <2>2, SubSeqProperties
    <2> HIDE DEF v
    <2>4. Len(v) = l
      BY <1>3, <2>3
    <2>5. \A i \in 1..l : v[i] = t[i]
      <3> SUFFICES ASSUME NEW i \in 1..l PROVE v[i] = t[i]
        OBVIOUS
      <3>1. i \in 1..((l - 1) + 1) /\ (1 + i) - 1 = i
        BY <1>3
      <3>2. u[i] = t[i]
        BY <1>5 DEF l
      <3> QED BY <2>3, <3>1, <3>2
    <2>6. t \in Seq(Symbol) /\ Len(t) = l
      BY <1>3 DEF Text, l
    <2>7. v = t
      BY <2>3, <2>4, <2>5, <2>6, SeqEqual
    <2> QED BY <2>7 DEF v
  <1> QED BY <1>2, <1>4, <1>7 DEF l, t, u, st

(* One word: "." changes nothing, ".." takes the last name away, a name is *)
(* added.                                                                  *)
LEMMA ResolveOneWord ==
    ASSUME NEW s \in Seq(Name), NEW word \in Name
    PROVE  /\ word = Dot => ResolveWord(Reached(s), word) = Reached(s)
           /\ word = DotDot /\ s = <<>> => ResolveWord(Reached(s), word) = Reached(s)
           /\ word = DotDot /\ s # <<>> => ResolveWord(Reached(s), word) = Reached(Front(s))
           /\ IsName(word) => ResolveWord(Reached(s), word) = Reached(Append(s, word))
  <1>0. Dot # DotDot
    <2>1. Len(Dot) = 1 /\ Len(DotDot) = 2
      BY DEF Dot, DotDot
    <2> QED BY <2>1
  <1>1. word = Dot => ResolveWord(Reached(s), word) = Reached(s)
    BY <1>0 DEF ResolveWord
  <1>2. ASSUME word = DotDot, s = <<>>
        PROVE  ResolveWord(Reached(s), word) = Reached(s)
    <2>1. Reached(s) = [path |-> <<>>, stack |-> <<>>]
      BY <1>2, JoinedEmpty DEF Reached
    <2>2. ResolveWord(Reached(s), word) = [Reached(s) EXCEPT !.path = <<>>]
      BY <1>0, <1>2, <2>1 DEF ResolveWord
    <2> QED BY <2>1, <2>2
  <1>3. ASSUME word = DotDot, s # <<>>
        PROVE  ResolveWord(Reached(s), word) = Reached(Front(s))
    <2>1. PICK r \in Seq(Name), w \in Name : s = Append(r, w)
      BY <1>3, SequenceEmptyOrAppend
    <2>2. Front(s) = r
      BY <2>1, AppendFacts
    <2>3. /\ Reached(s).stack # <<>>
          /\ SubSeq(Reached(s).path, 1, Last(Reached(s).stack)) = JoinedText(r)
          /\ Front(Reached(s).stack) = StackOf(r)
      BY <2>1, PoppedJoin
    <2>4. ResolveWord(Reached(s), word) = [path |-> SubSeq(Reached(s).path, 1, Last(Reached(s).stack)),
                                      stack |-> Front(Reached(s).stack)]
      BY <1>0, <1>3, <2>3 DEF ResolveWord
    <2> QED BY <2>2, <2>3, <2>4 DEF Reached
  <1>4. ASSUME IsName(word)
        PROVE  ResolveWord(Reached(s), word) = Reached(Append(s, word))
    <2>1. s \in Seq(Text) /\ word \in Text
      BY NamesAreText
    <2>2. ResolveWord(Reached(s), word) = [path |-> Reached(s).path \o Slash \o word,
                                      stack |-> Append(Reached(s).stack, Len(Reached(s).path))]
      BY <1>4 DEF ResolveWord, IsName
    <2>3. Reached(Append(s, word)) = [path |-> JoinedText(s) \o Slash \o word,
                                 stack |-> Append(StackOf(s), Len(JoinedText(s)))]
      BY <2>1, JoinedAppend DEF Reached
    <2>4. Reached(s).path = JoinedText(s) /\ Reached(s).stack = StackOf(s)
      BY DEF Reached
    <2> QED BY <2>2, <2>3, <2>4
  <1> QED BY <1>1, <1>2, <1>3, <1>4

Counted(B, i, j) == Cardinality({k \in i..j : k \in B})

(* Counting up to one more position. *)
LEMMA CountStep ==
    ASSUME NEW B, NEW i \in Int, NEW j \in Int
    PROVE  /\ Counted(B, i, j) \in Nat
           /\ j < i => Counted(B, i, j) = 0
           /\ i <= j => Counted(B, i, j) = Counted(B, i, j - 1) + (IF j \in B THEN 1 ELSE 0)
  <1> DEFINE C == {k \in i..j : k \in B}
             D == {k \in i..(j - 1) : k \in B}
  <1>1. IsFiniteSet(i..j) /\ IsFiniteSet(i..(j - 1))
    BY FS_Interval
  <1>2. IsFiniteSet(C) /\ IsFiniteSet(D)
    BY <1>1, FS_Subset
  <1>3. Cardinality(C) \in Nat
    BY <1>2, FS_CardinalityType
  <1>4. j < i => Cardinality(C) = 0
    <2>1. j < i => C = {}
      OBVIOUS
    <2> HIDE DEF C
    <2> QED BY <2>1, FS_EmptySet
  <1>5. ASSUME i <= j
        PROVE  Cardinality(C) = Cardinality(D) + (IF j \in B THEN 1 ELSE 0)
    <2>1. j \in B => C = D \cup {j}
      BY <1>5
    <2>2. j \notin B => C = D
      BY <1>5
    <2>3. j \notin D
      OBVIOUS
    <2>4. Cardinality(D) \in Nat
      BY <1>2, FS_CardinalityType
    <2> HIDE DEF C, D
    <2>5. Cardinality(D \cup {j}) = Cardinality(D) + 1
      BY <1>2, <2>3, FS_AddElement
    <2>6. CASE j \in B
      <3>1. Cardinality(C) = Cardinality(D) + 1
        BY <2>1, <2>5, <2>6
      <3> QED BY <2>6, <3>1
    <2>7. CASE j \notin B
      <3>1. Cardinality(C) = Cardinality(D)
        BY <2>2, <2>7
      <3> QED BY <2>4, <2>7, <3>1
    <2> QED BY <2>6, <2>7
  <1> QED BY <1>3, <1>4, <1>5 DEF Counted

(* How many names more than ".." there are among the words i..j. *)
Balance(words, i, j) == Names(words, i, j) - DotDots(words, i, j)
Worth(word) == IF IsName(word) THEN 1 ELSE IF word = DotDot THEN 0 - 1 ELSE 0

LEMMA BalanceStep ==
    ASSUME NEW words, NEW i \in Int, NEW j \in Int
    PROVE  /\ Names(words, i, j) \in Nat /\ DotDots(words, i, j) \in Nat
           /\ Balance(words, i, j) \in Int
           /\ j < i => Balance(words, i, j) = 0
           /\ i <= j => Balance(words, i, j) = Balance(words, i, j - 1) + Worth(words[j])
  <1> DEFINE B == {k \in i..j : IsName(words[k])}
             C == {k \in i..j : words[k] = DotDot}
  <1>1. /\ {k \in i..j : k \in B} = {k \in i..j : IsName(words[k])}
        /\ {k \in i..(j - 1) : k \in B} = {k \in i..(j - 1) : IsName(words[k])}
        /\ {k \in i..j : k \in C} = {k \in i..j : words[k] = DotDot}
        /\ {k \in i..(j - 1) : k \in C} = {k \in i..(j - 1) : words[k] = DotDot}
    <2>1. \A k \in i..(j - 1) : k \in i..j
      OBVIOUS
    <2> QED BY <2>1
  <1>2. i <= j => /\ j \in B <=> IsName(words[j])
                  /\ j \in C <=> words[j] = DotDot
    OBVIOUS
  <1> HIDE DEF B, C
  <1>3. /\ Names(words, i, j) = Counted(B, i, j)
        /\ Names(words, i, j - 1) = Counted(B, i, j - 1)
        /\ DotDots(words, i, j) = Counted(C, i, j)
        /\ DotDots(words, i, j - 1) = Counted(C, i, j - 1)
    BY <1>1 DEF Names, DotDots, Counted
  <1>4. /\ Names(words, i, j) \in Nat
        /\ j < i => Names(words, i, j) = 0
        /\ i <= j => Names(words, i, j) = Names(words, i, j - 1) + (IF j \in B THEN 1 ELSE 0)
    BY <1>3, CountStep
  <1>5. /\ DotDots(words, i, j) \in Nat
        /\ j < i => DotDots(words, i, j) = 0
        /\ i <= j => DotDots(words, i, j) = DotDots(words, i, j - 1) + (IF j \in C THEN 1 ELSE 0)
    BY <1>3, CountStep
  <1>6. Names(words, i, j - 1) \in Nat /\ DotDots(words, i, j - 1) \in Nat
    <2>1. j - 1 \in Int
      OBVIOUS
    <2> QED BY <1>3, <2>1, CountStep
  <1>7. ~(IsName(words[j]) /\ words[j] = DotDot)
    BY DEF IsName
  <1> QED BY <1>2, <1>4, <1>5, <1>6, <1>7 DEF Balance, Worth

(* The positions that are left when the words 1..n have been looked at. *)
Left(words, n) ==
    {i \in 1..n : IsName(words[i]) /\ \A j \in i+1..n : Balance(words, i + 1, j) >= 0}

LEMMA LeftIsSurvivors ==
    ASSUME NEW words \in Seq(Name)
    PROVE  Left(words, Len(words)) = Survivors(words)
  <1>1. DOMAIN words = 1..Len(words)
    OBVIOUS
  <1>2. ASSUME NEW i \in 1..Len(words), NEW j \in i+1..Len(words)
        PROVE  Balance(words, i + 1, j) >= 0 <=>
                  DotDots(words, i + 1, j) <= Names(words, i + 1, j)
    <2>1. Names(words, i + 1, j) \in Nat /\ DotDots(words, i + 1, j) \in Nat
      <3>1. i + 1 \in Int /\ j \in Int
        OBVIOUS
      <3> QED BY <3>1, BalanceStep
    <2> QED BY <2>1 DEF Balance
  <1> QED BY <1>1, <1>2 DEF Left, Survivors

(* One more word. *)
LEMMA LeftStep ==
    ASSUME NEW words, NEW n \in Nat \ {0}
    PROVE  \A i : i \in Left(words, n) <=>
              \/ i = n /\ IsName(words[n])
              \/ i \in Left(words, n - 1) /\ Balance(words, i + 1, n) >= 0
  <1> SUFFICES ASSUME NEW i
               PROVE  i \in Left(words, n) <=>
                         \/ i = n /\ IsName(words[n])
                         \/ i \in Left(words, n - 1) /\ Balance(words, i + 1, n) >= 0
    OBVIOUS
  <1>1. CASE i = n
    <2>1. n \in 1..n /\ n \notin 1..(n - 1) /\ \A j \in n+1..n : FALSE
      OBVIOUS
    <2> QED BY <1>1, <2>1 DEF Left
  <1>2. CASE i # n
    <2>1. i \in 1..n <=> i \in 1..(n - 1)
      BY <1>2
    <2>2. ASSUME i \in 1..(n - 1)
          PROVE  \A j : j \in i+1..n <=> j \in i+1..(n - 1) \/ j = n
      BY <2>2
    <2> QED BY <1>2, <2>1, <2>2 DEF Left
  <1> QED BY <1>1, <1>2

LEMMA DotsDiffer == Dot # DotDot /\ Len(Dot) = 1 /\ Len(DotDot) = 2
  <1>1. Len(Dot) = 1 /\ Len(DotDot) = 2
    BY DEF Dot, DotDot
  <1>2. Dot # DotDot
    BY <1>1
  <1> QED BY <1>1, <1>2

LEMMA ResolveWordType ==
    ASSUME NEW state \in ReachedStates, NEW word \in Name
    PROVE  ResolveWord(state, word) \in ReachedStates
  <1>1. PICK s \in Seq(Name) : state = Reached(s)
    BY DEF ReachedStates
  <1>2. \/ ResolveWord(state, word) = Reached(s)
        \/ s # <<>> /\ ResolveWord(state, word) = Reached(Front(s))
        \/ ResolveWord(state, word) = Reached(Append(s, word))
    BY <1>1, ResolveOneWord DEF IsName
  <1>3. Append(s, word) \in Seq(Name) /\ (s # <<>> => Front(s) \in Seq(Name))
    BY AppendProperties, FrontType
  <1> QED BY <1>2, <1>3 DEF ReachedStates

(* Resolved is what its recursive definition says. *)
LEMMA ResolvedDef ==
    ASSUME NEW words \in Seq(Name)
    PROVE  /\ Resolved(words) \in [0..Len(words) -> ReachedStates]
           /\ Resolved(words)[0] = Reached(<<>>)
           /\ \A n \in 1..Len(words) :
                 Resolved(words)[n] = ResolveWord(Resolved(words)[n - 1], words[n])
  <1> DEFINE N == Len(words)
             X == ReachedStates
             x0 == [path |-> <<>>, stack |-> <<>>]
             Body(g, n) == IF n = 0 THEN x0 ELSE ResolveWord(g[n - 1], words[n])
             IsR(g) == g = [n \in 0..N |-> Body(g, n)]
             Turn == [n \in 1..N |-> [x \in X |-> ResolveWord(x, words[n])]]
             R == Resolved(words)
  <1>1. N \in Nat /\ \A n \in 1..N : words[n] \in Name
    OBVIOUS
  <1>0. x0 = Reached(<<>>) /\ x0 \in X
    <2>1. x0 = Reached(<<>>)
      BY JoinedEmpty DEF Reached
    <2> HIDE DEF x0
    <2> QED BY <2>1, EmptyText DEF ReachedStates
  <1>2. \A n \in 1..N : \A x \in X : ResolveWord(x, words[n]) \in X
    <2> HIDE DEF N
    <2> QED BY <1>1, ResolveWordType
  <1> HIDE DEF N, X
  <1>3. Turn \in [1..N -> [X -> X]]
    BY <1>2
  <1>4. \A n \in 1..N : \A x \in X : Turn[n][x] = ResolveWord(x, words[n])
    OBVIOUS
  <1>5. PICK f \in [0..N -> X] : f[0] = x0 /\ \A n \in 1..N : f[n] = Turn[n][f[n - 1]]
    <2> HIDE DEF Turn, x0
    <2>1. Turn \in TurnFunctions(N, X) /\ N \in Nat /\ x0 \in X
      BY <1>0, <1>1, <1>3 DEF TurnFunctions
    <2>2. \E f \in [0..N -> X] : StepsAlong(f, x0, N, Turn)
      BY <2>1, StepwiseFunction, Zenon
    <2> QED BY <2>2 DEF StepsAlong
  <1>6. IsR(f)
    <2> HIDE DEF x0
    <2> SUFFICES ASSUME NEW n \in 0..N PROVE f[n] = Body(f, n)
      OBVIOUS
    <2>1. CASE n = 0
      BY <1>5, <2>1
    <2>2. CASE n # 0
      <3>1. n \in 1..N /\ n - 1 \in 0..N
        BY <1>1, <2>2
      <3>2. f[n - 1] \in X
        BY <3>1
      <3> HIDE DEF Turn
      <3> QED BY <1>4, <1>5, <2>2, <3>1, <3>2
    <2> QED BY <2>1, <2>2
  <1>7. R = CHOOSE g : IsR(g)
    BY DEF Resolved, N
  <1>8. IsR(R)
    <2> HIDE DEF IsR, R
    <2> QED BY <1>6, <1>7
  <1>9. R[0] = x0 /\ \A n \in 1..N : R[n] = ResolveWord(R[n - 1], words[n])
    <2>1. 0 \in 0..N /\ \A n \in 1..N : n \in 0..N /\ n # 0
      BY <1>1
    <2> HIDE DEF R, x0
    <2> QED BY <1>8, <2>1
  <1>10. \A n \in 0..N : n \in {m \in 0..N : R[m] \in X}
    <2> DEFINE S == {m \in 0..N : R[m] \in X}
    <2> HIDE DEF R, x0
    <2>1. 0 \in S
      BY <1>0, <1>1, <1>9
    <2>2. \A n \in 1..N : n - 1 \in S => n \in S
      BY <1>1, <1>2, <1>9
    <2> HIDE DEF S
    <2>3. \A n \in 0..N : n \in S
      BY <1>1, <2>1, <2>2, BoundedInduction
    <2> QED BY <2>3 DEF S
  <1>11. R \in [0..N -> X]
    <2> HIDE DEF R, Body
    <2> QED BY <1>8, <1>10
  <1> QED BY <1>0, <1>9, <1>11 DEF N, X

-----------------------------------------------------------------------------

(* The words at m positions. *)
Kept(words, s, m) == [k \in 1..m |-> words[s[k]]]

(* When n words have been looked at, resolve_path has those that are left, *)
(* and a ".." would take away the last of them.                            *)
HasLeft(words, n, s, m) ==
    /\ IsAscending(s, m, Left(words, n))
    /\ \A k \in 1..m : Balance(words, s[k] + 1, n) = m - k
    /\ Resolved(words)[n] = Reached(Kept(words, s, m))

LEMMA KeptType ==
    ASSUME NEW words \in Seq(Name), NEW n \in 0..Len(words), NEW m \in Nat, NEW s,
           IsAscending(s, m, Left(words, n))
    PROVE  /\ \A k \in 1..m : s[k] \in Left(words, n) /\ s[k] \in 1..n /\ s[k] \in 1..Len(words)
           /\ Kept(words, s, m) \in Seq(Name) /\ Len(Kept(words, s, m)) = m
  <1>1. \A i \in Left(words, n) : i \in 1..n /\ i \in 1..Len(words)
    BY DEF Left
  <1>2. \A k \in 1..m : s[k] \in Left(words, n)
    BY DEF IsAscending
  <1>3. \A i \in 1..Len(words) : words[i] \in Name
    OBVIOUS
  <1>4. Kept(words, s, m) \in [1..m -> Name]
    BY <1>1, <1>2, <1>3 DEF Kept
  <1>5. Kept(words, s, m) \in Seq(Name) /\ Len(Kept(words, s, m)) = m
    BY <1>4, SeqDef
  <1> QED BY <1>1, <1>2, <1>5

LEMMA HasLeftNothing ==
    ASSUME NEW words \in Seq(Name)
    PROVE  HasLeft(words, 0, [k \in 1..0 |-> 0], 0)
  <1>1. Left(words, 0) = {}
    BY DEF Left
  <1>2. IsAscending([k \in 1..0 |-> 0], 0, {})
    BY DEF IsAscending
  <1>3. Kept(words, [k \in 1..0 |-> 0], 0) = <<>>
    BY DEF Kept
  <1>4. Resolved(words)[0] = Reached(<<>>)
    BY ResolvedDef
  <1>5. \A k \in 1..0 : FALSE
    OBVIOUS
  <1> HIDE DEF Kept
  <1> QED BY <1>1, <1>2, <1>3, <1>4, <1>5, Zenon DEF HasLeft

(* "." leaves everything as it was; so does ".." if nothing is left. *)
LEMMA HasLeftSame ==
    ASSUME NEW words \in Seq(Name), NEW n \in 1..Len(words), NEW m \in Nat, NEW s,
           HasLeft(words, n - 1, s, m),
           words[n] = Dot \/ (words[n] = DotDot /\ m = 0)
    PROVE  HasLeft(words, n, s, m)
  <1>1. n \in Nat \ {0} /\ n - 1 \in 0..Len(words) /\ words[n] \in Name /\ ~IsName(words[n])
    BY DEF IsName
  <1>2. IsAscending(s, m, Left(words, n - 1))
    BY DEF HasLeft
  <1>3. /\ \A k \in 1..m : s[k] \in Left(words, n - 1) /\ s[k] \in 1..(n - 1)
        /\ Kept(words, s, m) \in Seq(Name) /\ Len(Kept(words, s, m)) = m
    BY <1>1, <1>2, KeptType
  <1>4. ASSUME NEW k \in 1..m
        PROVE  Balance(words, s[k] + 1, n) = m - k
    <2>1. words[n] = Dot
      OBVIOUS
    <2>2. Worth(words[n]) = 0
      BY <2>1, DotsDiffer DEF Worth, IsName
    <2>3. s[k] + 1 \in Int /\ n \in Int /\ s[k] + 1 <= n
      BY <1>1, <1>3
    <2>4. Balance(words, s[k] + 1, n) = Balance(words, s[k] + 1, n - 1) + Worth(words[n])
      BY <2>3, BalanceStep
    <2>5. Balance(words, s[k] + 1, n - 1) = m - k
      BY DEF HasLeft
    <2> QED BY <2>2, <2>4, <2>5
  <1>5. Left(words, n) = Left(words, n - 1)
    <2>1. \A i \in Left(words, n - 1) : \E k \in 1..m : s[k] = i
      BY <1>2 DEF IsAscending
    <2>2. \A i \in Left(words, n - 1) : Balance(words, i + 1, n) >= 0
      <3> SUFFICES ASSUME NEW i \in Left(words, n - 1) PROVE Balance(words, i + 1, n) >= 0
        OBVIOUS
      <3>1. PICK k \in 1..m : s[k] = i
        BY <2>1
      <3>2. Balance(words, i + 1, n) = m - k
        BY <1>4, <3>1
      <3> QED BY <3>2
    <2>3. \A i : i \in Left(words, n) <=>
                    i \in Left(words, n - 1) /\ Balance(words, i + 1, n) >= 0
      BY <1>1, LeftStep
    <2>4. \A i : i \in Left(words, n) <=> i \in Left(words, n - 1)
      BY <2>2, <2>3
    <2> QED BY <2>4
  <1>6. Resolved(words)[n] = Reached(Kept(words, s, m))
    <2>1. Resolved(words)[n] = ResolveWord(Resolved(words)[n - 1], words[n])
      BY ResolvedDef
    <2>2. Resolved(words)[n - 1] = Reached(Kept(words, s, m))
      BY DEF HasLeft
    <2>3. m = 0 => Kept(words, s, m) = <<>>
      BY <1>3, EmptySeq
    <2> QED BY <1>1, <1>3, <2>1, <2>2, <2>3, ResolveOneWord
  <1> QED BY <1>2, <1>4, <1>5, <1>6 DEF HasLeft

(* A name is left behind the others. *)
LEMMA HasLeftMore ==
    ASSUME NEW words \in Seq(Name), NEW n \in 1..Len(words), NEW m \in Nat, NEW s,
           HasLeft(words, n - 1, s, m), IsName(words[n])
    PROVE  HasLeft(words, n, [k \in 1..(m + 1) |-> IF k <= m THEN s[k] ELSE n], m + 1)
  <1> DEFINE t == [k \in 1..(m + 1) |-> IF k <= m THEN s[k] ELSE n]
  <1>1. n \in Nat \ {0} /\ n - 1 \in 0..Len(words) /\ words[n] \in Name
    OBVIOUS
  <1>2. IsAscending(s, m, Left(words, n - 1))
    BY DEF HasLeft
  <1>3. /\ \A k \in 1..m : s[k] \in Left(words, n - 1) /\ s[k] \in 1..(n - 1)
        /\ Kept(words, s, m) \in Seq(Name) /\ Len(Kept(words, s, m)) = m
    BY <1>1, <1>2, KeptType
  <1>4. ASSUME NEW k \in 1..m
        PROVE  Balance(words, s[k] + 1, n) = (m + 1) - k
    <2>1. Worth(words[n]) = 1
      BY DEF Worth
    <2>2. s[k] + 1 \in Int /\ n \in Int /\ s[k] + 1 <= n
      BY <1>1, <1>3
    <2>3. Balance(words, s[k] + 1, n) = Balance(words, s[k] + 1, n - 1) + Worth(words[n])
      BY <2>2, BalanceStep
    <2>4. Balance(words, s[k] + 1, n - 1) = m - k
      BY DEF HasLeft
    <2> QED BY <2>1, <2>3, <2>4
  <1>5. Balance(words, n + 1, n) = 0
    <2>1. n + 1 \in Int /\ n \in Int /\ n < n + 1
      BY <1>1
    <2> QED BY <2>1, BalanceStep
  <1>6. Left(words, n) = Left(words, n - 1) \cup {n}
    <2>1. \A i \in Left(words, n - 1) : \E k \in 1..m : s[k] = i
      BY <1>2 DEF IsAscending
    <2>2. \A i \in Left(words, n - 1) : Balance(words, i + 1, n) >= 0
      <3> SUFFICES ASSUME NEW i \in Left(words, n - 1) PROVE Balance(words, i + 1, n) >= 0
        OBVIOUS
      <3>1. PICK k \in 1..m : s[k] = i
        BY <2>1
      <3>2. Balance(words, i + 1, n) = (m + 1) - k
        BY <1>4, <3>1
      <3> QED BY <3>2
    <2> QED BY <1>1, <2>2, LeftStep
  <1>7. IsAscending(t, m + 1, Left(words, n))
    <2> DEFINE B == Left(words, n - 1)
    <2>1. \A b \in B : b \in Int /\ b < n
      BY <1>1 DEF Left
    <2>2. B \in SUBSET Int /\ n \in Int /\ IsAscending(s, m, B)
      BY <1>1, <1>2, <2>1
    <2> HIDE DEF B
    <2>3. IsAscending(t, m + 1, B \cup {n})
      BY <2>1, <2>2, AscendingGrows
    <2> QED BY <1>6, <2>3 DEF B
  <1>8. /\ \A k \in 1..m : k \in 1..(m + 1) /\ t[k] = s[k]
        /\ m + 1 \in 1..(m + 1) /\ t[m + 1] = n
        /\ \A k \in 1..(m + 1) : k \in 1..m \/ k = m + 1
    <2>1. \A k \in 1..m : k \in 1..(m + 1) /\ k <= m
      OBVIOUS
    <2>2. m + 1 \in 1..(m + 1) /\ ~(m + 1 <= m)
      OBVIOUS
    <2>3. \A k \in 1..(m + 1) : k \in 1..m \/ k = m + 1
      OBVIOUS
    <2> QED BY <2>1, <2>2, <2>3
  <1> HIDE DEF t
  <1>9. \A k \in 1..(m + 1) : Balance(words, t[k] + 1, n) = (m + 1) - k
    BY <1>4, <1>5, <1>8
  <1>10. Kept(words, t, m + 1) = Append(Kept(words, s, m), words[n])
    <2> DEFINE r == Kept(words, s, m)
               q == Kept(words, t, m + 1)
    <2>1. r \in Seq(Name) /\ Len(r) = m
      BY <1>3
    <2>2. q \in Seq(Name) /\ Len(q) = m + 1
      <3>1. n \in 0..Len(words) /\ m + 1 \in Nat
        BY <1>1
      <3> QED BY <1>7, <3>1, KeptType
    <2>3. (\A k \in 1..m : q[k] = r[k]) /\ q[m + 1] = words[n]
      BY <1>8 DEF Kept
    <2> HIDE DEF q, r
    <2>4. Append(r, words[n]) = q
      BY <1>1, <2>1, <2>2, <2>3, OneMore
    <2> QED BY <2>4 DEF q, r
  <1>11. Resolved(words)[n] = Reached(Kept(words, t, m + 1))
    <2>1. Resolved(words)[n] = ResolveWord(Resolved(words)[n - 1], words[n])
      BY ResolvedDef
    <2>2. Resolved(words)[n - 1] = Reached(Kept(words, s, m))
      BY DEF HasLeft
    <2> QED BY <1>1, <1>3, <1>10, <2>1, <2>2, ResolveOneWord
  <1>12. HasLeft(words, n, t, m + 1)
    BY <1>7, <1>9, <1>11 DEF HasLeft
  <1> QED BY <1>12 DEF t

(* ".." takes the last one away. *)
LEMMA HasLeftFewer ==
    ASSUME NEW words \in Seq(Name), NEW n \in 1..Len(words), NEW m \in Nat \ {0}, NEW s,
           HasLeft(words, n - 1, s, m), words[n] = DotDot
    PROVE  HasLeft(words, n, [k \in 1..(m - 1) |-> s[k]], m - 1)
  <1> DEFINE t == [k \in 1..(m - 1) |-> s[k]]
  <1>1. n \in Nat \ {0} /\ n - 1 \in 0..Len(words) /\ words[n] \in Name /\ ~IsName(words[n])
    BY DEF IsName
  <1>2. IsAscending(s, m, Left(words, n - 1))
    BY DEF HasLeft
  <1>3. /\ \A k \in 1..m : s[k] \in Left(words, n - 1) /\ s[k] \in 1..(n - 1)
        /\ Kept(words, s, m) \in Seq(Name) /\ Len(Kept(words, s, m)) = m
    BY <1>1, <1>2, KeptType
  <1>4. ASSUME NEW k \in 1..m
        PROVE  Balance(words, s[k] + 1, n) = (m - 1) - k
    <2>1. Worth(words[n]) = 0 - 1
      BY <1>1 DEF Worth
    <2>2. s[k] + 1 \in Int /\ n \in Int /\ s[k] + 1 <= n
      BY <1>1, <1>3
    <2>3. Balance(words, s[k] + 1, n) = Balance(words, s[k] + 1, n - 1) + Worth(words[n])
      BY <2>2, BalanceStep
    <2>4. Balance(words, s[k] + 1, n - 1) = m - k
      BY DEF HasLeft
    <2> QED BY <2>1, <2>3, <2>4
  <1>5. \A k \in 1..(m - 1) : k \in 1..m /\ t[k] = s[k]
    OBVIOUS
  <1>6. \A i : i \in Left(words, n) <=> \E k \in 1..(m - 1) : s[k] = i
    <2>1. \A i \in Left(words, n - 1) : \E k \in 1..m : s[k] = i
      BY <1>2 DEF IsAscending
    <2>2. ASSUME NEW i \in Left(words, n)
          PROVE  \E k \in 1..(m - 1) : s[k] = i
      <3>1. i \in Left(words, n - 1) /\ Balance(words, i + 1, n) >= 0
        BY <1>1, LeftStep
      <3>2. PICK k \in 1..m : s[k] = i
        BY <2>1, <3>1
      <3>3. (m - 1) - k >= 0
        BY <1>4, <3>1, <3>2
      <3> QED BY <3>2, <3>3
    <2>3. ASSUME NEW k \in 1..(m - 1)
          PROVE  s[k] \in Left(words, n)
      <3>1. s[k] \in Left(words, n - 1) /\ Balance(words, s[k] + 1, n) = (m - 1) - k
        BY <1>3, <1>4, <1>5
      <3>2. Balance(words, s[k] + 1, n) >= 0
        BY <3>1
      <3> QED BY <1>1, <3>1, <3>2, LeftStep
    <2> QED BY <2>2, <2>3
  <1> HIDE DEF t
  <1>7. IsAscending(t, m - 1, Left(words, n))
    <2>1. t \in [1..(m - 1) -> Left(words, n)]
      BY <1>6 DEF t
    <2>2. \A i, j \in 1..(m - 1) : i < j => t[i] < t[j]
      BY <1>2, <1>5 DEF IsAscending
    <2> QED BY <1>5, <1>6, <2>1, <2>2 DEF IsAscending
  <1>8. \A k \in 1..(m - 1) : Balance(words, t[k] + 1, n) = (m - 1) - k
    BY <1>4, <1>5
  <1>9. Kept(words, t, m - 1) = Front(Kept(words, s, m))
    <2> DEFINE r == Kept(words, s, m)
    <2>1. Len(r) - 1 = m - 1 /\ \A k \in 1..(m - 1) : r[k] = words[s[k]]
      BY <1>3, <1>5 DEF Kept
    <2>2. Front(r) = SubSeq(r, 1, Len(r) - 1)
      BY DEF Front
    <2>3. SubSeq(r, 1, m - 1) = [k \in 1..(m - 1) |-> r[k]]
      BY DEF SubSeq
    <2>4. Kept(words, t, m - 1) = [k \in 1..(m - 1) |-> words[s[k]]]
      BY <1>5 DEF Kept
    <2> HIDE DEF r
    <2>5. Front(r) = Kept(words, t, m - 1)
      BY <2>1, <2>2, <2>3, <2>4
    <2> QED BY <2>5 DEF r
  <1>10. Resolved(words)[n] = Reached(Kept(words, t, m - 1))
    <2>1. Resolved(words)[n] = ResolveWord(Resolved(words)[n - 1], words[n])
      BY ResolvedDef
    <2>2. Resolved(words)[n - 1] = Reached(Kept(words, s, m))
      BY DEF HasLeft
    <2>3. Kept(words, s, m) # <<>>
      BY <1>3
    <2> QED BY <1>1, <1>3, <1>9, <2>1, <2>2, <2>3, ResolveOneWord
  <1>11. HasLeft(words, n, t, m - 1)
    BY <1>7, <1>8, <1>10 DEF HasLeft
  <1> QED BY <1>11 DEF t

(* resolve_path keeps the names that the ".." behind them do not reach, in *)
(* their order.                                                            *)
LEMMA ResolvedNames ==
    ASSUME NEW words \in Seq(Name)
    PROVE  /\ Selected(words, Survivors(words)) \in Seq(Name)
           /\ Resolved(words)[Len(words)] = Reached(Selected(words, Survivors(words)))
  <1> DEFINE Inv(n) == \E m \in Nat : \E s : HasLeft(words, n, s, m)
             S == {n \in 0..Len(words) : Inv(n)}
  <1>1. Len(words) \in Nat
    OBVIOUS
  <1>2. 0 \in S
    <2>1. 0 \in 0..Len(words) /\ 0 \in Nat
      BY <1>1
    <2> QED BY <2>1, HasLeftNothing
  <1>3. ASSUME NEW n \in 1..Len(words), n - 1 \in S
        PROVE  n \in S
    <2>0. PICK m \in Nat : \E s : HasLeft(words, n - 1, s, m)
      BY <1>3
    <2>1. PICK s : HasLeft(words, n - 1, s, m)
      BY <2>0
    <2>2. n \in 0..Len(words)
      OBVIOUS
    <2>3. CASE words[n] = Dot \/ (words[n] = DotDot /\ m = 0)
      BY <2>1, <2>2, <2>3, HasLeftSame
    <2>4. CASE words[n] = DotDot /\ m # 0
      <3>1. m \in Nat \ {0} /\ m - 1 \in Nat
        BY <2>4
      <3> QED BY <2>1, <2>2, <2>4, <3>1, HasLeftFewer
    <2>5. CASE IsName(words[n])
      <3>1. m + 1 \in Nat
        OBVIOUS
      <3> QED BY <2>1, <2>2, <2>5, <3>1, HasLeftMore
    <2> QED BY <2>3, <2>4, <2>5 DEF IsName
  <1>4. Len(words) \in S
    <2> HIDE DEF S
    <2>1. Len(words) \in 0..Len(words)
      BY <1>1
    <2> QED BY <1>1, <1>2, <1>3, <2>1, BoundedInduction
  <1>0. PICK m \in Nat : \E s : HasLeft(words, Len(words), s, m)
    BY <1>4
  <1>5. PICK s : HasLeft(words, Len(words), s, m)
    BY <1>0
  <1> DEFINE B == Survivors(words)
  <1>6. IsAscending(s, m, B)
    BY <1>5, LeftIsSurvivors DEF HasLeft
  <1>7. Cardinality(B) = m /\ Ascending(B) = s
    <2>1. B \in SUBSET Int
      <3>1. DOMAIN words \subseteq Int
        OBVIOUS
      <3> QED BY <3>1 DEF Survivors
    <2> HIDE DEF B
    <2> QED BY <1>6, <2>1, AscendingIsUnique
  <1>8. Selected(words, B) = Kept(words, s, m)
    BY <1>7 DEF Selected, Kept
  <1>9. Kept(words, s, m) \in Seq(Name)
    <2>1. Len(words) \in 0..Len(words) /\ IsAscending(s, m, Left(words, Len(words)))
      BY <1>1, <1>5 DEF HasLeft
    <2> QED BY <2>1, KeptType
  <1> QED BY <1>5, <1>8, <1>9 DEF HasLeft

(* Whatever text with a "/" in front resolve_path is given, with any       *)
(* number of ".", ".." and "/", the result is the canonical text of what   *)
(* it means: every name that no ".." behind it takes away.                 *)
THEOREM ResolvePathIsMeaning ==
    ASSUME NEW text \in Text, text # <<>>, Head(text) = "/"
    PROVE  /\ Meaning(text) \in Seq(Name)
           /\ ResolvePath(text) = TextOf(Meaning(text))
  <1> DEFINE words == Words(text)
             names == Selected(words, Survivors(words))
  <1>1. words \in Seq(Name)
    BY WordsAreNames
  <1>2. names \in Seq(Name) /\ Resolved(words)[Len(words)] = Reached(names)
    <2> HIDE DEF words
    <2> QED BY <1>1, ResolvedNames
  <1>3. Meaning(text) = names
    BY DEF Meaning
  <1>4. Resolved(words)[Len(words)].path = JoinedText(names)
    <2> HIDE DEF names, words
    <2> QED BY <1>2 DEF Reached
  <1>5. ResolvePath(text) = IF JoinedText(names) = <<>> THEN Slash ELSE JoinedText(names)
    <2> HIDE DEF names
    <2> QED BY <1>4 DEF ResolvePath
  <1>6. JoinedText(names) = <<>> <=> names = <<>>
    <2> HIDE DEF names, words
    <2> QED BY <1>2, JoinedNonempty
  <1> HIDE DEF names
  <1> QED BY <1>2, <1>3, <1>5, <1>6, TextOfEmpty, TextOfNames

ImageOf(f, S) == {f[x] : x \in S}

(* As many as the elements of a set that is named one to one. *)
LEMMA ListedImage ==
    ASSUME NEW S, IsFiniteSet(S), NEW T, NEW f \in [S -> T],
           \A x, y \in S : f[x] = f[y] => x = y
    PROVE  /\ InSomeOrder(ImageOf(f, S)) \in Seq(T)
           /\ Len(InSomeOrder(ImageOf(f, S))) = Cardinality(S)
           /\ Range(InSomeOrder(ImageOf(f, S))) = ImageOf(f, S)
           /\ IsInjective(InSomeOrder(ImageOf(f, S)))
  <1> DEFINE B == ImageOf(f, S)
  <1>1. f \in Bijection(S, B)
    BY DEF ImageOf, Bijection, Injection, Surjection, IsInjective
  <1>2. IsFiniteSet(B) /\ Cardinality(B) = Cardinality(S)
    <2>1. ExistsBijection(S, B)
      BY <1>1 DEF ExistsBijection
    <2> HIDE DEF B
    <2> QED BY <2>1, FS_Bijection
  <1>3. B \subseteq T
    BY DEF ImageOf
  <1> HIDE DEF B
  <1>4. Lists(InSomeOrder(B), B)
    BY <1>2, InSomeOrderLists
  <1>5. Seq(B) \subseteq Seq(T)
    BY <1>3, SeqMonotonic
  <1>6. /\ InSomeOrder(B) \in Seq(T)
        /\ Len(InSomeOrder(B)) = Cardinality(S)
        /\ Range(InSomeOrder(B)) = B
        /\ IsInjective(InSomeOrder(B))
    BY <1>2, <1>4, <1>5 DEF Lists
  <1> QED BY <1>6 DEF B

EntryType == [name : Name \cup {<<>>}, type : {"none", "dir", "file"}, size : Nat]

LEMMA PlacesAreTexts ==
    ASSUME NEW c \in Places
    PROVE  c \in Seq(Text) /\ c # <<>> /\ Last(c) \in Name \cup {<<>>}
  <1>1. c \in Seq(Text) /\ c # <<>>
    <2>1. << <<>> >> \in Seq(Text) /\ << <<>> >> # <<>>
      BY EmptyText
    <2>2. c \in Seq(Name) /\ c # <<>> => c \in Seq(Text)
      BY NamesAreText
    <2> QED BY <2>1, <2>2 DEF Places
  <1>2. Len(c) \in 1..Len(c)
    BY <1>1, EmptySeq
  <1>3. CASE c \in Seq(Name)
    BY <1>1, <1>2, <1>3 DEF Last
  <1>4. CASE c = << <<>> >>
    <2>1. Len(c) = 1 /\ c[1] = <<>>
      BY <1>4
    <2> QED BY <1>1, <2>1 DEF Last
  <1> QED BY <1>3, <1>4 DEF Places

(* Entries of the same directory have different names. *)
LEMMA SameDirectory ==
    ASSUME NEW names \in Seq(Text), NEW c \in Seq(Text), NEW d \in Seq(Text),
           Len(c) = Len(names) + 1, IsPrefix(names, c),
           Len(d) = Len(names) + 1, IsPrefix(names, d), Last(c) = Last(d)
    PROVE  c = d
  <1>1. Len(names) \in Nat
    OBVIOUS
  <1>2. \A i \in 1..Len(names) : c[i] = names[i] /\ d[i] = names[i]
    <2>1. \A i \in 1..Len(names) : SubSeq(c, 1, Len(names))[i] = c[i]
                                   /\ SubSeq(d, 1, Len(names))[i] = d[i]
      BY <1>1 DEF SubSeq
    <2>2. names = SubSeq(c, 1, Len(names)) /\ names = SubSeq(d, 1, Len(names))
      <3>1. SubSeq(names, 1, Len(names)) = names
        BY SubSeqFull
      <3> QED BY <3>1 DEF IsPrefix
    <2> QED BY <2>1, <2>2
  <1>3. c[Len(names) + 1] = d[Len(names) + 1]
    BY DEF Last
  <1>4. \A i \in 1..Len(c) : c[i] = d[i]
    <2>1. \A i \in 1..(Len(names) + 1) : i \in 1..Len(names) \/ i = Len(names) + 1
      BY <1>1
    <2> QED BY <1>2, <1>3, <2>1
  <1> QED BY <1>4, SeqEqual

LEMMA ChildrenFacts ==
    ASSUME IsTree(tree), NEW names \in Seq(Text)
    PROVE  /\ IsFiniteSet(Children(names))
           /\ Cardinality(Children(names)) \in Nat
           /\ \A c \in Children(names) :
                 c \in DOMAIN tree /\ c \in Places /\ c \in Seq(Text)
           /\ \A c, d \in Children(names) : Last(c) = Last(d) => c = d
  <1>1. \A c \in Children(names) : c \in DOMAIN tree /\ c \in Places /\ c \in Seq(Text)
    BY PlacesAreTexts DEF Children, IsTree
  <1>2. IsFiniteSet(Children(names))
    BY FS_Subset DEF Children, IsTree
  <1>3. ASSUME NEW c \in Children(names), NEW d \in Children(names), Last(c) = Last(d)
        PROVE  c = d
    BY <1>1, <1>3, SameDirectory DEF Children
  <1> QED BY <1>1, <1>2, <1>3, FS_CardinalityType

(* What FAT32 says of a node. *)
LEMMA FatStatFacts ==
    ASSUME IsTree(tree), NEW names \in Seq(Text)
    PROVE  /\ FatStat(names) \in EntryType
           /\ names \in DOMAIN tree =>
                 FatStat(names).name = Last(names) /\ FatStat(names).type = tree[names].type
           /\ FatStat(names).type = "dir" <=> IsDirectory(names)
           /\ IsDirectory(names) => FatStat(names).size = Cardinality(Children(names))
           /\ FatStat(names).type = "file" <=> names \in DOMAIN tree /\ tree[names].type = "file"
  <1>1. Cardinality(Children(names)) \in Nat
    BY ChildrenFacts
  <1>2. ASSUME names \in DOMAIN tree
        PROVE  /\ names # <<>> /\ Last(names) \in Name \cup {<<>>}
               /\ tree[names] \in Node /\ Len(tree[names].content) \in Nat
    <2>1. names \in Places /\ tree[names] \in Node
      BY <1>2 DEF IsTree
    <2> QED BY <2>1, PlacesAreTexts DEF Node, Text
  <1>3. <<>> \in Name \cup {<<>>}
    OBVIOUS
  <1>4. CASE IsDirectory(names)
    <2>1. FatStat(names) = Directory(IF names = <<>> THEN <<>> ELSE Last(names),
                                     Cardinality(Children(names)))
      BY <1>4 DEF FatStat
    <2>2. names # <<>> => names \in DOMAIN tree /\ tree[names].type = "dir"
      BY <1>4 DEF IsDirectory
    <2> QED BY <1>1, <1>2, <1>3, <1>4, <2>1, <2>2 DEF Directory, EntryType
  <1>5. CASE ~IsDirectory(names) /\ names \in DOMAIN tree
    <2>1. FatStat(names) = File(Last(names), Len(tree[names].content))
      BY <1>5 DEF FatStat
    <2>2. tree[names].type = "file"
      BY <1>2, <1>5 DEF IsDirectory, Node
    <2> QED BY <1>2, <1>5, <2>1, <2>2 DEF File, EntryType
  <1>6. CASE ~IsDirectory(names) /\ names \notin DOMAIN tree
    <2>1. FatStat(names) = Failed
      BY <1>6 DEF FatStat
    <2> QED BY <1>3, <1>6, <2>1 DEF Failed, EntryType
  <1> QED BY <1>4, <1>5, <1>6

LEMMA FatListing ==
    ASSUME IsTree(tree), NEW names \in Seq(Text)
    PROVE  /\ FatDirStat(names) \in Seq(EntryType)
           /\ Len(FatDirStat(names)) = Cardinality(Children(names))
           /\ Range(FatDirStat(names)) = {FatStat(c) : c \in Children(names)}
           /\ \A i, j \in DOMAIN FatDirStat(names) :
                 FatDirStat(names)[i].name = FatDirStat(names)[j].name => i = j
  <1> DEFINE S == Children(names)
             f == [c \in S |-> FatStat(c)]
  <1>1. \A c \in S : FatStat(c) \in EntryType /\ FatStat(c).name = Last(c)
    BY ChildrenFacts, FatStatFacts
  <1>2. f \in [S -> EntryType]
    BY <1>1
  <1>3. \A c, d \in S : f[c].name = f[d].name => c = d
    BY <1>1, ChildrenFacts
  <1>4. IsFiniteSet(S)
    BY ChildrenFacts
  <1>5. ImageOf(f, S) = {FatStat(c) : c \in S}
    BY DEF ImageOf
  <1> HIDE DEF S
  <1> DEFINE q == InSomeOrder(ImageOf(f, S))
  <1>6. q = FatDirStat(names)
    BY <1>5 DEF FatDirStat, S
  <1>7. /\ q \in Seq(EntryType)
        /\ Len(q) = Cardinality(S)
        /\ Range(q) = ImageOf(f, S)
        /\ IsInjective(q)
    <2> HIDE DEF f
    <2>1. \A x, y \in S : f[x] = f[y] => x = y
      BY <1>3
    <2> QED BY <1>2, <1>4, <2>1, ListedImage
  <1>8. ASSUME NEW i \in DOMAIN q, NEW j \in DOMAIN q, q[i].name = q[j].name
        PROVE  i = j
    <2>1. PICK c \in S, d \in S : q[i] = f[c] /\ q[j] = f[d]
      <3>1. q[i] \in Range(q) /\ q[j] \in Range(q)
        BY DEF Range
      <3> HIDE DEF f, q
      <3> QED BY <1>7, <3>1 DEF ImageOf
    <2> HIDE DEF f, q
    <2>2. q[i] = q[j]
      BY <1>3, <1>8, <2>1
    <2> QED BY <1>7, <2>2 DEF IsInjective
  <1> HIDE DEF f, q
  <1> QED BY <1>5, <1>6, <1>7, <1>8 DEF S

LEMMA NamesOfMounts ==
    /\ Proc \in Name /\ Dev \in Name
    /\ TextOf(<<Proc>>) \in Text /\ TextOf(<<Dev>>) \in Text
    /\ DOMAIN MountPaths = 1..3 /\ \A i \in 1..3 : MountPaths[i] \in Text
    /\ DOMAIN DevNames = 1..3 /\ Len(DevNames) = 3 /\ \A i \in 1..3 : DevNames[i] \in Name
  <1>1. Proc \in Name /\ Dev \in Name
    BY VfsAssumption DEF Proc, Dev, Name, Text
  <1>2. TextOf(<<Proc>>) \in Text /\ TextOf(<<Dev>>) \in Text
    <2>1. <<Proc>> \in Seq(Name) /\ <<Dev>> \in Seq(Name)
      BY <1>1
    <2> QED BY <2>1, TextOfType
  <1>3. DOMAIN MountPaths = 1..3 /\ \A i \in 1..3 : MountPaths[i] \in Text
    BY <1>2, SlashFacts DEF MountPaths
  <1>4. /\ <<"stdin">> \in Name /\ <<"stdout">> \in Name /\ <<"stdout_layered">> \in Name
    BY VfsAssumption DEF Name, Text
  <1>5. DOMAIN DevNames = 1..3 /\ Len(DevNames) = 3 /\ \A i \in 1..3 : DevNames[i] \in Name
    BY <1>4 DEF DevNames
  <1> QED BY <1>1, <1>2, <1>3, <1>5

LEMMA MountsFacts ==
    ASSUME NEW text
    PROVE  /\ MountsIn(text) \in Seq(Text)
           /\ Len(MountsIn(text)) \in Nat
           /\ \A x : x \in Range(MountsIn(text)) <=>
                        \E i \in 1..3 : IsMountIn(i, text) /\ x = MountPaths[i]
  <1> DEFINE B == {i \in DOMAIN MountPaths : IsMountIn(i, text)}
  <1>1. MountPaths \in Seq(Text) /\ Len(MountPaths) = 3
    BY NamesOfMounts, SlashFacts DEF MountPaths
  <1>2. B \in SUBSET (1..Len(MountPaths))
    BY <1>1
  <1>3. MountsIn(text) = Selected(MountPaths, B)
    BY DEF MountsIn
  <1>4. \A i : i \in B <=> i \in 1..3 /\ IsMountIn(i, text)
    BY <1>1
  <1> HIDE DEF B
  <1>5. /\ Selected(MountPaths, B) \in Seq(Text)
        /\ \A x : x \in Range(Selected(MountPaths, B)) <=> \E i \in B : x = MountPaths[i]
    BY <1>1, <1>2, SelectedFacts
  <1> QED BY <1>3, <1>4, <1>5

-----------------------------------------------------------------------------

(* A file tree and the processes that exist. *)
VfsType == IsTree(tree) /\ running \in SUBSET Pid

LEMMA ProcFacts ==
    ASSUME VfsType, NEW text \in Text
    PROVE  /\ ProcStat(text) \in EntryType
           /\ ProcStat(text).type = "dir" <=> text = TextOf(<<Proc>>)
           /\ text = TextOf(<<Proc>>) => ProcStat(text).size = Len(ProcDirStat)
           /\ ProcDirStat \in Seq(EntryType)
           /\ Range(ProcDirStat) = {File(NameOf(pid), 0) : pid \in running}
           /\ IsInjective(ProcDirStat)
  <1> DEFINE f == [pid \in running |-> File(NameOf(pid), 0)]
  <1>1. IsFiniteSet(running) /\ Cardinality(running) \in Nat
    BY VfsAssumption, FS_Subset, FS_CardinalityType DEF VfsType
  <1>2. \A pid \in running : NameOf(pid) \in Name
    BY VfsAssumption DEF VfsType, NameOf, Name, Text
  <1>3. f \in [running -> EntryType]
    BY <1>2 DEF File, EntryType
  <1>4. \A x, y \in running : f[x] = f[y] => x = y
    BY DEF File, NameOf
  <1>5. ProcDirStat = InSomeOrder(ImageOf(f, running))
        /\ ImageOf(f, running) = {File(NameOf(pid), 0) : pid \in running}
    BY DEF ProcDirStat, ImageOf
  <1>6. /\ ProcDirStat \in Seq(EntryType)
        /\ Len(ProcDirStat) = Cardinality(running)
        /\ Range(ProcDirStat) = {File(NameOf(pid), 0) : pid \in running}
        /\ IsInjective(ProcDirStat)
    <2> HIDE DEF f
    <2> QED BY <1>1, <1>3, <1>4, <1>5, ListedImage
  <1>7. CASE text = TextOf(<<Proc>>)
    <2>1. ProcStat(text) = Directory(Proc, Cardinality(running))
      BY <1>7 DEF ProcStat
    <2>2. Proc \in Name
      BY NamesOfMounts
    <2> QED BY <1>1, <1>6, <1>7, <2>1, <2>2 DEF Directory, EntryType
  <1>8. CASE text # TextOf(<<Proc>>)
    <2> DEFINE found == {pid \in running : /\ Len(Words(text)) = 2
                                           /\ FirstNumberIs(Words(text)[2], pid)}
    <2>1. ProcStat(text) = IF found # {} THEN File(NameOf(CHOOSE pid \in found : TRUE), 0)
                                         ELSE Failed
      BY <1>8 DEF ProcStat
    <2>2. ASSUME found # {}
          PROVE  NameOf(CHOOSE pid \in found : TRUE) \in Name
      <3>1. (CHOOSE pid \in found : TRUE) \in found
        BY <2>2
      <3> QED BY <1>2, <3>1
    <2> HIDE DEF found
    <2>3. ProcStat(text).type # "dir" /\ ProcStat(text) \in EntryType
      BY <2>1, <2>2, EmptyText DEF File, Failed, EntryType
    <2> QED BY <1>6, <1>8, <2>3
  <1> QED BY <1>6, <1>7, <1>8

LEMMA DevFacts ==
    ASSUME NEW text \in Text
    PROVE  /\ DevStat(text) \in EntryType
           /\ DevStat(text).type = "dir" <=> text = TextOf(<<Dev>>)
           /\ text = TextOf(<<Dev>>) => DevStat(text).size = Len(DevDirStat)
           /\ DevDirStat \in Seq(EntryType) /\ Len(DevDirStat) = 3
           /\ \A i \in 1..3 : DevDirStat[i] = File(DevNames[i], 0)
  <1> DEFINE b == SplitPath(text).basename
             d == SplitPath(text).dirname
  <1>1. DevDirStat \in Seq(EntryType) /\ Len(DevDirStat) = 3
        /\ \A i \in 1..3 : DevDirStat[i] = File(DevNames[i], 0)
    <2>1. \A i \in 1..3 : File(DevNames[i], 0) \in EntryType
      BY NamesOfMounts DEF File, EntryType
    <2>2. DevDirStat = [i \in 1..3 |-> File(DevNames[i], 0)]
      BY NamesOfMounts DEF DevDirStat
    <2>3. DevDirStat \in [1..3 -> EntryType]
      BY <2>1, <2>2
    <2> QED BY <2>2, <2>3, SeqDef
  <1> HIDE DEF b, d
  <1>2. CASE text = TextOf(<<Dev>>)
    <2>1. DevStat(text) = Directory(Dev, 3)
      BY <1>2, NamesOfMounts DEF DevStat
    <2>2. Dev \in Name
      BY NamesOfMounts
    <2> QED BY <1>1, <1>2, <2>1, <2>2 DEF Directory, EntryType
  <1>3. CASE text # TextOf(<<Dev>>) /\ d = TextOf(<<Dev>>) /\ b \in Range(DevNames)
    <2>1. DevStat(text) = File(b, 0)
      BY <1>3 DEF DevStat, b, d
    <2>2. b \in Name
      BY <1>3, NamesOfMounts DEF Range
    <2> QED BY <1>1, <1>3, <2>1, <2>2 DEF File, EntryType
  <1>4. CASE text # TextOf(<<Dev>>) /\ ~(d = TextOf(<<Dev>>) /\ b \in Range(DevNames))
    <2>1. DevStat(text) = Failed
      BY <1>4 DEF DevStat, b, d
    <2> QED BY <1>1, <1>4, <2>1, EmptyText DEF Failed, EntryType
  <1> QED BY <1>2, <1>3, <1>4

LEMMA HandlerIsOne ==
    ASSUME NEW text
    PROVE  HandlerOf(text) \in {"fat32", "proc", "dev", "none"}
  <1> DEFINE M == {i \in DOMAIN MountPaths : IsPrefix(MountPaths[i], text)}
             Longest(i) == \A j \in M : Len(MountPaths[j]) <= Len(MountPaths[i])
  <1>1. CASE M = {}
    BY <1>1 DEF HandlerOf
  <1>2. CASE M # {}
    <2>1. M \subseteq 1..3
      BY NamesOfMounts
    <2>2. \A i \in M : Len(MountPaths[i]) \in Nat
      BY <2>1, NamesOfMounts DEF Text
    <2>3. \E i \in M : Longest(i)
      <3> DEFINE l == [i \in 1..3 |-> Len(MountPaths[i])]
      <3>1. \A i \in M : l[i] = Len(MountPaths[i]) /\ l[i] \in Nat
        BY <2>1, <2>2
      <3>2. \E i \in M : \A j \in M : l[j] <= l[i]
        <4> DEFINE K == l[1] + l[2] + l[3]
                   D == {K - l[i] : i \in M}
        <4>1. l[1] \in Nat /\ l[2] \in Nat /\ l[3] \in Nat
          BY NamesOfMounts DEF Text
        <4>2. \A i \in M : i = 1 \/ i = 2 \/ i = 3
          BY <2>1
        <4> HIDE DEF M, l
        <4>3. \A i \in M : K - l[i] \in Nat
          BY <4>1, <4>2
        <4>4. D \in SUBSET Nat /\ D # {}
          BY <1>2, <4>3
        <4>5. PICK n \in D : \A k \in D : n <= k
          <5> HIDE DEF D
          <5> QED BY <4>4, SmallestElement
        <4>6. PICK i \in M : n = K - l[i]
          OBVIOUS
        <4>7. ASSUME NEW j \in M
              PROVE  l[j] <= l[i]
          <5>1. K - l[i] <= K - l[j]
            BY <4>5, <4>6
          <5>2. K \in Nat /\ l[i] \in Nat /\ l[j] \in Nat
            BY <3>1, <4>1
          <5> HIDE DEF K
          <5> QED BY <5>1, <5>2
        <4> QED BY <4>7
      <3> HIDE DEF l, M
      <3> QED BY <3>1, <3>2
    <2>4. HandlerOf(text) = Handlers[CHOOSE i \in M : Longest(i)]
      BY <1>2 DEF HandlerOf
    <2>5. (CHOOSE i \in M : Longest(i)) \in 1..3
      <3> HIDE DEF M, Longest
      <3> QED BY <2>1, <2>3
    <2> HIDE DEF M, Longest
    <2>6. PICK c \in 1..3 : HandlerOf(text) = Handlers[c]
      BY <2>4, <2>5
    <2>7. c = 1 \/ c = 2 \/ c = 3
      OBVIOUS
    <2> QED BY <2>6, <2>7 DEF Handlers
  <1> QED BY <1>1, <1>2

LEMMA HandlerStatType ==
    ASSUME VfsType, NEW text \in Text
    PROVE  HandlerStat(text) \in EntryType
  <1>1. Words(text) \in Seq(Name) /\ Words(text) \in Seq(Text)
    BY WordsAreNames, NamesAreText
  <1>2. FatStat(Words(text)) \in EntryType /\ ProcStat(text) \in EntryType
    BY <1>1, FatStatFacts, ProcFacts DEF VfsType
  <1>3. DevStat(text) \in EntryType /\ Failed \in EntryType
    BY DevFacts, EmptyText DEF Failed, EntryType
  <1> QED BY <1>2, <1>3, HandlerIsOne DEF HandlerStat

(* For any path, tree and processes, VFS_DIR_STAT writes as many entries   *)
(* as VFS_STAT says in size, which counts the mounts of mount_points.      *)
THEOREM ListingLength ==
    ASSUME VfsType, NEW text \in Text
    PROVE  /\ Stat(text) \in EntryType
           /\ Stat(text).type = HandlerStat(text).type /\ Stat(text).name = HandlerStat(text).name
           /\ DirStat(text) \in Seq(EntryType)
           /\ Stat(text).type = "dir" => Len(DirStat(text)) = Stat(text).size
  <1> DEFINE e == HandlerStat(text)
             M == MountsIn(text)
             own == CASE HandlerOf(text) = "fat32" -> FatDirStat(Words(text))
                      [] HandlerOf(text) = "proc" -> ProcDirStat
                      [] HandlerOf(text) = "dev" -> DevDirStat
             mounted == [i \in DOMAIN M |-> HandlerStat(M[i])]
  <1>1. e \in EntryType
    BY HandlerStatType
  <1>2. M \in Seq(Text) /\ Len(M) \in Nat
    BY MountsFacts
  <1>3. mounted \in Seq(EntryType) /\ Len(mounted) = Len(M)
    <2>1. \A i \in 1..Len(M) : HandlerStat(M[i]) \in EntryType
      BY <1>2, HandlerStatType
    <2>2. mounted \in [1..Len(M) -> EntryType]
      BY <1>2, <2>1
    <2> QED BY <1>2, <2>2, SeqDef
  <1>4. Stat(text) = IF e.type = "dir" THEN [e EXCEPT !.size = @ + Len(M)] ELSE e
    BY DEF Stat
  <1>5. DirStat(text) = IF e.type # "dir" THEN <<>> ELSE own \o mounted
    BY DEF DirStat
  <1>6. ASSUME e.type = "dir"
        PROVE  own \in Seq(EntryType) /\ Len(own) = e.size
    <2>1. Words(text) \in Seq(Name) /\ Words(text) \in Seq(Text)
      BY WordsAreNames, NamesAreText
    <2>2. CASE HandlerOf(text) = "fat32"
      <3>1. e = FatStat(Words(text)) /\ own = FatDirStat(Words(text))
        BY <2>2 DEF HandlerStat
      <3> QED BY <1>6, <2>1, <3>1, FatStatFacts, FatListing DEF VfsType
    <2>3. CASE HandlerOf(text) = "proc"
      <3>1. e = ProcStat(text) /\ own = ProcDirStat
        BY <2>3 DEF HandlerStat
      <3> QED BY <1>6, <2>1, <3>1, ProcFacts
    <2>4. CASE HandlerOf(text) = "dev"
      <3>1. e = DevStat(text) /\ own = DevDirStat
        BY <2>4 DEF HandlerStat
      <3> QED BY <1>6, <3>1, DevFacts
    <2>5. CASE HandlerOf(text) = "none"
      <3>1. e = Failed
        BY <2>5 DEF HandlerStat
      <3> QED BY <1>6, <3>1 DEF Failed
    <2> QED BY <2>2, <2>3, <2>4, <2>5, HandlerIsOne
  <1> HIDE DEF e, M, own, mounted
  <1>7. Stat(text) \in EntryType /\ Stat(text).type = e.type /\ Stat(text).name = e.name
        /\ (e.type = "dir" => Stat(text).size = e.size + Len(M))
    BY <1>1, <1>2, <1>4 DEF EntryType
  <1>8. DirStat(text) \in Seq(EntryType)
    BY <1>3, <1>5, <1>6, ConcatProperties
  <1>9. ASSUME e.type = "dir"
        PROVE  Len(DirStat(text)) = e.size + Len(M)
    <2>1. own \in Seq(EntryType) /\ Len(own) = e.size
      BY <1>6, <1>9
    <2>2. Len(own \o mounted) = Len(own) + Len(mounted)
      BY <1>3, <2>1, ConcatProperties
    <2> QED BY <1>3, <1>5, <1>9, <2>1, <2>2
  <1> QED BY <1>7, <1>8, <1>9 DEF e

-----------------------------------------------------------------------------
(* split_path.                                                             *)

LEMMA SplitJoin ==
    ASSUME NEW t \in Text, NEW w \in Text, \A i \in 1..Len(w) : w[i] # "/"
    PROVE  SplitPath(t \o Slash \o w) =
              [dirname |-> IF t = <<>> THEN Slash ELSE t, basename |-> w]
  <1> DEFINE u == t \o Slash \o w
             l == Len(t)
             IsLast(i) == u[i] = "/" /\ \A j \in i+1..Len(u) : u[j] # "/"
  <1>1. /\ u \in Text /\ Len(u) = l + 1 + Len(w)
        /\ \A i \in 1..l : u[i] = t[i]
        /\ u[l + 1] = "/"
        /\ \A i \in 1..Len(w) : u[l + 1 + i] = w[i]
    BY JoinFacts
  <1>2. l \in Nat /\ Len(w) \in Nat /\ t \in Seq(Symbol) /\ w \in Seq(Symbol) /\ u \in Seq(Symbol)
    BY <1>1 DEF Text
  <1>3. DOMAIN u = 1..(l + 1 + Len(w))
    BY <1>1, <1>2
  <1> HIDE DEF u, l
  <1>4. \A j \in (l + 1)+1..Len(u) : u[j] # "/"
    <2> SUFFICES ASSUME NEW j \in (l + 1)+1..Len(u) PROVE u[j] # "/"
      OBVIOUS
    <2>1. j - (l + 1) \in 1..Len(w) /\ l + 1 + (j - (l + 1)) = j
      BY <1>1, <1>2
    <2>2. u[j] = w[j - (l + 1)]
      BY <1>1, <2>1
    <2> QED BY <2>1, <2>2
  <1>5. l + 1 \in DOMAIN u /\ IsLast(l + 1)
    BY <1>1, <1>2, <1>3, <1>4
  <1>6. \A i \in DOMAIN u : IsLast(i) => i = l + 1
    <2> SUFFICES ASSUME NEW i \in DOMAIN u, IsLast(i), i # l + 1 PROVE FALSE
      OBVIOUS
    <2>1. i < l + 1 \/ i > l + 1
      BY <1>2, <1>3
    <2>2. i < l + 1 => l + 1 \in i+1..Len(u)
      BY <1>1, <1>2, <1>3
    <2>3. i > l + 1 => i \in (l + 1)+1..Len(u)
      BY <1>1, <1>2, <1>3
    <2> QED BY <1>1, <1>4, <2>1, <2>2, <2>3
  <1>7. (CHOOSE i \in DOMAIN u : IsLast(i)) = l + 1
    <2> HIDE DEF IsLast
    <2> QED BY <1>5, <1>6
  <1>8. SplitPath(u) = [dirname |-> IF l + 1 = 1 THEN Slash ELSE SubSeq(u, 1, (l + 1) - 1),
                        basename |-> SubSeq(u, (l + 1) + 1, Len(u))]
    <2> DEFINE k == CHOOSE i \in DOMAIN u : IsLast(i)
    <2>1. SplitPath(u) = [dirname |-> IF k = 1 THEN Slash ELSE SubSeq(u, 1, k - 1),
                          basename |-> SubSeq(u, k + 1, Len(u))]
      BY DEF SplitPath
    <2> HIDE DEF k
    <2>2. k = l + 1
      BY <1>7 DEF k
    <2> QED BY <2>1, <2>2
  <1>9. SubSeq(u, 1, (l + 1) - 1) = t
    <2>1. SubSeq(u, 1, (l + 1) - 1) = [i \in 1..l |-> u[i]]
      <3>1. (l + 1) - 1 = l
        BY <1>2
      <3> QED BY <1>2, <3>1 DEF SubSeq
    <2>2. t = [i \in 1..l |-> t[i]]
      BY <1>2 DEF l
    <2> QED BY <1>1, <2>1, <2>2
  <1>10. SubSeq(u, (l + 1) + 1, Len(u)) = w
    <2> DEFINE v == SubSeq(u, (l + 1) + 1, Len(u))
               a == (l + 1) + 1
    <2>1. a \in Int /\ Len(u) \in Int /\ \A i \in a..Len(u) : u[i] \in Symbol
      BY <1>1, <1>2
    <2>2. /\ v \in Seq(Symbol) /\ Len(v) = (IF a <= Len(u) THEN (Len(u) - a) + 1 ELSE 0)
          /\ \A i \in 1..((Len(u) - a) + 1) : v[i] = u[(a + i) - 1]
      <3> HIDE DEF a
      <3>1. /\ SubSeq(u, a, Len(u)) \in Seq(Symbol)
            /\ Len(SubSeq(u, a, Len(u))) = (IF a <= Len(u) THEN (Len(u) - a) + 1 ELSE 0)
            /\ \A i \in 1..((Len(u) - a) + 1) : SubSeq(u, a, Len(u))[i] = u[(a + i) - 1]
        BY <2>1, SubSeqProperties
      <3> QED BY <3>1 DEF a
    <2> HIDE DEF v
    <2>3. Len(v) = Len(w)
      BY <1>1, <1>2, <2>2
    <2>4. \A i \in 1..Len(w) : v[i] = w[i]
      <3> SUFFICES ASSUME NEW i \in 1..Len(w) PROVE v[i] = w[i]
        OBVIOUS
      <3>1. i \in 1..((Len(u) - a) + 1) /\ (a + i) - 1 = l + 1 + i
        BY <1>1, <1>2
      <3> QED BY <1>1, <2>2, <3>1
    <2>5. v = w
      BY <1>2, <2>2, <2>3, <2>4, SeqEqual
    <2> QED BY <2>5 DEF v
  <1>11. l + 1 = 1 <=> t = <<>>
    BY <1>2, EmptySeq DEF l
  <1> QED BY <1>8, <1>9, <1>10, <1>11 DEF u

(* The texts that resolve_path gives. *)
Canonical == {TextOf(names) : names \in Seq(Name)}

LEMMA SplitCanonical ==
    /\ SplitPath(Slash) = [dirname |-> Slash, basename |-> <<>>]
    /\ \A names \in Seq(Name) : \A w \in Name :
          SplitPath(TextOf(Append(names, w))) = [dirname |-> TextOf(names), basename |-> w]
  <1>1. SplitPath(Slash) = [dirname |-> Slash, basename |-> <<>>]
    <2>1. <<>> \o Slash \o <<>> = Slash
      <3>1. Slash \in Seq(Symbol)
        BY SlashFacts DEF Text
      <3> QED BY <3>1, ConcatEmptySeq
    <2>2. <<>> \in Text /\ \A i \in 1..Len(<<>>) : <<>>[i] # "/"
      BY EmptyText
    <2>3. SplitPath(<<>> \o Slash \o <<>>) =
              [dirname |-> IF <<>> = <<>> THEN Slash ELSE <<>>, basename |-> <<>>]
      BY <2>2, SplitJoin
    <2> QED BY <2>1, <2>3
  <1>2. ASSUME NEW names \in Seq(Name), NEW w \in Name
        PROVE  SplitPath(TextOf(Append(names, w))) = [dirname |-> TextOf(names), basename |-> w]
    <2> DEFINE t == JoinedText(names)
    <2>1. TextOf(Append(names, w)) = t \o Slash \o w
      BY TextOfAppend
    <2>2. t \in Text /\ w \in Text /\ \A i \in 1..Len(w) : w[i] # "/"
      BY NamesAreText, JoinedType DEF Name
    <2>3. t = <<>> <=> names = <<>>
      BY JoinedNonempty
    <2>4. names # <<>> => TextOf(names) = t
      BY TextOfNames
    <2> HIDE DEF t
    <2>5. SplitPath(t \o Slash \o w) = [dirname |-> IF t = <<>> THEN Slash ELSE t, basename |-> w]
      BY <2>2, SplitJoin
    <2> QED BY <2>1, <2>3, <2>4, <2>5, TextOfEmpty
  <1> QED BY <1>1, <1>2

LEMMA CanonicalFacts ==
    ASSUME NEW text \in Canonical
    PROVE  /\ text \in Text /\ text # <<>> /\ Head(text) = "/"
           /\ Words(text) \in Seq(Name) /\ TextOf(Words(text)) = text
           /\ text = Slash <=> Words(text) = <<>>
  <1>1. PICK names \in Seq(Name) : text = TextOf(names)
    BY DEF Canonical
  <1>2. Words(text) = names /\ text \in Text
    BY <1>1, WordsOfText, TextOfType
  <1>3. text # <<>> /\ Head(text) = "/"
    <2>1. CASE names = <<>>
      BY <1>1, <2>1, TextOfEmpty, SlashFacts
    <2>2. CASE names # <<>>
      <3> DEFINE G == {s \in Seq(Name) : s # <<>> => /\ JoinedText(s) # <<>>
                                                     /\ Head(JoinedText(s)) = "/"}
      <3>1. <<>> \in G
        BY EmptyText
      <3>2. ASSUME NEW s \in Seq(Name), NEW w \in Name, s \in G
            PROVE  Append(s, w) \in G
        <4> DEFINE t == JoinedText(s)
                   u == t \o Slash \o w
        <4>1. Append(s, w) \in Seq(Name) /\ JoinedText(Append(s, w)) = u
          BY NamesAreText, JoinedAppend, AppendProperties
        <4>2. t \in Text /\ w \in Text
          BY NamesAreText, JoinedType
        <4>3. /\ u \in Text /\ Len(u) = Len(t) + 1 + Len(w)
              /\ \A i \in 1..Len(t) : u[i] = t[i]
              /\ u[Len(t) + 1] = "/"
          BY <4>2, JoinFacts
        <4>4. Len(t) \in Nat /\ Len(w) \in Nat /\ t \in Seq(Symbol) /\ u \in Seq(Symbol)
          BY <4>2, <4>3 DEF Text
        <4>5. s = <<>> => t = <<>>
          BY JoinedEmpty
        <4>6. s # <<>> => t # <<>> /\ Head(t) = "/"
          BY <3>2
        <4> HIDE DEF t, u
        <4>7. u # <<>> /\ u[1] = "/"
          <5>1. CASE t = <<>>
            <6>1. Len(t) = 0
              BY <5>1
            <6> QED BY <4>3, <4>4, <6>1
          <5>2. CASE t # <<>>
            <6>1. t[1] = "/" /\ 1 \in 1..Len(t)
              BY <4>4, <4>5, <4>6, <5>2, EmptySeq
            <6> QED BY <4>3, <4>4, <6>1
          <5> QED BY <5>1, <5>2
        <4>8. Head(u) = u[1]
          BY <4>4, <4>7
        <4> QED BY <4>1, <4>7, <4>8
      <3> HIDE DEF G
      <3>3. names \in G
        BY <3>1, <3>2, AppendInduction
      <3> QED BY <1>1, <2>2, <3>3, TextOfNames DEF G
    <2> QED BY <2>1, <2>2
  <1>4. text = Slash <=> names = <<>>
    BY <1>1, <1>2, TextOfEmpty, WordsOfSlash
  <1> QED BY <1>1, <1>2, <1>3, <1>4

(* What a file or directory of that path would be in the tree. *)
LEMMA PlaceOfText ==
    ASSUME NEW text \in Canonical
    PROVE  /\ Place(text) \in Places
           /\ text = Slash => Place(text) = << <<>> >>
           /\ text # Slash => Place(text) = Words(text) /\ Words(text) # <<>>
           /\ TextOf(Place(text)) = text
  <1>1. Words(text) \in Seq(Name) /\ TextOf(Words(text)) = text /\ (text = Slash <=> Words(text) = <<>>)
    BY CanonicalFacts
  <1>2. CASE text = Slash
    <2>1. Place(text) = Append(<<>>, <<>>)
      BY <1>2, SplitCanonical, WordsOfSlash DEF Place
    <2>2. Append(<<>>, <<>>) = << <<>> >>
      OBVIOUS
    <2>3. TextOf(<< <<>> >>) = Slash
      <3>1. <<>> \in Text /\ << <<>> >> # <<>> /\ << <<>> >> = Append(<<>>, <<>>) /\ <<>> \in Seq(Text)
        BY EmptyText
      <3>2. TextOf(<< <<>> >>) = JoinedText(Append(<<>>, <<>>))
        BY <3>1, TextOfNames
      <3>3. JoinedText(Append(<<>>, <<>>)) = JoinedText(<<>>) \o Slash \o <<>>
        BY <3>1, JoinedAppend
      <3>4. <<>> \o Slash \o <<>> = Slash
        <4>1. Slash \in Seq(Symbol)
          BY SlashFacts DEF Text
        <4> QED BY <4>1, ConcatEmptySeq
      <3> QED BY <3>2, <3>3, <3>4, JoinedEmpty
    <2> QED BY <1>2, <2>1, <2>2, <2>3 DEF Places
  <1>3. CASE text # Slash
    <2>1. PICK s \in Seq(Name), w \in Name : Words(text) = Append(s, w)
      BY <1>1, <1>3, SequenceEmptyOrAppend
    <2>2. SplitPath(text) = [dirname |-> TextOf(s), basename |-> w]
      BY <1>1, <2>1, SplitCanonical
    <2>3. Place(text) = Append(s, w)
      BY <2>2, WordsOfText DEF Place
    <2> QED BY <1>1, <1>3, <2>1, <2>3 DEF Places
  <1> QED BY <1>2, <1>3

-----------------------------------------------------------------------------
(* Texts.                                                                  *)

LEMMA JoinTexts ==
    ASSUME NEW s \in Text, NEW t \in Text
    PROVE  /\ s \o t \in Text /\ Len(s \o t) = Len(s) + Len(t) /\ Len(s \o t) \in Nat
           /\ Len(s) \in Nat /\ Len(t) \in Nat
           /\ \A i \in 1..Len(s) : (s \o t)[i] = s[i]
           /\ \A i \in 1..(Len(s) + Len(t)) : i > Len(s) => (s \o t)[i] = t[i - Len(s)]
  <1>1. s \in Seq(Symbol) /\ t \in Seq(Symbol)
    BY DEF Text
  <1>2. /\ s \o t \in Seq(Symbol) /\ Len(s \o t) = Len(s) + Len(t)
        /\ \A i \in 1..(Len(s) + Len(t)) : (s \o t)[i] = IF i <= Len(s) THEN s[i] ELSE t[i - Len(s)]
    BY <1>1, ConcatProperties
  <1>3. Len(s) \in Nat /\ Len(t) \in Nat
    BY <1>1
  <1>4. \A i \in 1..Len(s) : i \in 1..(Len(s) + Len(t)) /\ i <= Len(s)
    BY <1>3
  <1>5. \A i \in 1..(Len(s) + Len(t)) : i > Len(s) => ~(i <= Len(s))
    BY <1>3
  <1> QED BY <1>2, <1>3, <1>4, <1>5 DEF Text

LEMMA PartOfText ==
    ASSUME NEW text \in Text, NEW a \in Nat \ {0}, NEW b \in Int, b <= Len(text)
    PROVE  /\ SubSeq(text, a, b) \in Text
           /\ Len(SubSeq(text, a, b)) = IF a <= b THEN (b - a) + 1 ELSE 0
           /\ \A i \in 1..Len(SubSeq(text, a, b)) : SubSeq(text, a, b)[i] = text[(a + i) - 1]
  <1>1. \A i \in a..b : text[i] \in Symbol
    BY DEF Text
  <1>2. /\ SubSeq(text, a, b) \in Seq(Symbol)
        /\ Len(SubSeq(text, a, b)) = (IF a <= b THEN (b - a) + 1 ELSE 0)
        /\ \A i \in 1..((b - a) + 1) : SubSeq(text, a, b)[i] = text[(a + i) - 1]
    BY <1>1, SubSeqProperties
  <1>3. \A i \in 1..Len(SubSeq(text, a, b)) : i \in 1..((b - a) + 1)
    BY <1>2
  <1> QED BY <1>2, <1>3 DEF Text

(* A text made as long as size. *)
LEMMA ResizeFacts ==
    ASSUME NEW text \in Text, NEW size \in Nat
    PROVE  /\ Resize(text, size) \in Text /\ Len(Resize(text, size)) = size
           /\ \A i \in 1..size : i <= Len(text) => Resize(text, size)[i] = text[i]
  <1> DEFINE l == Len(text)
             m == Min({size, l})
             s == SubSeq(text, 1, m)
             f == [i \in 1..(size - l) |-> "junk"]
  <1>1. l \in Nat
    BY DEF Text
  <1>2. m = IF size <= l THEN size ELSE l
    BY <1>1, TwoNumbers
  <1>3. /\ s \in Text /\ Len(s) = m /\ \A i \in 1..m : s[i] = text[i]
    <2>1. 1 \in Nat \ {0} /\ m \in Int /\ m <= Len(text) /\ 0 <= m
      BY <1>1, <1>2
    <2> HIDE DEF m, s
    <2>2. /\ SubSeq(text, 1, m) \in Text
          /\ Len(SubSeq(text, 1, m)) = IF 1 <= m THEN (m - 1) + 1 ELSE 0
          /\ \A i \in 1..Len(SubSeq(text, 1, m)) : SubSeq(text, 1, m)[i] = text[(1 + i) - 1]
      BY <2>1, PartOfText
    <2>3. Len(SubSeq(text, 1, m)) = m
      BY <2>1, <2>2
    <2>4. \A i \in 1..m : (1 + i) - 1 = i
      BY <2>1
    <2> QED BY <2>2, <2>3, <2>4 DEF s
  <1>4. f \in Text /\ Len(f) = IF size <= l THEN 0 ELSE size - l
    <2>1. "junk" \in Symbol
      BY VfsAssumption
    <2>2. CASE size <= l
      <3>1. 1..(size - l) = 1..0
        BY <1>1, <2>2
      <3>2. f \in [1..0 -> Symbol]
        BY <2>1, <3>1
      <3> HIDE DEF f, l
      <3>3. f \in Seq(Symbol) /\ Len(f) = 0
        BY <3>2, SeqDef
      <3> QED BY <2>2, <3>3 DEF Text
    <2>3. CASE ~(size <= l)
      <3> DEFINE k == size - l
      <3>1. k \in Nat /\ f \in [1..k -> Symbol]
        BY <1>1, <2>1, <2>3
      <3> HIDE DEF f, l, k
      <3>2. f \in Seq(Symbol) /\ Len(f) = k
        BY <3>1, SeqDef
      <3> QED BY <2>3, <3>2 DEF Text, k
    <2> QED BY <2>2, <2>3
  <1>5. Resize(text, size) = s \o f
    BY DEF Resize
  <1> HIDE DEF s, f, m
  <1>6. /\ s \o f \in Text /\ Len(s \o f) = Len(s) + Len(f)
        /\ \A i \in 1..Len(s) : (s \o f)[i] = s[i]
    BY <1>3, <1>4, JoinTexts
  <1>7. Len(s) + Len(f) = size
    BY <1>1, <1>2, <1>3, <1>4
  <1>8. \A i \in 1..size : i <= l => i \in 1..Len(s) /\ i \in 1..m
    BY <1>1, <1>2, <1>3
  <1> QED BY <1>3, <1>5, <1>6, <1>7, <1>8

(* A text that is written over content at pos. *)
LEMMA OverwriteFacts ==
    ASSUME NEW content \in Text, NEW pos \in Nat, NEW text \in Text
    PROVE  /\ Overwrite(content, pos, text) \in Text
           /\ Len(Overwrite(content, pos, text)) =
                 IF Len(content) <= pos + Len(text) THEN pos + Len(text) ELSE Len(content)
           /\ \A i \in 1..pos : i <= Len(content) => Overwrite(content, pos, text)[i] = content[i]
           /\ \A i \in 1..Len(text) : Overwrite(content, pos, text)[pos + i] = text[i]
           /\ \A i \in 1..Len(content) :
                 i > pos + Len(text) => Overwrite(content, pos, text)[i] = content[i]
  <1> DEFINE c == Len(content)
             l == Len(text)
             a == Resize(content, pos)
             e == SubSeq(content, pos + l + 1, c)
             b == a \o text
             o == b \o e
  <1>1. c \in Nat /\ l \in Nat
    BY DEF Text
  <1>2. a \in Text /\ Len(a) = pos /\ \A i \in 1..pos : i <= c => a[i] = content[i]
    BY ResizeFacts
  <1>3. /\ e \in Text /\ Len(e) = IF c <= pos + l THEN 0 ELSE c - (pos + l)
        /\ \A i \in 1..Len(e) : e[i] = content[pos + l + i]
    <2> DEFINE k == pos + l + 1
    <2>1. k \in Nat \ {0} /\ c \in Int /\ c <= Len(content)
      BY <1>1
    <2>2. e = SubSeq(content, k, c)
      OBVIOUS
    <2> HIDE DEF k, c, e
    <2>3. /\ SubSeq(content, k, c) \in Text
          /\ Len(SubSeq(content, k, c)) = IF k <= c THEN (c - k) + 1 ELSE 0
          /\ \A i \in 1..Len(SubSeq(content, k, c)) : SubSeq(content, k, c)[i] = content[(k + i) - 1]
      BY <2>1, PartOfText
    <2>4. Len(e) = IF c <= pos + l THEN 0 ELSE c - (pos + l)
      BY <1>1, <2>2, <2>3 DEF k
    <2>5. \A i \in 1..Len(e) : (k + i) - 1 = pos + l + i
      BY <1>1, <2>4 DEF k
    <2> QED BY <2>2, <2>3, <2>4, <2>5
  <1>4. Overwrite(content, pos, text) = o
    BY DEF Overwrite
  <1> HIDE DEF a, e
  <1>5. /\ b \in Text /\ Len(b) = pos + l
        /\ \A i \in 1..pos : b[i] = a[i]
        /\ \A i \in 1..(pos + l) : i > pos => b[i] = text[i - pos]
    BY <1>2, JoinTexts
  <1> HIDE DEF b
  <1>6. /\ o \in Text /\ Len(o) = (pos + l) + Len(e)
        /\ \A i \in 1..(pos + l) : o[i] = b[i]
        /\ \A i \in 1..((pos + l) + Len(e)) : i > pos + l => o[i] = e[i - (pos + l)]
    <2>1. b \in Text /\ e \in Text /\ Len(b) = pos + l
      BY <1>3, <1>5
    <2>2. /\ b \o e \in Text /\ Len(b \o e) = Len(b) + Len(e)
          /\ \A i \in 1..Len(b) : (b \o e)[i] = b[i]
          /\ \A i \in 1..(Len(b) + Len(e)) : i > Len(b) => (b \o e)[i] = e[i - Len(b)]
      BY <2>1, JoinTexts
    <2> QED BY <2>1, <2>2
  <1> HIDE DEF o, c, l
  <1>7. Len(o) = IF c <= pos + l THEN pos + l ELSE c
    BY <1>1, <1>3, <1>6
  <1>8. \A i \in 1..pos : i <= c => o[i] = content[i]
    <2> SUFFICES ASSUME NEW i \in 1..pos, i <= c PROVE o[i] = content[i]
      OBVIOUS
    <2>1. i \in 1..(pos + l)
      BY <1>1
    <2> QED BY <1>2, <1>5, <1>6, <2>1
  <1>9. \A i \in 1..l : o[pos + i] = text[i]
    <2> SUFFICES ASSUME NEW i \in 1..l PROVE o[pos + i] = text[i]
      OBVIOUS
    <2>1. pos + i \in 1..(pos + l) /\ pos + i > pos /\ (pos + i) - pos = i
      BY <1>1
    <2>2. o[pos + i] = b[pos + i] /\ b[pos + i] = text[(pos + i) - pos]
      BY <1>5, <1>6, <2>1
    <2> QED BY <2>1, <2>2
  <1>10. \A i \in 1..c : i > pos + l => o[i] = content[i]
    <2> SUFFICES ASSUME NEW i \in 1..c, i > pos + l PROVE o[i] = content[i]
      OBVIOUS
    <2>1. Len(e) = c - (pos + l)
      BY <1>1, <1>3
    <2>2. i - (pos + l) \in 1..Len(e) /\ i \in 1..((pos + l) + Len(e))
          /\ pos + l + (i - (pos + l)) = i
      BY <1>1, <2>1
    <2>3. o[i] = e[i - (pos + l)] /\ e[i - (pos + l)] = content[pos + l + (i - (pos + l))]
      BY <1>3, <1>6, <2>2
    <2> QED BY <2>2, <2>3
  <1> QED BY <1>4, <1>6, <1>7, <1>8, <1>9, <1>10 DEF c, l

(* Where the cluster of the character before a position begins. *)
LEMMA BaseFacts ==
    ASSUME NEW pos \in Nat
    PROVE  /\ Base(pos) \in Nat /\ CLUSTER_SIZE \in Nat \ {0}
           /\ Base(pos) <= pos /\ pos <= Base(pos) + CLUSTER_SIZE
  <1>1. CLUSTER_SIZE \in Nat \ {0}
    BY VfsAssumption
  <1>2. CASE pos = 0
    BY <1>1, <1>2 DEF Base
  <1>3. CASE pos # 0
    <2> DEFINE q == (pos - 1) \div CLUSTER_SIZE
    <2>1. pos - 1 \in Nat
      BY <1>3
    <2>2. q \in Nat /\ q * CLUSTER_SIZE <= pos - 1 /\ pos - 1 < (q + 1) * CLUSTER_SIZE
      BY <1>1, <2>1, Quotients
    <2>3. Base(pos) = q * CLUSTER_SIZE
      BY <1>3 DEF Base
    <2> HIDE DEF q
    <2>4. q * CLUSTER_SIZE \in Nat /\ (q + 1) * CLUSTER_SIZE = q * CLUSTER_SIZE + CLUSTER_SIZE
      BY <1>1, <2>2, Multiples
    <2> DEFINE a == q * CLUSTER_SIZE
               z == (q + 1) * CLUSTER_SIZE
    <2>5. a \in Nat /\ z = a + CLUSTER_SIZE /\ a <= pos - 1 /\ pos - 1 < z /\ Base(pos) = a
      BY <2>2, <2>3, <2>4
    <2> HIDE DEF a, z
    <2> QED BY <1>1, <2>5
  <1> QED BY <1>2, <1>3

LEMMA BufferFacts ==
    ASSUME NEW text \in Text, NEW pos \in Nat
    PROVE  /\ Buffer(text, pos) \in Text /\ Len(Buffer(text, pos)) = CLUSTER_SIZE
           /\ \A i \in 1..CLUSTER_SIZE :
                 Base(pos) + i <= Len(text) => Buffer(text, pos)[i] = text[Base(pos) + i]
  <1> DEFINE b == Base(pos)
             end == b + CLUSTER_SIZE
             r == Resize(text, end)
  <1>1. b \in Nat /\ CLUSTER_SIZE \in Nat \ {0} /\ end \in Nat
    BY BaseFacts
  <1> HIDE DEF b
  <1>2. r \in Text /\ Len(r) = end /\ \A i \in 1..end : i <= Len(text) => r[i] = text[i]
    <2> HIDE DEF end
    <2> QED BY <1>1, ResizeFacts
  <1>3. Buffer(text, pos) = SubSeq(r, b + 1, end)
    BY DEF Buffer, b
  <1> HIDE DEF r
  <1>4. /\ SubSeq(r, b + 1, end) \in Text
        /\ Len(SubSeq(r, b + 1, end)) = CLUSTER_SIZE
        /\ \A i \in 1..CLUSTER_SIZE : SubSeq(r, b + 1, end)[i] = r[b + i]
    <2> DEFINE k == b + 1
               v == SubSeq(r, k, end)
    <2>1. k \in Nat \ {0} /\ end \in Int /\ end <= Len(r)
      BY <1>1, <1>2
    <2>2. /\ v \in Text
          /\ Len(v) = IF k <= end THEN (end - k) + 1 ELSE 0
          /\ \A i \in 1..Len(v) : v[i] = r[(k + i) - 1]
      <3>1. r \in Text
        BY <1>2
      <3> HIDE DEF k, end
      <3> QED BY <2>1, <3>1, PartOfText
    <2>3. Len(v) = CLUSTER_SIZE
      <3> HIDE DEF v
      <3> QED BY <1>1, <2>2
    <2>4. \A i \in 1..CLUSTER_SIZE : (k + i) - 1 = b + i
      BY <1>1
    <2> QED BY <2>2, <2>3, <2>4
  <1>5. \A i \in 1..CLUSTER_SIZE : b + i \in 1..end
    BY <1>1
  <1> QED BY <1>2, <1>3, <1>4, <1>5 DEF b

-----------------------------------------------------------------------------
(* What the system calls make of the tree.                                 *)

LEMMA FreeClustersType ==
    ASSUME IsTree(tree)
    PROVE  FreeClusters \in Int
  <1> DEFINE S == DOMAIN tree
             Body(f, s) == IF s = {} THEN 0 ELSE tree[OneOf(s)].clusters + f[s \ {OneOf(s)}]
             IsG(f) == f = [s \in SUBSET S |-> Body(f, s)]
             Turn == [x \in S |-> [n \in Nat |-> tree[x].clusters + n]]
             F == CHOOSE f : IsG(f)
  <1>0. IsFiniteSet(S) /\ \A x \in S : tree[x].clusters \in Nat
    BY DEF IsTree, Node
  <1> HIDE DEF S
  <1>1. \E f : IsG(f)
    <2>1. Turn \in FoldSteps(S, Nat)
      <3>1. \A x \in S : \A n \in Nat : tree[x].clusters + n \in Nat
        BY <1>0
      <3> QED BY <3>1 DEF FoldSteps
    <2>2. PICK f \in [SUBSET S -> Nat] : FoldsBy(f, S, 0, Turn)
      <3> HIDE DEF Turn
      <3> QED BY <1>0, <2>1, SubsetwiseFunction
    <2>3. ASSUME NEW s \in SUBSET S
          PROVE  f[s] = Body(f, s)
      <3>1. CASE s = {}
        BY <2>2, <3>1 DEF FoldsBy
      <3>2. CASE s # {}
        <4>1. OneOf(s) \in S /\ s \ {OneOf(s)} \in SUBSET S
          BY <3>2 DEF OneOf
        <4>2. f[s \ {OneOf(s)}] \in Nat
          BY <4>1
        <4>3. Turn[OneOf(s)][f[s \ {OneOf(s)}]] = tree[OneOf(s)].clusters + f[s \ {OneOf(s)}]
          BY <4>1, <4>2
        <4> HIDE DEF Turn
        <4> QED BY <2>2, <3>2, <4>3 DEF FoldsBy
      <3> QED BY <3>1, <3>2
    <2>4. IsG(f)
      <3> HIDE DEF Body
      <3> QED BY <2>3
    <2> HIDE DEF IsG
    <2> QED BY <2>4
  <1>2. FreeClusters = Clusters - F[S]
    BY DEF FreeClusters, FoldFunction, FoldFunctionOnSet, MapThenFoldSet, OneOf, S
  <1>3. IsG(F)
    <2> HIDE DEF IsG
    <2> QED BY <1>1
  <1>4. \A s \in SUBSET S : F[s] = Body(F, s)
    <2> HIDE DEF F, Body
    <2> QED BY <1>3
  <1> HIDE DEF F
  <1> DEFINE B == {s \in SUBSET S : F[s] \in Nat}
  <1>5. {} \in B
    BY <1>4
  <1>6. \A s \in SUBSET S : s # {} /\ s \ {OneOf(s)} \in B => s \in B
    <2> SUFFICES ASSUME NEW s \in SUBSET S, s # {}, s \ {OneOf(s)} \in B PROVE F[s] \in Nat
      OBVIOUS
    <2>1. OneOf(s) \in S /\ F[s \ {OneOf(s)}] \in Nat
      BY DEF OneOf
    <2>2. F[s] = tree[OneOf(s)].clusters + F[s \ {OneOf(s)}]
      BY <1>4
    <2> QED BY <1>0, <2>1, <2>2
  <1>7. S \in SUBSET S
    OBVIOUS
  <1>8. S \in B
    <2> HIDE DEF B
    <2> QED BY <1>0, <1>5, <1>6, <1>7, SubsetInduction
  <1> QED BY <1>2, <1>8, VfsAssumption

(* Trees with one node more, less or changed. *)
LEMMA WithoutFacts ==
    ASSUME NEW names
    PROVE  /\ DOMAIN Without(names) = DOMAIN tree \ {names}
           /\ \A n \in DOMAIN Without(names) : Without(names)[n] = tree[n]
           /\ Without(names) = [n \in DOMAIN Without(names) |-> Without(names)[n]]
  BY DEF Without

(* mkfile and mkdir keep the tree a tree. *)
LEMMA MadeIsTree ==
    ASSUME IsTree(tree), NEW text \in Canonical, CanMake(text), NEW type \in {"file", "dir"}
    PROVE  /\ IsTree(Made(text, type))
           /\ DOMAIN Made(text, type) = DOMAIN tree \cup {Place(text)}
           /\ Place(text) \notin DOMAIN tree /\ Place(text) \in Places
           /\ \A n \in DOMAIN tree : Made(text, type)[n] = tree[n]
           /\ Made(text, type)[Place(text)] = [type |-> type, content |-> <<>>, clusters |-> 1]
  <1> DEFINE t == Made(text, type)
             e == [type |-> type, content |-> <<>>, clusters |-> 1]
             names == Place(text)
  <1>1. /\ DOMAIN t = DOMAIN tree \cup {names} /\ t[names] = e
        /\ \A n \in DOMAIN tree : n # names => t[n] = tree[n]
        /\ t = [n \in DOMAIN t |-> t[n]]
    <2>1. t = With(names, e)
      BY DEF Made
    <2> HIDE DEF t, e, names
    <2>2. t = [n \in DOMAIN tree \cup {names} |-> IF n = names THEN e ELSE tree[n]]
      BY <2>1 DEF With
    <2> QED BY <2>2
  <1>2. names \in Places /\ TextOf(names) = text
    BY PlaceOfText
  <1>3. names \notin DOMAIN tree /\ HandlerOf(text) = "fat32" /\ IsDirectory(Front(names))
    BY DEF CanMake
  <1>4. e \in Node
    BY EmptyText DEF Node
  <1>5. IsFiniteSet(DOMAIN tree \cup {names})
    BY FS_AddElement DEF IsTree
  <1> HIDE DEF t, e, names
  <1>6. \A n \in DOMAIN tree : n # names /\ t[n] = tree[n]
    BY <1>1, <1>3
  <1>7. t \in [DOMAIN t -> Node]
    <2>1. \A n \in DOMAIN t : t[n] \in Node
      BY <1>1, <1>4, <1>6 DEF IsTree
    <2> QED BY <1>1, <2>1
  <1>8. ASSUME NEW n \in DOMAIN t
        PROVE  /\ Front(n) = <<>> \/ (Front(n) \in DOMAIN t /\ t[Front(n)].type = "dir")
               /\ HandlerOf(TextOf(n)) = "fat32"
    <2>1. CASE n = names
      BY <1>1, <1>2, <1>3, <1>6, <2>1 DEF IsDirectory
    <2>2. CASE n # names
      <3>1. n \in DOMAIN tree
        BY <1>1, <2>2
      <3> QED BY <1>1, <1>6, <3>1 DEF IsTree
    <2> QED BY <2>1, <2>2
  <1>9. IsTree(t)
    BY <1>1, <1>2, <1>5, <1>7, <1>8 DEF IsTree
  <1> QED BY <1>1, <1>2, <1>3, <1>6, <1>9 DEF t, e, names

LEMMA PrefixOfChild ==
    ASSUME NEW n \in Seq(Text), n # <<>>
    PROVE  Len(n) = Len(Front(n)) + 1 /\ IsPrefix(Front(n), n) /\ Front(n) \in Seq(Text)
  <1>1. PICK s \in Seq(Text), w \in Text : n = Append(s, w)
    BY SequenceEmptyOrAppend
  <1>2. Front(n) = s
    BY <1>1, AppendFacts
  <1>3. Len(n) = Len(s) + 1 /\ \A i \in 1..Len(s) : n[i] = s[i]
    BY <1>1, AppendProperties
  <1>4. Len(s) \in Nat
    OBVIOUS
  <1>5. SubSeq(n, 1, Len(s)) = SubSeq(s, 1, Len(s))
    <2>1. SubSeq(n, 1, Len(s)) = [i \in 1..Len(s) |-> n[i]]
      BY <1>4 DEF SubSeq
    <2>2. SubSeq(s, 1, Len(s)) = [i \in 1..Len(s) |-> s[i]]
      BY <1>4 DEF SubSeq
    <2> QED BY <1>3, <2>1, <2>2
  <1>6. IsPrefix(s, n)
    BY <1>3, <1>4, <1>5 DEF IsPrefix
  <1> QED BY <1>2, <1>3, <1>6

(* delete_vfs keeps the tree a tree. *)
LEMMA WithoutIsTree ==
    ASSUME IsTree(tree), NEW names, Children(names) = {}
    PROVE  IsTree(Without(names))
  <1> DEFINE t == Without(names)
  <1>1. /\ DOMAIN t = DOMAIN tree \ {names} /\ \A n \in DOMAIN t : t[n] = tree[n]
        /\ t = [n \in DOMAIN t |-> t[n]]
    BY WithoutFacts
  <1> HIDE DEF t
  <1>2. IsFiniteSet(DOMAIN t)
    BY <1>1, FS_RemoveElement DEF IsTree
  <1>3. t \in [DOMAIN t -> Node]
    BY <1>1 DEF IsTree
  <1>4. ASSUME NEW n \in DOMAIN t
        PROVE  /\ Front(n) = <<>> \/ (Front(n) \in DOMAIN t /\ t[Front(n)].type = "dir")
               /\ HandlerOf(TextOf(n)) = "fat32"
    <2>1. n \in DOMAIN tree /\ n \in Places
      BY <1>1 DEF IsTree
    <2>2. /\ Front(n) = <<>> \/ (Front(n) \in DOMAIN tree /\ tree[Front(n)].type = "dir")
          /\ HandlerOf(TextOf(n)) = "fat32"
      BY <2>1 DEF IsTree
    <2>3. Front(n) # names
      <3>1. n \in Seq(Text) /\ n # <<>>
        BY <2>1, PlacesAreTexts
      <3>2. Len(n) = Len(Front(n)) + 1 /\ IsPrefix(Front(n), n)
        BY <3>1, PrefixOfChild
      <3> QED BY <2>1, <3>2 DEF Children
    <2> QED BY <1>1, <2>2, <2>3
  <1>5. IsTree(t)
    BY <1>1, <1>2, <1>3, <1>4 DEF IsTree
  <1> QED BY <1>5 DEF t

-----------------------------------------------------------------------------
(* Reading and writing.                                                    *)

Descriptor == [file : Seq(Text) \cup {Deleted}, pos : Nat, buffer : Text, end : Nat]

LEMMA SeenType ==
    ASSUME IsTree(tree), NEW d \in Descriptor, d.file \in DOMAIN tree
    PROVE  Seen(d) \in Text /\ tree[d.file] \in Node /\ tree[d.file].content \in Text
  <1>1. tree[d.file] \in Node /\ tree[d.file].content \in Text /\ d.pos \in Nat /\ d.buffer \in Text
    BY DEF IsTree, Node, Descriptor
  <1>2. Overwrite(tree[d.file].content, Base(d.pos), d.buffer) \in Text
    BY <1>1, BaseFacts, OverwriteFacts
  <1> QED BY <1>1, <1>2 DEF Seen

LEMMA ReadType ==
    ASSUME IsTree(tree), NEW d \in Descriptor, d.file \in DOMAIN tree, NEW size \in Nat
    PROVE  ReadFrom(d, size) \in Text /\ Len(ReadFrom(d, size)) \in Nat
  <1> DEFINE r == Resize(Seen(d), d.end)
             m == Min({d.pos + size, d.end})
  <1>1. d.pos \in Nat /\ d.end \in Nat
    BY DEF Descriptor
  <1>2. r \in Text /\ Len(r) = d.end
    BY <1>1, SeenType, ResizeFacts
  <1>3. m \in Int /\ m <= d.end
    BY <1>1, TwoNumbers
  <1>4. d.pos + 1 \in Nat \ {0}
    BY <1>1
  <1> HIDE DEF r, m
  <1>5. SubSeq(r, d.pos + 1, m) \in Text
    BY <1>2, <1>3, <1>4, PartOfText
  <1>6. ReadFrom(d, size) = SubSeq(r, d.pos + 1, m)
    BY DEF ReadFrom, r, m
  <1> QED BY <1>5, <1>6 DEF Text

LEMMA FittingType ==
    ASSUME IsTree(tree), NEW d \in Descriptor, d.file \in DOMAIN tree, NEW text \in Text
    PROVE  Fitting(d, text) \in Text
  <1> DEFINE room == (tree[d.file].clusters + FreeClusters) * CLUSTER_SIZE - d.pos
             k == Min({Len(text), Max({0, room})})
  <1>1. FreeClusters \in Int /\ CLUSTER_SIZE \in Nat /\ d.pos \in Nat /\ tree[d.file].clusters \in Nat
    BY FreeClustersType, VfsAssumption DEF Descriptor, IsTree, Node
  <1>2. (tree[d.file].clusters + FreeClusters) * CLUSTER_SIZE \in Int
    BY <1>1
  <1>3. room \in Int
    BY <1>1, <1>2
  <1>4. Fitting(d, text) = SubSeq(text, 1, k)
    BY DEF Fitting
  <1> HIDE DEF room
  <1>5. k \in Int /\ k <= Len(text)
    <2> DEFINE z == Max({0, room})
               l == Len(text)
    <2>1. z = IF 0 <= room THEN room ELSE 0
      BY <1>3, TwoNumbers
    <2>2. z \in Int /\ l \in Int
      BY <1>3, <2>1 DEF Text
    <2> HIDE DEF z, l
    <2>3. Min({l, z}) \in Int /\ Min({l, z}) <= l
      BY <2>2, SmallerNumber
    <2> QED BY <2>3 DEF z, l
  <1> HIDE DEF k
  <1> QED BY <1>4, <1>5, PartOfText

LEMMA ClustersForType ==
    ASSUME NEW size \in Nat
    PROVE  ClustersFor(size) \in Nat
  <1>1. CLUSTER_SIZE \in Nat \ {0} /\ (size + CLUSTER_SIZE) - 1 \in Nat
    BY VfsAssumption
  <1>2. (size + CLUSTER_SIZE - 1) \div CLUSTER_SIZE \in Nat
    BY <1>1, Quotients
  <1> DEFINE q == (size + CLUSTER_SIZE - 1) \div CLUSTER_SIZE
  <1>3. ClustersFor(size) = Max({1, q})
    BY DEF ClustersFor
  <1>4. 1 \in Nat /\ q \in Nat
    BY <1>2
  <1> HIDE DEF q
  <1> QED BY <1>3, <1>4, LargerNumber

(* VFS_WRITE keeps the tree a tree. *)
LEMMA WrittenIsTree ==
    ASSUME IsTree(tree), NEW d \in Descriptor, d.file \in DOMAIN tree, NEW text \in Text,
           NEW part \in Text
    PROVE  /\ IsTree(Written(d, text, part))
           /\ DOMAIN Written(d, text, part) = DOMAIN tree
           /\ \A n \in DOMAIN tree : Written(d, text, part)[n].type = tree[n].type
           /\ \A n \in DOMAIN tree : n # d.file => Written(d, text, part)[n] = tree[n]
  <1> DEFINE e == tree[d.file]
             size == IF part = text THEN Max({d.end, d.pos + Len(text)}) ELSE Len(e.content)
             c == Resize(Overwrite(Seen(d), d.pos, part), size)
             k == Max({e.clusters, ClustersFor(d.pos + Len(part))})
             w == [e EXCEPT !.content = c, !.clusters = k]
             t == Written(d, text, part)
  <1>1. e \in Node /\ e.content \in Text /\ Seen(d) \in Text /\ e.clusters \in Nat
    BY SeenType DEF Node
  <1>2. d.pos \in Nat /\ d.end \in Nat /\ Len(text) \in Nat /\ Len(part) \in Nat /\ Len(e.content) \in Nat
    BY <1>1 DEF Descriptor, Text
  <1>3. size \in Nat
    <2> DEFINE a == d.end
               b == d.pos + Len(text)
    <2>1. a \in Nat /\ b \in Nat
      BY <1>2
    <2>2. size = IF part = text THEN Max({a, b}) ELSE Len(e.content)
      OBVIOUS
    <2> HIDE DEF a, b, size, e
    <2>3. Max({a, b}) \in Nat
      BY <2>1, LargerNumber
    <2> QED BY <1>2, <2>2, <2>3
  <1>4. c \in Text
    <2>1. Overwrite(Seen(d), d.pos, part) \in Text
      BY <1>1, <1>2, OverwriteFacts
    <2> HIDE DEF size
    <2> QED BY <1>3, <2>1, ResizeFacts
  <1>5. k \in Nat
    <2>1. d.pos + Len(part) \in Nat
      BY <1>2
    <2>2. ClustersFor(d.pos + Len(part)) \in Nat
      BY <2>1, ClustersForType
    <2> DEFINE a == e.clusters
               b == ClustersFor(d.pos + Len(part))
    <2>3. a \in Nat /\ b \in Nat /\ k = Max({a, b})
      BY <1>1, <2>2
    <2> HIDE DEF a, b, k
    <2> QED BY <2>3, LargerNumber
  <1>6. t = With(d.file, w)
    BY DEF Written
  <1> HIDE DEF c, k, e, size
  <1>7. w \in Node /\ w.type = e.type
    BY <1>1, <1>4, <1>5 DEF Node
  <1> HIDE DEF w
  <1>8. /\ DOMAIN t = DOMAIN tree \cup {d.file} /\ t[d.file] = w
        /\ \A n \in DOMAIN tree : n # d.file => t[n] = tree[n]
        /\ t = [n \in DOMAIN t |-> t[n]]
    <2> DEFINE n0 == d.file
    <2>1. t = With(n0, w)
      BY <1>6
    <2> HIDE DEF n0, t
    <2>3. t = [n \in DOMAIN tree \cup {n0} |-> IF n = n0 THEN w ELSE tree[n]]
      BY <2>1 DEF With
    <2>2. /\ DOMAIN t = DOMAIN tree \cup {n0} /\ t[n0] = w
          /\ \A n \in DOMAIN tree : n # n0 => t[n] = tree[n]
          /\ t = [n \in DOMAIN t |-> t[n]]
      BY <2>3
    <2> QED BY <2>2 DEF n0
  <1> HIDE DEF t
  <1>9. DOMAIN t = DOMAIN tree /\ \A n \in DOMAIN tree : t[n] \in Node /\ t[n].type = tree[n].type
    BY <1>7, <1>8 DEF IsTree, e
  <1>10. t \in [DOMAIN t -> Node]
    BY <1>8, <1>9
  <1>11. IsTree(t)
    BY <1>9, <1>10 DEF IsTree
  <1> QED BY <1>8, <1>9, <1>11 DEF t

-----------------------------------------------------------------------------
(* The invariant.                                                          *)

PartTrees == UNION {[D -> Node] : D \in SUBSET Places}

WorkItem == [op : {"stat", "list", "delete"}, path : Text]

Stages == {"off", "start", "prompt", "stat", "ls", "mkdir", "touch", "del", "del -r", "open", "tac",
           "cat", "mkfile", "open copy", "read", "write", "mv", "find", "find stat", "find list",
           "found", "exec", "exit", "kill"}

ShellRecord == [pc : Stages, cwd : Canonical, line : Lines \cup {NoLine}, path : Canonical,
                to : Canonical, entry : EntryType, from_fd : Descriptor, to_fd : Descriptor,
                buffer : Text, work : Seq(WorkItem), file_list : Seq(Canonical),
                leftover : Seq(Canonical), found : Seq(Canonical), quiet : BOOLEAN,
                failed : BOOLEAN, before : PartTrees]

TypeOK ==
    /\ IsTree(tree) /\ running \in SUBSET Pid
    /\ sh \in [Pid -> ShellRecord]
    /\ foreground \in Seq(Pid) /\ typed \in Nat /\ wild \in BOOLEAN
    /\ uncleared \subseteq Seq(Canonical)

(* A descriptor is of no file yet, of one of the tree, or of a deleted one. *)
Attached(d, t) == d.file \in {<<>>, Deleted} \cup DOMAIN t

(* Only the first item of work may be a listing. *)
HasWork(work) == work # <<>> /\ \A i \in 2..Len(work) : work[i].op # "list"

(* What a shell has at each stage. *)
Sound(s, t) ==
    /\ s.pc \in {"prompt", "start", "off"} =>
          s.line = NoLine /\ s.from_fd = NoDescriptor /\ s.to_fd = NoDescriptor
    /\ s.pc = "del -r" => HasWork(s.work)
    /\ s.pc \in {"find stat", "find list"} => s.file_list # <<>>
    /\ s.pc \in {"mkfile", "open copy", "read", "write", "tac"} => s.from_fd.file # <<>>
    /\ s.pc \in {"read", "write"} => s.to_fd.file # <<>>
    /\ Attached(s.from_fd, t) /\ Attached(s.to_fd, t)

(* Between VFS_STAT and VFS_DIR_STAT. *)
Looking(s) == s.pc \in {"ls", "find list"} \/ (s.pc = "del -r" /\ Head(s.work).op = "list")
LookedAt(s) == CASE s.pc = "ls" -> s.path
                 [] s.pc = "find list" -> Last(s.file_list)
                 [] s.pc \notin {"ls", "find list"} -> Head(s.work).path
Informed(s) == s.quiet /\ Looking(s) => s.entry = Stat(LookedAt(s))

Inv == TypeOK /\ \A p \in Pid : Sound(sh[p], tree) /\ Informed(sh[p])

-----------------------------------------------------------------------------
(* The values that are stored.                                             *)

(* What combine_path gives begins with "/", and resolve_path makes of it   *)
(* the canonical form of what it means.                                    *)
LEMMA CombinedFacts ==
    ASSUME NEW base \in Canonical, NEW next \in Text
    PROVE  /\ CombinePath(base, next) \in Text
           /\ ResolvePath(CombinePath(base, next)) = TextOf(Meaning(CombinePath(base, next)))
           /\ ResolvePath(CombinePath(base, next)) \in Canonical
  <1> DEFINE u == CombinePath(base, next)
  <1>1. base \in Text /\ base # <<>> /\ Head(base) = "/"
    BY CanonicalFacts
  <1>2. u \in Text /\ u # <<>> /\ Head(u) = "/"
    <2>1. CASE next = <<>>
      BY <1>1, <2>1 DEF CombinePath
    <2>2. CASE next # <<>> /\ Head(next) = "/"
      BY <2>2 DEF CombinePath
    <2>3. CASE next # <<>> /\ ~(Head(next) = "/")
      <3>1. u = base \o Slash \o next
        BY <2>3 DEF CombinePath
      <3>2. base \o Slash \in Text /\ Len(base \o Slash) \in Nat
        BY <1>1, SlashFacts, JoinTexts
      <3>3. base \o Slash \o next \in Text
        BY <3>2, JoinTexts
      <3>4. Len(base) \in Nat /\ Len(base) # 0 /\ base[1] = "/"
        BY <1>1 DEF Text
      <3>5. (base \o Slash \o next)[1] = "/" /\ Len(base \o Slash \o next) # 0
        <4>1. /\ Len(base \o Slash \o next) = Len(base) + 1 + Len(next)
              /\ \A i \in 1..Len(base) : (base \o Slash \o next)[i] = base[i]
          BY <1>1, JoinFacts
        <4>2. Len(next) \in Nat
          BY DEF Text
        <4> QED BY <3>4, <4>1, <4>2
      <3> HIDE DEF u
      <3>6. u \in Seq(Symbol) /\ Len(u) # 0 /\ u[1] = "/"
        BY <3>1, <3>3, <3>5 DEF Text
      <3> QED BY <3>6 DEF Text
    <2> QED BY <2>1, <2>2, <2>3
  <1> HIDE DEF u
  <1>3. Meaning(u) \in Seq(Name) /\ ResolvePath(u) = TextOf(Meaning(u))
    BY <1>2, ResolvePathIsMeaning
  <1>4. TextOf(Meaning(u)) \in Canonical
    BY <1>3 DEF Canonical
  <1> QED BY <1>2, <1>3, <1>4 DEF u

LEMMA SlashIsCanonical == Slash \in Canonical
  BY EmptyText, TextOfEmpty DEF Canonical

LEMMA FullPathFacts ==
    ASSUME TypeOK, NEW p \in Pid, NEW arg \in Text
    PROVE  FullPath(p, arg) \in Canonical
  <1>1. sh[p].cwd \in Canonical
    BY DEF TypeOK, ShellRecord
  <1> QED BY <1>1, CombinedFacts DEF FullPath

LEMMA ArgType ==
    ASSUME NEW line \in Lines \cup {NoLine}, NEW i
    PROVE  Arg(line, i) \in Text
  <1>1. line.args \in Seq(Text)
    <2>1. CASE line \in Lines
      <3>1. Lines \subseteq [cmd : Commands, args : Seq(Text)]
        BY ShellAssumption
      <3>2. line \in [cmd : Commands, args : Seq(Text)]
        BY <2>1, <3>1
      <3> QED BY <3>2
    <2>2. CASE line = NoLine
      BY <2>2, EmptyText DEF NoLine
    <2> QED BY <2>1, <2>2
  <1> QED BY <1>1, EmptyText DEF Arg

LEMMA PartTreesFacts ==
    /\ <<>> \in PartTrees
    /\ \A t : IsTree(t) => t \in PartTrees
  <1>1. <<>> \in [{} -> Node]
    OBVIOUS
  <1>2. ASSUME NEW t, IsTree(t) PROVE t \in PartTrees
    BY <1>2 DEF IsTree, PartTrees
  <1> QED BY <1>1, <1>2 DEF PartTrees

LEMMA EntriesFacts ==
    /\ Failed \in EntryType
    /\ Slash \in Text
    /\ NoDescriptor \in Descriptor
    /\ \A name \in Name \cup {<<>>}, size \in Nat :
          Directory(name, size) \in EntryType /\ File(name, size) \in EntryType
  BY SlashFacts, EmptyText DEF Failed, EntryType, NoDescriptor, Descriptor, Directory, File

LEMMA IdleIsShell == Idle \in ShellRecord /\ Off \in ShellRecord
  <1>1. Slash \in Canonical /\ <<>> \in PartTrees /\ <<>> \in Text /\ Failed \in EntryType
        /\ NoDescriptor \in Descriptor
    BY SlashIsCanonical, PartTreesFacts, EmptyText, EntriesFacts
  <1>2. <<>> \in Seq(WorkItem) /\ <<>> \in Seq(Canonical)
    OBVIOUS
  <1>3. Idle \in ShellRecord
    BY <1>1, <1>2 DEF Idle, ShellRecord, Stages
  <1> QED BY <1>3 DEF Off, ShellRecord, Stages

(* Behind a command. *)
LEMMA PromptFacts ==
    ASSUME TypeOK, NEW p \in Pid
    PROVE  /\ Prompt(p) \in ShellRecord /\ Prompt(p).pc = "prompt" /\ Prompt(p).line = NoLine
           /\ Prompt(p).from_fd = NoDescriptor /\ Prompt(p).to_fd = NoDescriptor
           /\ Prompt(p).quiet = TRUE
  <1>1. Idle \in ShellRecord /\ sh[p] \in ShellRecord
    BY IdleIsShell DEF TypeOK
  <1>2. sh[p].cwd \in Canonical /\ sh[p].leftover \in Seq(Canonical)
    BY <1>1 DEF ShellRecord
  <1>3. Prompt(p) \in ShellRecord
    BY <1>1, <1>2 DEF ShellRecord, Prompt
  <1>4. Idle = [Idle EXCEPT !.cwd = Idle.cwd]
    BY <1>1 DEF ShellRecord
  <1> QED BY <1>3 DEF Prompt, Idle

(* The shells that do not exist, the new one and one at its prompt. *)
LEMMA RestingFacts ==
    ASSUME NEW s \in ShellRecord, s.pc \in {"off", "start", "prompt"}, s.line = NoLine,
           s.from_fd = NoDescriptor, s.to_fd = NoDescriptor, NEW t
    PROVE  Sound(s, t) /\ ~Looking(s)
  <1>1. ~Looking(s)
    BY DEF Looking
  <1>2. Attached(s.from_fd, t) /\ Attached(s.to_fd, t)
    BY DEF Attached, NoDescriptor
  <1> QED BY <1>1, <1>2 DEF Sound

LEMMA RefreshFacts ==
    ASSUME NEW d \in Descriptor, NEW t
    PROVE  /\ Refresh(d, t) \in Descriptor /\ Attached(Refresh(d, t), t)
           /\ d.file # <<>> => Refresh(d, t).file # <<>>
  <1>1. Deleted # <<>>
    BY DEF Deleted
  <1>2. CASE d = NoDescriptor \/ d.file \in DOMAIN t
    BY <1>2 DEF Refresh, Attached, NoDescriptor
  <1>3. CASE ~(d = NoDescriptor \/ d.file \in DOMAIN t)
    <2>1. Refresh(d, t) = [d EXCEPT !.file = Deleted]
      BY <1>3 DEF Refresh
    <2>2. Refresh(d, t).file = Deleted /\ Refresh(d, t) \in Descriptor
      BY <2>1 DEF Descriptor
    <2> QED BY <1>1, <2>2 DEF Attached
  <1> QED BY <1>2, <1>3

-----------------------------------------------------------------------------
(* The ways a step ends.                                                   *)

LEMMA StatSame ==
    ASSUME UNCHANGED vfsVars, NEW text
    PROVE  Stat(text)' = Stat(text)
  BY DEF vfsVars, Stat, HandlerStat, FatStat, ProcStat, IsDirectory, Children

LEMMA OwnStepKeeps ==
    ASSUME Inv, NEW p \in Pid, NEW s \in ShellRecord, Sound(s, tree), Informed(s),
           sh' = [sh EXCEPT ![p] = s], UNCHANGED vfsVars,
           foreground' \in Seq(Pid), typed' \in Nat, wild' \in BOOLEAN,
           UNCHANGED uncleared
    PROVE  Inv'
  <1>1. sh' = [sh EXCEPT ![p] = s] /\ UNCHANGED <<tree, running>>
    BY DEF vfsVars
  <1>2. TypeOK'
    BY <1>1 DEF Inv, TypeOK, IsTree
  <1>3. ASSUME NEW q \in Pid PROVE Sound(sh'[q], tree') /\ (Informed(sh[q]))'
    <2>1. sh'[q] = IF q = p THEN s ELSE sh[q]
      BY <1>1 DEF Inv, TypeOK
    <2>2. Sound(sh'[q], tree) /\ Informed(sh'[q])
      BY <2>1 DEF Inv
    <2>3. Stat(LookedAt(sh'[q])) = (Stat(LookedAt(sh[q])))'
      <3> DEFINE at == LookedAt(sh'[q])
      <3>1. at = LookedAt(sh[q])'
        BY DEF LookedAt
      <3> QED BY <1>1, StatSame DEF vfsVars
    <2> QED BY <1>1, <2>2, <2>3 DEF Informed
  <1> QED BY <1>2, <1>3 DEF Inv

LEMMA GoKeeps ==
    ASSUME Inv, NEW p \in Pid, NEW s \in ShellRecord, Sound(s, tree), Informed(s), Go(p, s)
    PROVE  Inv'
  BY OwnStepKeeps DEF Go, Inv, TypeOK

LEMMA PromptIsSound ==
    ASSUME Inv, NEW p \in Pid
    PROVE  Prompt(p) \in ShellRecord /\ Sound(Prompt(p), tree) /\ Informed(Prompt(p)) /\ ~Looking(Prompt(p))
  <1>1. TypeOK
    BY DEF Inv
  <1> QED BY <1>1, PromptFacts, RestingFacts DEF Informed

LEMMA AbortKeeps ==
    ASSUME Inv, NEW p \in Pid, Abort(p)
    PROVE  Inv'
  BY PromptIsSound, GoKeeps DEF Abort

LEMMA GoWildKeeps ==
    ASSUME Inv, NEW p \in Pid, GoWild(p)
    PROVE  Inv'
  <1>1. /\ sh' = [sh EXCEPT ![p] = Prompt(p)] /\ UNCHANGED vfsVars
        /\ wild' = TRUE /\ UNCHANGED <<foreground, typed, uncleared>>
    BY DEF GoWild
  <1>2. foreground' \in Seq(Pid) /\ typed' \in Nat /\ wild' \in BOOLEAN
    BY <1>1 DEF Inv, TypeOK
  <1> QED BY <1>1, <1>2, PromptIsSound, OwnStepKeeps

(* The rest of what a shell has does not depend on the tree. *)
LEMMA SoundRefreshed ==
    ASSUME NEW s \in ShellRecord, NEW u, NEW t, Sound(s, u),
           NEW r \in ShellRecord, r.pc = s.pc, r.line = s.line, r.work = s.work,
           r.file_list = s.file_list, r.from_fd = Refresh(s.from_fd, t),
           r.to_fd = Refresh(s.to_fd, t)
    PROVE  Sound(r, t)
  <1>1. s.from_fd \in Descriptor /\ s.to_fd \in Descriptor
    BY DEF ShellRecord
  <1>2. Attached(r.from_fd, t) /\ (s.from_fd.file # <<>> => r.from_fd.file # <<>>)
    BY <1>1, RefreshFacts
  <1>3. Attached(r.to_fd, t) /\ (s.to_fd.file # <<>> => r.to_fd.file # <<>>)
    BY <1>1, RefreshFacts
  <1>4. s.from_fd = NoDescriptor => r.from_fd = NoDescriptor
    BY DEF Refresh
  <1>5. s.to_fd = NoDescriptor => r.to_fd = NoDescriptor
    BY DEF Refresh
  <1>6. /\ r.pc \in {"prompt", "start", "off"} =>
              r.line = NoLine /\ r.from_fd = NoDescriptor /\ r.to_fd = NoDescriptor
        /\ r.pc \in {"mkfile", "open copy", "read", "write", "tac"} => r.from_fd.file # <<>>
        /\ r.pc \in {"read", "write"} => r.to_fd.file # <<>>
    BY <1>2, <1>3, <1>4, <1>5 DEF Sound
  <1>7. /\ r.pc = "del -r" => HasWork(r.work)
        /\ r.pc \in {"find stat", "find list"} => r.file_list # <<>>
    BY DEF Sound
  <1> HIDE DEF NoLine
  <1> QED BY <1>2, <1>3, <1>6, <1>7 DEF Sound

LEMMA RestingSound ==
    ASSUME NEW s, NEW u, NEW t, Sound(s, u), s.pc \in {"off", "start", "prompt"}
    PROVE  Sound(s, t)
  <1>1. s.from_fd = NoDescriptor /\ s.to_fd = NoDescriptor
    BY DEF Sound
  <1>2. Attached(s.from_fd, t) /\ Attached(s.to_fd, t)
    BY <1>1 DEF Attached, NoDescriptor
  <1> QED BY <1>2 DEF Sound

LEMMA DisturbedFacts ==
    ASSUME NEW s \in ShellRecord, NEW u, NEW t, Sound(s, u)
    PROVE  /\ Disturbed(s, t) \in ShellRecord /\ Sound(Disturbed(s, t), t)
           /\ Disturbed(s, t).quiet = FALSE
  <1> DEFINE r == Disturbed(s, t)
  <1>1. s.from_fd \in Descriptor /\ s.to_fd \in Descriptor /\ <<>> \in PartTrees
    BY PartTreesFacts DEF ShellRecord
  <1>2. Refresh(s.from_fd, t) \in Descriptor /\ Refresh(s.to_fd, t) \in Descriptor
    BY <1>1, RefreshFacts
  <1>3. r = [s EXCEPT !.quiet = FALSE, !.before = <<>>, !.from_fd = Refresh(s.from_fd, t),
                      !.to_fd = Refresh(s.to_fd, t)]
    BY DEF Disturbed, ShellRecord
  <1> HIDE DEF r
  <1>4. r \in ShellRecord
    BY <1>1, <1>2, <1>3 DEF ShellRecord
  <1>5. /\ r.pc = s.pc /\ r.line = s.line /\ r.work = s.work /\ r.file_list = s.file_list
        /\ r.from_fd = Refresh(s.from_fd, t) /\ r.to_fd = Refresh(s.to_fd, t)
        /\ r.quiet = FALSE
    BY <1>3 DEF ShellRecord
  <1>6. Sound(r, t)
    BY <1>4, <1>5, SoundRefreshed
  <1> QED BY <1>4, <1>5, <1>6 DEF r

LEMMA ChangeKeeps ==
    ASSUME Inv, NEW p \in Pid, NEW t, IsTree(t),
           NEW s \in ShellRecord, Sound(s, tree), ~Looking(s), Change(p, t, s)
    PROVE  Inv'
  <1> DEFINE own == [s EXCEPT !.from_fd = Refresh(s.from_fd, t), !.to_fd = Refresh(s.to_fd, t)]
  <1>1. tree' = t /\ UNCHANGED <<running, foreground, typed, wild, uncleared>>
    BY DEF Change
  <1>2. /\ sh' = [q \in Pid |-> sh'[q]]
        /\ sh'[p] = own
        /\ \A q \in Pid : q # p =>
              sh'[q] = IF sh[q].pc \in {"off", "start", "prompt"} THEN sh[q]
                       ELSE Disturbed(sh[q], t)
    BY DEF Change, ShellRecord
  <1>3. own \in ShellRecord /\ Sound(own, t) /\ ~Looking(own)
    <2>1. s.from_fd \in Descriptor /\ s.to_fd \in Descriptor
      BY DEF ShellRecord
    <2>2. Refresh(s.from_fd, t) \in Descriptor /\ Refresh(s.to_fd, t) \in Descriptor
      BY <2>1, RefreshFacts
    <2>3. own \in ShellRecord
      BY <2>2 DEF ShellRecord
    <2>4. /\ own.pc = s.pc /\ own.line = s.line /\ own.work = s.work /\ own.file_list = s.file_list
          /\ own.from_fd = Refresh(s.from_fd, t) /\ own.to_fd = Refresh(s.to_fd, t)
      BY DEF ShellRecord
    <2> HIDE DEF own
    <2>5. Sound(own, t)
      BY <2>3, <2>4, SoundRefreshed
    <2> QED BY <2>3, <2>4, <2>5 DEF Looking
  <1> HIDE DEF own
  <1>4. ASSUME NEW q \in Pid
        PROVE  sh'[q] \in ShellRecord /\ Sound(sh'[q], t) /\ ~(sh'[q].quiet /\ Looking(sh'[q]))
    <2>1. sh[q] \in ShellRecord /\ Sound(sh[q], tree)
      BY DEF Inv, TypeOK
    <2>2. CASE q = p
      BY <1>2, <1>3, <2>2
    <2>3. CASE q # p /\ sh[q].pc \in {"off", "start", "prompt"}
      <3>1. sh'[q] = sh[q]
        BY <1>2, <2>3
      <3>2. sh'[q].pc \in {"off", "start", "prompt"}
        BY <2>3, <3>1
      <3>3. ~Looking(sh'[q])
        BY <3>2 DEF Looking
      <3>4. sh'[q] \in ShellRecord /\ Sound(sh'[q], tree)
        BY <2>1, <3>1
      <3>5. Sound(sh[q], t)
        BY <2>1, <2>3, RestingSound
      <3> QED BY <3>1, <3>3, <3>4, <3>5
    <2>4. CASE q # p /\ sh[q].pc \notin {"off", "start", "prompt"}
      <3>1. sh'[q] = Disturbed(sh[q], t)
        BY <1>2, <2>4
      <3> QED BY <2>1, <3>1, DisturbedFacts
    <2> QED BY <2>2, <2>3, <2>4
  <1>5. TypeOK'
    <2>1. sh' \in [Pid -> ShellRecord]
      BY <1>2, <1>4
    <2>2. IsTree(tree')
      BY <1>1
    <2> QED BY <1>1, <2>1, <2>2 DEF Inv, TypeOK
  <1>6. \A q \in Pid : Sound(sh'[q], tree') /\ (Informed(sh[q]))'
    BY <1>1, <1>4 DEF Informed
  <1> QED BY <1>5, <1>6 DEF Inv

LEMMA RowsLeftType ==
    ASSUME Inv, NEW p \in Pid
    PROVE  RowsLeft(p) \in Seq(Canonical)
  <1>1. sh[p] \in ShellRecord /\ Sound(sh[p], tree)
    BY DEF Inv, TypeOK
  <1>2. sh[p].leftover \in Seq(Canonical) /\ sh[p].file_list \in Seq(Canonical)
    BY <1>1 DEF ShellRecord
  <1>3. sh[p].pc \in {"find stat", "find list"} => sh[p].file_list # <<>>
    BY <1>1 DEF Sound
  <1>4. sh[p].file_list # <<>> => Tail(sh[p].file_list) \in Seq(Canonical)
    <2> DEFINE rows == sh[p].file_list
    <2>1. rows \in Seq(Canonical)
      BY <1>2
    <2> HIDE DEF rows
    <2>2. rows # <<>> => Tail(rows) \in Seq(Canonical)
      BY <2>1, HeadTailProperties
    <2> QED BY <2>2 DEF rows
  <1>5. <<>> \in Seq(Canonical)
    OBVIOUS
  <1> QED BY <1>2, <1>3, <1>4, <1>5 DEF RowsLeft

LEMMA PopulationKeeps ==
    ASSUME Inv, NEW r \in SUBSET Pid, NEW s \in [Pid -> ShellRecord],
           \A q \in Pid : Sound(s[q], tree), Population(r, s)
    PROVE  Inv'
  <1>1. running' = r /\ UNCHANGED <<tree, typed, wild>>
    BY DEF Population
  <1>2. /\ sh' = [q \in Pid |-> sh'[q]]
        /\ \A q \in Pid :
              \/ sh'[q] = Off
              \/ sh'[q] = s[q] /\ s[q].pc \in {"off", "start", "prompt"}
              \/ sh'[q] = [s[q] EXCEPT !.quiet = FALSE, !.before = <<>>]
    BY DEF Population
  <1>3. ASSUME NEW q \in Pid
        PROVE  sh'[q] \in ShellRecord /\ Sound(sh'[q], tree) /\ ~(sh'[q].quiet /\ Looking(sh'[q]))
    <2>1. s[q] \in ShellRecord /\ Sound(s[q], tree)
      OBVIOUS
    <2>2. CASE sh'[q] = Off
      <3>1. Off.pc = "off" /\ Off.line = NoLine /\ Off.from_fd = NoDescriptor /\ Off.to_fd = NoDescriptor
        BY DEF Off, Idle
      <3> QED BY <2>2, <3>1, IdleIsShell, RestingFacts
    <2>3. CASE sh'[q] = s[q] /\ s[q].pc \in {"off", "start", "prompt"}
      BY <2>1, <2>3 DEF Looking
    <2>4. CASE sh'[q] = [s[q] EXCEPT !.quiet = FALSE, !.before = <<>>]
      <3>1. <<>> \in PartTrees
        BY PartTreesFacts
      <3>2. sh'[q] \in ShellRecord
        BY <2>1, <2>4, <3>1 DEF ShellRecord
      <3>3. /\ sh'[q].pc = s[q].pc /\ sh'[q].line = s[q].line /\ sh'[q].work = s[q].work
            /\ sh'[q].file_list = s[q].file_list
            /\ sh'[q].from_fd = s[q].from_fd /\ sh'[q].to_fd = s[q].to_fd
            /\ sh'[q].quiet = FALSE
        BY <2>1, <2>4 DEF ShellRecord
      <3>4. Sound(sh'[q], tree)
        BY <2>1, <3>3 DEF Sound
      <3> QED BY <3>2, <3>3, <3>4
    <2> QED BY <1>2, <2>2, <2>3, <2>4
  <1>4. foreground' \in Seq(Pid)
    <2>1. foreground' = Selected(foreground, {i \in DOMAIN foreground : foreground[i] \in r})
      BY DEF Population
    <2>2. foreground \in Seq(Pid)
      BY DEF Inv, TypeOK
    <2>3. {i \in DOMAIN foreground : foreground[i] \in r} \in SUBSET (1..Len(foreground))
      BY <2>2
    <2> QED BY <2>1, <2>2, <2>3, SelectedFacts
  <1>5. TypeOK'
    <2>1. sh' \in [Pid -> ShellRecord]
      BY <1>2, <1>3
    <2>2. uncleared' \subseteq Seq(Canonical)
      <3>1. uncleared' = uncleared \cup ({RowsLeft(q) : q \in running \ r} \ {<<>>})
        BY DEF Population
      <3>2. running \subseteq Pid /\ uncleared \subseteq Seq(Canonical)
        BY DEF Inv, TypeOK
      <3> QED BY <3>1, <3>2, RowsLeftType
    <2> QED BY <1>1, <1>4, <2>1, <2>2 DEF Inv, TypeOK, IsTree
  <1>6. \A q \in Pid : Sound(sh'[q], tree') /\ (Informed(sh[q]))'
    BY <1>1, <1>3 DEF Informed
  <1> QED BY <1>5, <1>6 DEF Inv

-----------------------------------------------------------------------------
(* Each action keeps the invariant.                                        *)

(* The parts of the invariant that speak of one shell. *)
LEMMA ShellHas ==
    ASSUME Inv, NEW p \in Pid
    PROVE  /\ TypeOK /\ VfsType /\ sh[p] \in ShellRecord /\ Sound(sh[p], tree) /\ Informed(sh[p])
           /\ sh[p].path \in Canonical /\ sh[p].path \in Text
           /\ sh[p].to \in Canonical /\ sh[p].to \in Text
  <1>1. sh[p] \in ShellRecord
    BY DEF Inv, TypeOK
  <1>2. sh[p].path \in Canonical /\ sh[p].to \in Canonical
    BY <1>1 DEF ShellRecord
  <1> QED BY <1>1, <1>2, CanonicalFacts DEF Inv, TypeOK, VfsType

LEMMA OpenStdinKeeps ==
    ASSUME Inv, NEW p \in Pid, OpenStdin(p)
    PROVE  Inv'
  <1> DEFINE s == [sh[p] EXCEPT !.pc = "prompt"]
  <1>1. sh[p] \in ShellRecord /\ Sound(sh[p], tree) /\ sh[p].pc = "start"
    BY ShellHas DEF OpenStdin, At
  <1>2. s \in ShellRecord /\ s.pc = "prompt" /\ s.line = NoLine
        /\ s.from_fd = NoDescriptor /\ s.to_fd = NoDescriptor
    BY <1>1 DEF ShellRecord, Sound, Stages
  <1>3. sh' = [sh EXCEPT ![p] = s]
    BY DEF OpenStdin, Inv, TypeOK
  <1>4. /\ foreground' \in Seq(Pid) /\ typed' \in Nat /\ wild' \in BOOLEAN
        /\ UNCHANGED vfsVars /\ UNCHANGED uncleared
    BY ConcatProperties DEF OpenStdin, Inv, TypeOK
  <1> HIDE DEF s
  <1>5. Sound(s, tree) /\ ~Looking(s)
    BY <1>2, RestingFacts
  <1> QED BY <1>2, <1>3, <1>4, <1>5, OwnStepKeeps DEF Informed

LEMMA RunKeeps ==
    ASSUME Inv, NEW p \in Pid, NEW line \in Lines, Run(p, line)
    PROVE  Inv'
  <1> DEFINE stage == FirstStep(line.cmd)
             path == FullPath(p, IF line.cmd = "cd" /\ line.args = <<>> THEN Slash ELSE Arg(line, 1))
             to == FullPath(p, Arg(line, 2))
             before == IF line.cmd \in {"del -r", "mv"} THEN tree ELSE <<>>
             s == [Idle EXCEPT !.pc = stage, !.cwd = sh[p].cwd, !.line = line, !.path = path,
                               !.to = to, !.leftover = sh[p].leftover, !.before = before]
  <1>1. TypeOK /\ sh[p] \in ShellRecord /\ sh[p].cwd \in Canonical /\ sh[p].leftover \in Seq(Canonical)
    BY ShellHas DEF ShellRecord
  <1>2. Slash \in Text /\ Arg(line, 1) \in Text /\ Arg(line, 2) \in Text
    BY ArgType, SlashFacts
  <1>3. path \in Canonical /\ to \in Canonical
    BY <1>1, <1>2, FullPathFacts
  <1>4. before \in PartTrees
    BY <1>1, PartTreesFacts DEF TypeOK
  <1>5. line.cmd \in Commands
    <2>1. Lines \subseteq [cmd : Commands, args : Seq(Text)]
      BY ShellAssumption
    <2> QED BY <2>1
  <1>6. stage \in {"stat", "mkdir", "touch", "find", "exec", "exit", "kill"}
    BY <1>5 DEF FirstStep, Commands
  <1>7. /\ sh' = [sh EXCEPT ![p] = s] /\ UNCHANGED vfsVars
        /\ foreground' \in Seq(Pid) /\ wild' \in BOOLEAN /\ UNCHANGED uncleared
    BY <1>1 DEF Run, TypeOK
  <1>8. typed' \in Nat
    BY <1>1 DEF Run, TypeOK
  <1> HIDE DEF stage, path, to, before
  <1>9. s \in ShellRecord /\ s.pc = stage /\ s.from_fd = NoDescriptor /\ s.to_fd = NoDescriptor
    <2>1. Idle \in ShellRecord /\ Idle.from_fd = NoDescriptor /\ Idle.to_fd = NoDescriptor
      BY IdleIsShell DEF Idle
    <2>2. stage \in Stages
      BY <1>6 DEF Stages
    <2> QED BY <1>1, <1>3, <1>4, <2>1, <2>2 DEF ShellRecord
  <1> HIDE DEF s
  <1>10. Sound(s, tree) /\ ~Looking(s)
    <2>1. Attached(s.from_fd, tree) /\ Attached(s.to_fd, tree)
      BY <1>9 DEF Attached, NoDescriptor
    <2> QED BY <1>6, <1>9, <2>1 DEF Sound, Looking
  <1> QED BY <1>7, <1>8, <1>9, <1>10, OwnStepKeeps DEF Informed

(* What the first call says is an entry. *)
LEMMA EntriesSeenType ==
    ASSUME Inv, NEW p \in Pid, NEW entry \in EntriesSeen(p)
    PROVE  entry \in EntryType /\ (sh[p].line.cmd \in {"ls", "del -r"} => entry = Stat(sh[p].path))
  <1>1. Stat(sh[p].path) \in EntryType
    BY ShellHas, ListingLength
  <1>2. File(<<>>, 0) \in EntryType /\ Directory(<<>>, 0) \in EntryType
    BY EntriesFacts
  <1> QED BY <1>1, <1>2 DEF EntriesSeen

LEMMA StatArgumentKeeps ==
    ASSUME Inv, NEW p \in Pid, StatArgument(p)
    PROVE  Inv'
  <1>1. PICK entry \in EntriesSeen(p) : Go(p, AfterStat(p, entry))
    BY DEF StatArgument
  <1>2. entry \in EntryType /\ (sh[p].line.cmd \in {"ls", "del -r"} => entry = Stat(sh[p].path))
    BY EntriesSeenType
  <1>3. sh[p].pc = "stat" /\ sh[p] \in ShellRecord /\ Sound(sh[p], tree) /\ sh[p].path \in Canonical
        /\ sh[p].path \in Text
    BY ShellHas DEF StatArgument, At
  <1> DEFINE r == AfterStat(p, entry)
             s == [sh[p] EXCEPT !.entry = entry]
  <1>4. s \in ShellRecord /\ Attached(s.from_fd, tree) /\ Attached(s.to_fd, tree)
        /\ s.path = sh[p].path /\ s.entry = entry /\ s.line = sh[p].line
    BY <1>2, <1>3 DEF ShellRecord, Sound
  <1>5. \/ r = Prompt(p)
        \/ r = [Prompt(p) EXCEPT !.cwd = sh[p].path]
        \/ \E pc \in {"del", "open"} : r = [s EXCEPT !.pc = pc]
        \/ r = [s EXCEPT !.pc = "ls"] /\ sh[p].line.cmd = "ls"
        \/ r = [s EXCEPT !.pc = "del -r", !.work = <<Item("stat", sh[p].path)>>]
    BY <1>4 DEF AfterStat, Item
  <1> HIDE DEF r, s
  <1>6. CASE r = Prompt(p)
    BY <1>1, <1>6, PromptIsSound, GoKeeps DEF r
  <1>7. CASE r = [Prompt(p) EXCEPT !.cwd = sh[p].path]
    <2>1. /\ Prompt(p) \in ShellRecord /\ Prompt(p).pc = "prompt" /\ Prompt(p).line = NoLine
          /\ Prompt(p).from_fd = NoDescriptor /\ Prompt(p).to_fd = NoDescriptor
      BY ShellHas, PromptFacts
    <2>2. /\ r \in ShellRecord /\ r.pc = "prompt" /\ r.line = NoLine
          /\ r.from_fd = NoDescriptor /\ r.to_fd = NoDescriptor
      BY <1>3, <1>7, <2>1 DEF ShellRecord
    <2>3. Sound(r, tree) /\ ~Looking(r)
      BY <2>2, RestingFacts
    <2> QED BY <1>1, <2>2, <2>3, GoKeeps DEF Informed, r
  <1>8. CASE \E pc \in {"del", "open"} : r = [s EXCEPT !.pc = pc]
    <2>1. r \in ShellRecord /\ r.pc \in {"del", "open"} /\ r.from_fd = s.from_fd /\ r.to_fd = s.to_fd
      BY <1>4, <1>8 DEF ShellRecord, Stages
    <2>2. Sound(r, tree) /\ ~Looking(r)
      BY <1>4, <2>1 DEF Sound, Looking
    <2> QED BY <1>1, <2>1, <2>2, GoKeeps DEF Informed, r
  <1>9. CASE r = [s EXCEPT !.pc = "ls"] /\ sh[p].line.cmd = "ls"
    <2>1. r \in ShellRecord /\ r.pc = "ls" /\ r.from_fd = s.from_fd /\ r.to_fd = s.to_fd
          /\ r.path = sh[p].path /\ r.entry = entry
      BY <1>4, <1>9 DEF ShellRecord, Stages
    <2>2. Sound(r, tree)
      BY <1>4, <2>1 DEF Sound
    <2>3. Informed(r)
      BY <1>2, <1>9, <2>1 DEF Informed, LookedAt
    <2> QED BY <1>1, <2>1, <2>2, <2>3, GoKeeps DEF r
  <1>10. CASE r = [s EXCEPT !.pc = "del -r", !.work = <<Item("stat", sh[p].path)>>]
    <2> DEFINE w == <<Item("stat", sh[p].path)>>
    <2>1. w \in Seq(WorkItem) /\ Len(w) = 1 /\ w # <<>> /\ Head(w).op = "stat"
      BY <1>3 DEF Item, WorkItem
    <2> HIDE DEF w
    <2>2. r \in ShellRecord /\ r.pc = "del -r" /\ r.from_fd = s.from_fd /\ r.to_fd = s.to_fd /\ r.work = w
      BY <1>4, <1>10, <2>1 DEF ShellRecord, Stages, w
    <2>3. HasWork(w)
      BY <2>1 DEF HasWork
    <2>4. Sound(r, tree) /\ ~Looking(r)
      BY <1>4, <2>1, <2>2, <2>3 DEF Sound, Looking
    <2> QED BY <1>1, <2>2, <2>4, GoKeeps DEF Informed, r
  <1> QED BY <1>5, <1>6, <1>7, <1>8, <1>9, <1>10

LEMMA LsKeeps ==
    ASSUME Inv, NEW p \in Pid, Ls(p)
    PROVE  Inv'
  BY AbortKeeps, GoWildKeeps DEF Ls

LEMMA MakeKeeps ==
    ASSUME Inv, NEW p \in Pid, NEW path \in Canonical, NEW type \in {"file", "dir"},
           NEW s \in ShellRecord, Sound(s, tree), ~Looking(s), Make(p, path, type, s)
    PROVE  Inv'
  <1>1. (CanMake(path) /\ Change(p, Made(path, type), s)) \/ GoWild(p) \/ Abort(p)
    BY DEF Make
  <1>2. CASE CanMake(path) /\ Change(p, Made(path, type), s)
    <2>1. IsTree(tree)
      BY DEF Inv, TypeOK
    <2>2. IsTree(Made(path, type))
      BY <1>2, <2>1, MadeIsTree
    <2> QED BY <1>2, <2>2, ChangeKeeps
  <1> QED BY <1>1, <1>2, AbortKeeps, GoWildKeeps

LEMMA MkdirTouchKeep ==
    ASSUME Inv, NEW p \in Pid, Mkdir(p) \/ Touch(p)
    PROVE  Inv'
  BY ShellHas, PromptIsSound, MakeKeeps DEF Mkdir, Touch

LEMMA MakeCopyKeeps ==
    ASSUME Inv, NEW p \in Pid, MakeCopy(p)
    PROVE  Inv'
  <1> DEFINE s == Step(p, "open copy")
  <1>1. sh[p] \in ShellRecord /\ Sound(sh[p], tree) /\ sh[p].pc = "mkfile" /\ sh[p].to \in Canonical
    BY ShellHas DEF MakeCopy, At
  <1>2. s \in ShellRecord /\ s.pc = "open copy" /\ s.from_fd = sh[p].from_fd /\ s.to_fd = sh[p].to_fd
    BY <1>1 DEF Step, ShellRecord, Stages
  <1>3. Make(p, sh[p].to, "file", s)
    BY DEF MakeCopy
  <1> HIDE DEF s
  <1>4. Sound(s, tree) /\ ~Looking(s)
    BY <1>1, <1>2 DEF Sound, Looking
  <1> QED BY <1>1, <1>2, <1>3, <1>4, MakeKeeps

(* The file or directory at a path goes. *)
LEMMA DeleteKeeps ==
    ASSUME Inv, NEW p \in Pid, NEW path,
           NEW s \in ShellRecord, Sound(s, tree), ~Looking(s), Delete(p, path, s)
    PROVE  Inv'
  <1>1. IsTree(tree)
    BY DEF Inv, TypeOK
  <1>2. CanDelete(path) => IsTree(Without(Words(path)))
    BY <1>1, WithoutIsTree DEF CanDelete
  <1>3. (CanDelete(path) /\ Change(p, Without(Words(path)), s)) \/ GoWild(p) \/ Go(p, s)
    BY DEF Delete
  <1> QED BY <1>2, <1>3, ChangeKeeps, GoWildKeeps, GoKeeps DEF Informed

LEMMA DelMoveDeleteKeep ==
    ASSUME Inv, NEW p \in Pid, Del(p) \/ MoveDelete(p)
    PROVE  Inv'
  BY PromptIsSound, DeleteKeeps DEF Del, MoveDelete

-----------------------------------------------------------------------------
(* delete_recursive.                                                       *)

LEMMA TailOfWork ==
    ASSUME NEW w \in Seq(WorkItem), HasWork(w)
    PROVE  /\ w # <<>> /\ Head(w) \in WorkItem /\ Tail(w) \in Seq(WorkItem)
           /\ Len(w) \in Nat /\ Len(w) >= 1 /\ w[1] = Head(w)
           /\ \A i \in 1..Len(Tail(w)) : Tail(w)[i].op # "list"
           /\ \A i \in 1..Len(Tail(w)) : Tail(w)[i] = w[i + 1]
           /\ Len(Tail(w)) = Len(w) - 1
  <1>1. w # <<>>
    BY DEF HasWork
  <1>2. Len(w) \in Nat /\ Len(w) >= 1 /\ Head(w) = w[1] /\ w[1] \in WorkItem
    BY <1>1
  <1>3. Tail(w) \in Seq(WorkItem) /\ Len(Tail(w)) = Len(w) - 1
        /\ \A i \in 1..Len(Tail(w)) : Tail(w)[i] = w[i + 1]
    BY <1>1, HeadTailProperties
  <1>4. \A i \in 1..Len(Tail(w)) : Tail(w)[i].op # "list"
    BY <1>2, <1>3 DEF HasWork
  <1> QED BY <1>1, <1>2, <1>3, <1>4

(* With new items in front. *)
LEMMA MoreWork ==
    ASSUME NEW v \in Seq(WorkItem), NEW w \in Seq(WorkItem),
           \A i \in 2..Len(v) : v[i].op # "list", \A i \in 1..Len(w) : w[i].op # "list"
    PROVE  /\ v \o w \in Seq(WorkItem)
           /\ v \o w # <<>> => HasWork(v \o w)
           /\ v # <<>> => v \o w # <<>> /\ Head(v \o w) = Head(v)
           /\ v = <<>> => v \o w = w
  <1>1. /\ v \o w \in Seq(WorkItem) /\ Len(v \o w) = Len(v) + Len(w)
        /\ Len(v) \in Nat /\ Len(w) \in Nat
        /\ \A i \in 1..Len(v \o w) : (v \o w)[i] = IF i <= Len(v) THEN v[i] ELSE w[i - Len(v)]
    BY ConcatProperties
  <1>2. \A i \in 2..Len(v \o w) : (v \o w)[i].op # "list"
    <2> SUFFICES ASSUME NEW i \in 2..Len(v \o w) PROVE (v \o w)[i].op # "list"
      OBVIOUS
    <2>1. CASE i <= Len(v)
      BY <1>1, <2>1
    <2>2. CASE i > Len(v)
      <3>1. i - Len(v) \in 1..Len(w) /\ (v \o w)[i] = w[i - Len(v)]
        BY <1>1, <2>2
      <3> QED BY <3>1
    <2> QED BY <1>1, <2>1, <2>2
  <1>3. v # <<>> => v \o w # <<>> /\ Head(v \o w) = Head(v)
    <2> SUFFICES ASSUME v # <<>> PROVE v \o w # <<>> /\ Head(v \o w) = Head(v)
      OBVIOUS
    <2>1. Len(v) >= 1 /\ Head(v) = v[1]
      BY <1>1
    <2>2. Len(v \o w) >= 1 /\ (v \o w)[1] = v[1]
      BY <1>1, <2>1
    <2> DEFINE u == v \o w
    <2>3. u \in Seq(WorkItem) /\ Len(u) >= 1 /\ u[1] = v[1]
      BY <1>1, <2>2
    <2> HIDE DEF u
    <2>4. u # <<>> /\ Head(u) = u[1]
      BY <2>3
    <2> QED BY <2>1, <2>3, <2>4 DEF u
  <1>4. v = <<>> => v \o w = w
    OBVIOUS
  <1> QED BY <1>1, <1>2, <1>3, <1>4 DEF HasWork

(* The shell goes on with the work, if there is some. *)
LEMMA WithWorkFacts ==
    ASSUME Inv, NEW p \in Pid, sh[p].pc = "del -r", NEW work \in Seq(WorkItem),
           work # <<>> => HasWork(work)
    PROVE  /\ WithWork(p, work) \in ShellRecord /\ Sound(WithWork(p, work), tree)
           /\ work = <<>> => WithWork(p, work) = Prompt(p) /\ WithWork(p, work).pc = "prompt"
           /\ work # <<>> => WithWork(p, work).pc = "del -r" /\ WithWork(p, work).work = work
           /\ Looking(WithWork(p, work)) <=> work # <<>> /\ Head(work).op = "list"
  <1> DEFINE s == WithWork(p, work)
  <1>1. CASE work = <<>>
    <2>1. s = Prompt(p)
      BY <1>1 DEF WithWork
    <2> HIDE DEF s
    <2>2. TypeOK
      BY DEF Inv
    <2> QED BY <1>1, <2>1, <2>2, PromptIsSound, PromptFacts DEF s
  <1>2. CASE work # <<>>
    <2>1. s = [sh[p] EXCEPT !.work = work]
      BY <1>2 DEF WithWork
    <2> HIDE DEF s
    <2>2. sh[p] \in ShellRecord /\ Sound(sh[p], tree)
      BY ShellHas
    <2>3. s \in ShellRecord /\ s.pc = "del -r" /\ s.work = work /\ s.from_fd = sh[p].from_fd
          /\ s.to_fd = sh[p].to_fd
      BY <2>1, <2>2 DEF ShellRecord
    <2>4. Sound(s, tree)
      BY <1>2, <2>2, <2>3 DEF Sound
    <2>5. Looking(s) <=> Head(work).op = "list"
      BY <2>3 DEF Looking
    <2> QED BY <1>2, <2>3, <2>4, <2>5 DEF s
  <1> QED BY <1>1, <1>2

(* The item that is to be done. *)
LEMMA TodoFacts ==
    ASSUME Inv, NEW p \in Pid, sh[p].pc = "del -r"
    PROVE  /\ sh[p].work \in Seq(WorkItem) /\ HasWork(sh[p].work)
           /\ Todo(p) \in WorkItem /\ Todo(p).path \in Text
           /\ Stat(Todo(p).path) \in EntryType
           /\ Tail(sh[p].work) \in Seq(WorkItem)
           /\ \A i \in 1..Len(Tail(sh[p].work)) : Tail(sh[p].work)[i].op # "list"
  <1>1. sh[p].work \in Seq(WorkItem) /\ HasWork(sh[p].work) /\ VfsType
    BY ShellHas DEF ShellRecord, Sound
  <1>2. Todo(p) \in WorkItem
    BY <1>1, TailOfWork DEF Todo
  <1>3. Todo(p).path \in Text
    BY <1>2 DEF WorkItem
  <1> QED BY <1>1, <1>2, <1>3, TailOfWork, ListingLength

LEMMA OneItem ==
    ASSUME NEW op \in {"stat", "list", "delete"}, NEW path \in Text
    PROVE  /\ <<Item(op, path)>> \in Seq(WorkItem) /\ Len(<<Item(op, path)>>) = 1
           /\ <<Item(op, path)>> # <<>> /\ Head(<<Item(op, path)>>) = Item(op, path)
           /\ Item(op, path).op = op /\ Item(op, path).path = path
           /\ <<Item(op, path)>>[1] = Item(op, path) /\ Item(op, path) \in WorkItem
  BY DEF Item, WorkItem

LEMMA DeleteStatKeeps ==
    ASSUME Inv, NEW p \in Pid, DeleteStat(p)
    PROVE  Inv'
  <1> DEFINE path == Todo(p).path
             entry == Stat(path)
             rest == Tail(sh[p].work)
             next == CASE entry.type = "none" -> <<>>
                       [] entry.type = "dir" /\ entry.size # 0 -> <<Item("list", path)>>
                       [] OTHER -> <<Item("delete", path)>>
             w == WithWork(p, next \o rest)
             s == IF w.pc = "prompt" THEN w ELSE [w EXCEPT !.entry = entry]
  <1>1. sh[p].pc = "del -r" /\ Go(p, s)
    BY DEF DeleteStat, At
  <1>2. path \in Text /\ entry \in EntryType /\ rest \in Seq(WorkItem)
        /\ \A i \in 1..Len(rest) : rest[i].op # "list"
    BY <1>1, TodoFacts
  <1>3. next = <<>> \/ next = <<Item("list", path)>> \/ next = <<Item("delete", path)>>
    OBVIOUS
  <1> HIDE DEF next, rest, entry
  <1>4. next \in Seq(WorkItem) /\ Len(next) <= 1
        /\ (next # <<>> => Len(next) = 1 /\ Head(next).path = path)
    <2> HIDE DEF path
    <2>1. CASE next = <<>>
      BY <2>1
    <2>2. ASSUME NEW op \in {"list", "delete"}, next = <<Item(op, path)>>
          PROVE  next \in Seq(WorkItem) /\ Len(next) = 1 /\ next # <<>> /\ Head(next).path = path
      <3>1. Item(op, path) \in WorkItem /\ Item(op, path).path = path
        BY <1>2, OneItem
      <3> DEFINE item == Item(op, path)
      <3>2. item \in WorkItem /\ item.path = path /\ next = <<item>>
        BY <2>2, <3>1
      <3> HIDE DEF item
      <3> QED BY <3>2
    <2>3. next = <<>> \/ \E op \in {"list", "delete"} : next = <<Item(op, path)>>
      BY <1>3
    <2>4. CASE \E op \in {"list", "delete"} : next = <<Item(op, path)>>
      <3>1. PICK op \in {"list", "delete"} : next = <<Item(op, path)>>
        BY <2>4
      <3>2. next \in Seq(WorkItem) /\ Len(next) = 1 /\ next # <<>> /\ Head(next).path = path
        BY <2>2, <3>1
      <3> QED BY <3>2
    <2> QED BY <2>1, <2>3, <2>4
  <1>5. Len(next) \in Nat /\ \A i \in 2..Len(next) : next[i].op # "list"
    BY <1>4
  <1> DEFINE v == next \o rest
  <1>6. v \in Seq(WorkItem) /\ (v # <<>> => HasWork(v))
    BY <1>2, <1>4, <1>5, MoreWork
  <1>7. v # <<>> /\ Head(v).op = "list" => Head(v).path = path
    <2>1. CASE next # <<>>
      BY <1>2, <1>4, <1>5, <2>1, MoreWork
    <2>2. CASE next = <<>>
      <3>1. v = rest
        BY <1>2, <2>2
      <3> HIDE DEF v
      <3>2. ASSUME v # <<>> PROVE Head(v) = v[1] /\ 1 \in 1..Len(v)
        BY <1>6, <3>2
      <3> QED BY <1>2, <3>1, <3>2
    <2> QED BY <2>1, <2>2
  <1> HIDE DEF v
  <1> HIDE DEF w
  <1>9. /\ w \in ShellRecord /\ Sound(w, tree)
        /\ v = <<>> => w = Prompt(p) /\ w.pc = "prompt"
        /\ v # <<>> => w.pc = "del -r" /\ w.work = v
    <2>1. sh[p].pc = "del -r"
      BY <1>1
    <2> HIDE DEF s, path
    <2> QED BY <1>6, <2>1, WithWorkFacts DEF w, v
  <1>10. CASE v = <<>>
    <2>1. s = Prompt(p)
      BY <1>9, <1>10
    <2> QED BY <1>1, <2>1, PromptIsSound, GoKeeps
  <1>11. CASE v # <<>>
    <2>1. s = [w EXCEPT !.entry = entry]
      BY <1>9, <1>11
    <2> HIDE DEF s
    <2>2. /\ s \in ShellRecord /\ s.pc = "del -r" /\ s.work = v /\ s.from_fd = w.from_fd
          /\ s.to_fd = w.to_fd /\ s.entry = entry
      BY <1>2, <1>9, <1>11, <2>1 DEF ShellRecord
    <2>3. Sound(s, tree)
      BY <1>9, <1>11, <2>2 DEF Sound
    <2>4. Informed(s)
      BY <1>7, <1>11, <2>2 DEF Informed, Looking, LookedAt, entry
    <2> QED BY <1>1, <2>2, <2>3, <2>4, GoKeeps
  <1> QED BY <1>10, <1>11

(* The entries of a directory, deleted before it. *)
LEMMA ExpandFacts ==
    ASSUME NEW path \in Text, NEW entries \in Seq(EntryType)
    PROVE  /\ Expand(path, entries) \in Seq(WorkItem) /\ Expand(path, entries) # <<>>
           /\ Len(Expand(path, entries)) = Len(entries) + 1 /\ Len(entries) \in Nat
           /\ \A i \in 1..Len(entries) :
                 /\ Expand(path, entries)[i] = Item("stat", path \o Slash \o entries[i].name)
                 /\ path \o Slash \o entries[i].name \in Text
           /\ Expand(path, entries)[Len(entries) + 1] = Item("delete", path)
           /\ \A i \in 1..Len(Expand(path, entries)) : Expand(path, entries)[i].op # "list"
  <1> DEFINE s == [i \in DOMAIN entries |-> Item("stat", path \o Slash \o entries[i].name)]
             d == <<Item("delete", path)>>
             e == Expand(path, entries)
  <1>1. Len(entries) \in Nat /\ DOMAIN entries = 1..Len(entries)
    OBVIOUS
  <1>2. \A i \in 1..Len(entries) : path \o Slash \o entries[i].name \in Text
    <2> SUFFICES ASSUME NEW i \in 1..Len(entries) PROVE path \o Slash \o entries[i].name \in Text
      OBVIOUS
    <2>0. entries[i] \in EntryType
      OBVIOUS
    <2>1. entries[i].name \in Text
      BY <2>0, NamesAreText, EmptyText DEF EntryType
    <2> HIDE DEF s, d, e
    <2> QED BY <2>1, JoinFacts
  <1>3. \A i \in 1..Len(entries) :
           /\ Item("stat", path \o Slash \o entries[i].name) \in WorkItem
           /\ Item("stat", path \o Slash \o entries[i].name).op = "stat"
    BY <1>2 DEF Item, WorkItem
  <1>4. s \in Seq(WorkItem) /\ Len(s) = Len(entries)
        /\ \A i \in 1..Len(entries) : s[i] = Item("stat", path \o Slash \o entries[i].name)
    <2>1. s \in [1..Len(entries) -> WorkItem]
      BY <1>1, <1>3
    <2> QED BY <1>1, <2>1
  <1>5. d \in Seq(WorkItem) /\ Len(d) = 1 /\ d[1] = Item("delete", path) /\ d[1].op = "delete"
    BY DEF Item, WorkItem
  <1>6. e = s \o d
    BY DEF Expand
  <1> HIDE DEF s, d, e
  <1>7. /\ e \in Seq(WorkItem) /\ Len(e) = Len(s) + Len(d)
        /\ \A i \in 1..(Len(s) + Len(d)) : e[i] = IF i <= Len(s) THEN s[i] ELSE d[i - Len(s)]
    <2>1. /\ s \o d \in Seq(WorkItem) /\ Len(s \o d) = Len(s) + Len(d)
          /\ \A i \in 1..Len(s \o d) : (s \o d)[i] = IF i <= Len(s) THEN s[i] ELSE d[i - Len(s)]
      <3>1. s \in Seq(WorkItem) /\ d \in Seq(WorkItem)
        BY <1>4, <1>5
      <3> QED BY <3>1, ConcatProperties
    <2> QED BY <1>6, <2>1
  <1>8. Len(e) = Len(entries) + 1 /\ e # <<>>
    BY <1>1, <1>4, <1>5, <1>7
  <1>9. \A i \in 1..Len(entries) : e[i] = Item("stat", path \o Slash \o entries[i].name)
    BY <1>1, <1>4, <1>5, <1>7
  <1>10. e[Len(entries) + 1] = Item("delete", path) /\ e[Len(entries) + 1].op = "delete"
    BY <1>1, <1>4, <1>5, <1>7
  <1>11. \A i \in 1..Len(e) : e[i].op # "list"
    BY <1>1, <1>3, <1>8, <1>9, <1>10
  <1> QED BY <1>1, <1>2, <1>7, <1>8, <1>9, <1>10, <1>11 DEF e

LEMMA DeleteListKeeps ==
    ASSUME Inv, NEW p \in Pid, DeleteList(p)
    PROVE  Inv'
  <1> DEFINE path == Todo(p).path
             rest == Tail(sh[p].work)
             entries == DirStat(path)
             more == Expand(path, entries)
  <1>1. sh[p].pc = "del -r"
        /\ (\/ Go(p, WithWork(p, rest)) \/ GoWild(p) \/ Go(p, WithWork(p, more \o rest)))
    BY DEF DeleteList, At
  <1>2. path \in Text /\ rest \in Seq(WorkItem) /\ \A i \in 1..Len(rest) : rest[i].op # "list"
    BY <1>1, TodoFacts
  <1>3. entries \in Seq(EntryType)
    BY <1>2, ShellHas, ListingLength
  <1> HIDE DEF rest, entries, path
  <1>4. more \in Seq(WorkItem) /\ more # <<>> /\ \A i \in 1..Len(more) : more[i].op # "list"
    BY <1>2, <1>3, ExpandFacts
  <1> HIDE DEF more
  <1>5. ASSUME NEW work \in Seq(WorkItem), \A i \in 1..Len(work) : work[i].op # "list",
               Go(p, WithWork(p, work))
        PROVE  Inv'
    <2> DEFINE s == WithWork(p, work)
    <2>1. work # <<>> => HasWork(work) /\ Head(work).op # "list"
      BY <1>5 DEF HasWork
    <2> HIDE DEF s
    <2>2. s \in ShellRecord /\ Sound(s, tree) /\ (Looking(s) => work # <<>> /\ Head(work).op = "list")
      BY <1>1, <2>1, WithWorkFacts DEF s
    <2> QED BY <1>5, <2>1, <2>2, GoKeeps DEF s, Informed
  <1>6. more \o rest \in Seq(WorkItem) /\ \A i \in 1..Len(more \o rest) : (more \o rest)[i].op # "list"
    <2>1. /\ more \o rest \in Seq(WorkItem) /\ Len(more \o rest) = Len(more) + Len(rest)
          /\ Len(more) \in Nat /\ Len(rest) \in Nat
          /\ \A i \in 1..Len(more \o rest) :
                (more \o rest)[i] = IF i <= Len(more) THEN more[i] ELSE rest[i - Len(more)]
      BY <1>2, <1>4, ConcatProperties
    <2>2. ASSUME NEW i \in 1..Len(more \o rest) PROVE (more \o rest)[i].op # "list"
      <3>1. CASE i <= Len(more)
        BY <1>4, <2>1, <3>1
      <3>2. CASE i > Len(more)
        <4>1. i - Len(more) \in 1..Len(rest) /\ (more \o rest)[i] = rest[i - Len(more)]
          BY <2>1, <3>2
        <4> QED BY <1>2, <4>1
      <3> QED BY <2>1, <3>1, <3>2
    <2> QED BY <2>1, <2>2
  <1> QED BY <1>1, <1>2, <1>5, <1>6, GoWildKeeps

LEMMA DeleteDeleteKeeps ==
    ASSUME Inv, NEW p \in Pid, DeleteDelete(p)
    PROVE  Inv'
  <1> DEFINE path == Todo(p).path
             rest == Tail(sh[p].work)
             s == WithWork(p, rest)
  <1>1. sh[p].pc = "del -r" /\ Delete(p, path, s)
    BY DEF DeleteDelete, At
  <1>2. rest \in Seq(WorkItem) /\ \A i \in 1..Len(rest) : rest[i].op # "list"
    BY <1>1, TodoFacts
  <1> HIDE DEF rest, path
  <1>3. rest # <<>> => HasWork(rest) /\ Head(rest).op # "list"
    BY <1>2 DEF HasWork
  <1> HIDE DEF s
  <1>4. s \in ShellRecord /\ Sound(s, tree) /\ (Looking(s) => rest # <<>> /\ Head(rest).op = "list")
    BY <1>1, <1>2, <1>3, WithWorkFacts DEF s
  <1> QED BY <1>1, <1>3, <1>4, DeleteKeeps

-----------------------------------------------------------------------------
(* tac, cat, cp and mv.                                                    *)

(* A descriptor that may be used is of a file that exists. *)
LEMMA InUse ==
    ASSUME NEW d, Attached(d, tree), d.file # <<>>, ~Gone(d)
    PROVE  d.file \in DOMAIN tree
  BY DEF Attached, Gone

LEMMA OpenedFacts ==
    ASSUME Inv, NEW path \in Canonical, CanOpen(path)
    PROVE  /\ Opened(path) \in Descriptor /\ Opened(path).file \in DOMAIN tree
           /\ Opened(path).file # <<>> /\ Attached(Opened(path), tree)
  <1> DEFINE names == Words(path)
  <1>1. IsTree(tree) /\ names \in Seq(Text) /\ path \in Text
    BY CanonicalFacts, NamesAreText DEF Inv, TypeOK
  <1> HIDE DEF names
  <1>2. names \in DOMAIN tree
    <2>1. FatStat(names).type = "file"
      BY DEF CanOpen, names
    <2> QED BY <1>1, <2>1, FatStatFacts
  <1>3. names \in Places /\ tree[names] \in Node
    BY <1>1, <1>2 DEF IsTree
  <1>4. names # <<>>
    BY <1>3, PlacesAreTexts
  <1>5. Len(tree[names].content) \in Nat
    BY <1>3 DEF Node, Text
  <1>6. Opened(path) = [file |-> names, pos |-> 0, buffer |-> <<>>, end |-> Len(tree[names].content)]
    BY DEF Opened, names
  <1>7. Opened(path) \in Descriptor
    BY <1>1, <1>5, <1>6, EmptyText DEF Descriptor
  <1> QED BY <1>2, <1>4, <1>6, <1>7 DEF Attached

LEMMA AdvanceType ==
    ASSUME IsTree(tree), NEW d \in Descriptor, d.file \in DOMAIN tree, NEW part \in Text
    PROVE  Advance(d, part) \in Descriptor /\ Advance(d, part).file = d.file
  <1> DEFINE pos == d.pos + Len(part)
             end == Max({d.end, pos})
             b == Buffer(Overwrite(Seen(d), d.pos, part), pos)
  <1>1. d.pos \in Nat /\ d.end \in Nat /\ Len(part) \in Nat
    BY DEF Descriptor, Text
  <1>2. pos \in Nat
    BY <1>1
  <1>3. Advance(d, part) = [d EXCEPT !.pos = pos, !.end = end, !.buffer = b]
    BY DEF Advance, Descriptor
  <1> HIDE DEF pos
  <1>4. end \in Nat
    <2> DEFINE a == d.end
    <2>1. a \in Nat /\ end = Max({a, pos})
      BY <1>1
    <2> HIDE DEF a, end
    <2> QED BY <1>2, <2>1, LargerNumber
  <1>5. b \in Text
    <2>1. Overwrite(Seen(d), d.pos, part) \in Text
      BY <1>1, SeenType, OverwriteFacts
    <2> QED BY <1>2, <2>1, BufferFacts
  <1> HIDE DEF end, b
  <1> QED BY <1>2, <1>3, <1>4, <1>5 DEF Descriptor

LEMMA OpenSourceKeeps ==
    ASSUME Inv, NEW p \in Pid, OpenSource(p)
    PROVE  Inv'
  <1> DEFINE pc == CASE sh[p].line.cmd = "tac" -> "tac"
                     [] sh[p].line.cmd = "cat" -> "cat"
                     [] OTHER -> "mkfile"
             d == Opened(sh[p].path)
             s == [sh[p] EXCEPT !.pc = pc, !.from_fd = d]
  <1>1. Abort(p) \/ (CanOpen(sh[p].path) /\ Go(p, s))
    BY DEF OpenSource, Step
  <1>2. sh[p] \in ShellRecord /\ Sound(sh[p], tree) /\ sh[p].pc = "open" /\ sh[p].path \in Canonical
    BY ShellHas DEF OpenSource, At
  <1>3. pc \in {"tac", "cat", "mkfile"}
    OBVIOUS
  <1>4. CASE CanOpen(sh[p].path) /\ Go(p, s)
    <2>1. d \in Descriptor /\ d.file # <<>> /\ Attached(d, tree)
      BY <1>2, <1>4, OpenedFacts
    <2> HIDE DEF d, pc
    <2>2. /\ s \in ShellRecord /\ s.pc = pc /\ s.from_fd = d /\ s.to_fd = sh[p].to_fd
      BY <1>2, <1>3, <2>1 DEF ShellRecord, Stages
    <2> HIDE DEF s
    <2>3. Sound(s, tree) /\ ~Looking(s)
      BY <1>2, <1>3, <2>1, <2>2 DEF Sound, Looking
    <2> QED BY <1>4, <2>2, <2>3, GoKeeps DEF Informed
  <1> QED BY <1>1, <1>4, AbortKeeps

LEMMA OpenCopyKeeps ==
    ASSUME Inv, NEW p \in Pid, OpenCopy(p)
    PROVE  Inv'
  <1> DEFINE d == Opened(sh[p].to)
             s == [sh[p] EXCEPT !.pc = "read", !.to_fd = d]
  <1>1. Abort(p) \/ (CanOpen(sh[p].to) /\ Go(p, s))
    BY DEF OpenCopy, Step
  <1>2. sh[p] \in ShellRecord /\ Sound(sh[p], tree) /\ sh[p].pc = "open copy" /\ sh[p].to \in Canonical
    BY ShellHas DEF OpenCopy, At
  <1>3. CASE CanOpen(sh[p].to) /\ Go(p, s)
    <2>1. d \in Descriptor /\ d.file # <<>> /\ Attached(d, tree)
      BY <1>2, <1>3, OpenedFacts
    <2> HIDE DEF d
    <2>2. /\ s \in ShellRecord /\ s.pc = "read" /\ s.from_fd = sh[p].from_fd /\ s.to_fd = d
      BY <1>2, <2>1 DEF ShellRecord, Stages
    <2> HIDE DEF s
    <2>3. Sound(s, tree) /\ ~Looking(s)
      BY <1>2, <2>1, <2>2 DEF Sound, Looking
    <2> QED BY <1>3, <2>2, <2>3, GoKeeps DEF Informed
  <1> QED BY <1>1, <1>3, AbortKeeps

LEMMA ReadBlockKeeps ==
    ASSUME Inv, NEW p \in Pid, ReadBlock(p)
    PROVE  Inv'
  <1> DEFINE d == sh[p].from_fd
             text == ReadFrom(d, BLOCK)
             pos == d.pos + Len(text)
             b == Buffer(Seen(d), pos)
             buffer == Overwrite(Resize(sh[p].buffer, BLOCK), 0, text)
             r == [sh[p] EXCEPT !.pc = "write", !.from_fd = [d EXCEPT !.pos = pos, !.buffer = b],
                                !.buffer = buffer]
             m == [sh[p] EXCEPT !.pc = "mv"]
  <1>1. sh[p] \in ShellRecord /\ Sound(sh[p], tree) /\ sh[p].pc = "read" /\ IsTree(tree)
    BY ShellHas DEF ReadBlock, At, TypeOK
  <1>2. GoWild(p) \/ (~Gone(d) /\ Go(p, r)) \/ Go(p, m) \/ Go(p, Prompt(p))
    <2>1. [Step(p, "write") EXCEPT !.from_fd.pos = pos, !.from_fd.buffer = b, !.buffer = buffer] = r
      BY <1>1 DEF Step, ShellRecord
    <2>2. Step(p, "mv") = m
      BY DEF Step
    <2> HIDE DEF r, m, b, pos, buffer
    <2>3. CASE Gone(d)
      BY <2>3 DEF ReadBlock
    <2>4. CASE ~Gone(d) /\ text # <<>>
      BY <2>1, <2>4 DEF ReadBlock, pos, b, buffer
    <2>5. CASE ~Gone(d) /\ text = <<>>
      BY <2>2, <2>5 DEF ReadBlock
    <2> QED BY <2>3, <2>4, <2>5
  <1>3. CASE ~Gone(d) /\ Go(p, r)
    <2>1. d \in Descriptor /\ d.file \in DOMAIN tree
      BY <1>1, <1>3, InUse DEF ShellRecord, Sound
    <2>2. text \in Text /\ Len(text) \in Nat /\ BLOCK \in Nat
      BY <1>1, <2>1, ReadType, ShellAssumption
    <2>3. pos \in Nat
      BY <2>1, <2>2 DEF Descriptor
    <2>4. b \in Text
      BY <1>1, <2>1, <2>3, SeenType, BufferFacts
    <2>5. buffer \in Text
      <3>1. Resize(sh[p].buffer, BLOCK) \in Text
        BY <1>1, <2>2, ResizeFacts DEF ShellRecord
      <3> QED BY <2>2, <3>1, OverwriteFacts
    <2> HIDE DEF b, pos, buffer, text
    <2> DEFINE fd == [d EXCEPT !.pos = pos, !.buffer = b]
    <2>6. fd \in Descriptor /\ fd.file = d.file
      BY <2>1, <2>3, <2>4 DEF Descriptor
    <2> HIDE DEF fd
    <2>7. /\ r \in ShellRecord /\ r.pc = "write" /\ r.from_fd = fd /\ r.to_fd = sh[p].to_fd
      BY <1>1, <2>5, <2>6 DEF ShellRecord, Stages, fd
    <2> HIDE DEF r
    <2>8. Attached(fd, tree) /\ fd.file # <<>>
      BY <1>1, <2>6 DEF Sound, Attached
    <2>9. Sound(r, tree) /\ ~Looking(r)
      BY <1>1, <2>7, <2>8 DEF Sound, Looking
    <2> QED BY <1>3, <2>7, <2>9, GoKeeps DEF Informed
  <1>4. CASE Go(p, m)
    <2>1. m \in ShellRecord /\ m.pc = "mv" /\ m.from_fd = sh[p].from_fd /\ m.to_fd = sh[p].to_fd
      BY <1>1 DEF ShellRecord, Stages
    <2> HIDE DEF m
    <2>2. Sound(m, tree) /\ ~Looking(m)
      BY <1>1, <2>1 DEF Sound, Looking
    <2> QED BY <1>4, <2>1, <2>2, GoKeeps DEF Informed
  <1> QED BY <1>2, <1>3, <1>4, GoWildKeeps, PromptIsSound, GoKeeps

(* A write through a descriptor of an existing file. *)
LEMMA WriteKeeps ==
    ASSUME Inv, NEW p \in Pid, NEW d \in Descriptor, d.file \in DOMAIN tree,
           NEW text \in Text, NEW part, part = Fitting(d, text),
           NEW s \in ShellRecord, Sound(s, tree), ~Looking(s),
           Change(p, Written(d, text, part), s)
    PROVE  Inv'
  <1>1. IsTree(tree)
    BY DEF Inv, TypeOK
  <1>2. part \in Text
    BY <1>1, FittingType
  <1>3. IsTree(Written(d, text, part))
    BY <1>1, <1>2, WrittenIsTree
  <1> QED BY <1>3, ChangeKeeps

LEMMA WriteBlockKeeps ==
    ASSUME Inv, NEW p \in Pid, WriteBlock(p)
    PROVE  Inv'
  <1> DEFINE d == sh[p].to_fd
             text == sh[p].buffer
             part == Fitting(d, text)
             fd == Advance(d, part)
             failed == part # text
             s == [sh[p] EXCEPT !.pc = "read", !.to_fd = fd, !.failed = failed]
  <1>1. sh[p] \in ShellRecord /\ Sound(sh[p], tree) /\ sh[p].pc = "write" /\ IsTree(tree)
    BY ShellHas DEF WriteBlock, At, TypeOK
  <1>2. GoWild(p) \/ (~Gone(d) /\ Change(p, Written(d, text, part), s))
    BY DEF WriteBlock, Step
  <1>3. CASE ~Gone(d) /\ Change(p, Written(d, text, part), s)
    <2>1. d \in Descriptor /\ d.file \in DOMAIN tree /\ d.file # <<>> /\ text \in Text
      BY <1>1, <1>3, InUse DEF ShellRecord, Sound
    <2>2. part \in Text
      BY <1>1, <2>1, FittingType
    <2>3. fd \in Descriptor /\ fd.file = d.file
      BY <1>1, <2>1, <2>2, AdvanceType
    <2>4. failed \in BOOLEAN
      OBVIOUS
    <2> HIDE DEF fd, failed
    <2>5. /\ s \in ShellRecord /\ s.pc = "read" /\ s.from_fd = sh[p].from_fd /\ s.to_fd = fd
      BY <1>1, <2>3, <2>4 DEF ShellRecord, Stages
    <2> HIDE DEF s
    <2>6. Attached(fd, tree) /\ fd.file # <<>>
      BY <2>1, <2>3 DEF Attached
    <2>7. Sound(s, tree) /\ ~Looking(s)
      BY <1>1, <2>5, <2>6 DEF Sound, Looking
    <2> QED BY <1>3, <2>1, <2>5, <2>7, WriteKeeps
  <1> QED BY <1>2, <1>3, GoWildKeeps

LEMMA TacKeeps ==
    ASSUME Inv, NEW p \in Pid, Tac(p)
    PROVE  Inv'
  <1> DEFINE d == sh[p].from_fd
             text == Content(p)
             part == Fitting(d, text)
             fd == Advance(d, part)
             r == [sh[p] EXCEPT !.from_fd = fd, !.buffer = text]
             s == IF part # text \/ text = <<"nul">> THEN Prompt(p) ELSE r
  <1>1. sh[p] \in ShellRecord /\ Sound(sh[p], tree) /\ sh[p].pc = "tac" /\ IsTree(tree)
    BY ShellHas DEF Tac, At, TypeOK
  <1>2. GoWild(p) \/ (~Gone(d) /\ Change(p, Written(d, text, part), s))
    BY DEF Tac
  <1>3. CASE ~Gone(d) /\ Change(p, Written(d, text, part), s)
    <2>1. d \in Descriptor /\ d.file \in DOMAIN tree /\ d.file # <<>>
      BY <1>1, <1>3, InUse DEF ShellRecord, Sound
    <2>2. text \in Text
      <3>1. Arg(sh[p].line, 2) \in Text
        BY <1>1, ArgType DEF ShellRecord
      <3>2. <<"nul">> \in Text
        BY ShellAssumption DEF Text
      <3> QED BY <3>1, <3>2 DEF Content
    <2> HIDE DEF text
    <2>3. part \in Text
      BY <1>1, <2>1, <2>2, FittingType
    <2>4. fd \in Descriptor /\ fd.file = d.file
      BY <1>1, <2>1, <2>3, AdvanceType
    <2> HIDE DEF fd
    <2>5. /\ r \in ShellRecord /\ r.pc = "tac" /\ r.from_fd = fd /\ r.to_fd = sh[p].to_fd
      BY <1>1, <2>2, <2>4 DEF ShellRecord
    <2> HIDE DEF r
    <2>6. Attached(fd, tree) /\ fd.file # <<>>
      BY <2>1, <2>4 DEF Attached
    <2>7. Sound(r, tree) /\ ~Looking(r)
      BY <1>1, <2>5, <2>6 DEF Sound, Looking
    <2>8. s \in ShellRecord /\ Sound(s, tree) /\ ~Looking(s)
      BY <2>5, <2>7, PromptIsSound
    <2> HIDE DEF s
    <2> QED BY <1>3, <2>1, <2>2, <2>8, WriteKeeps
  <1> QED BY <1>2, <1>3, GoWildKeeps

LEMMA CatKeeps ==
    ASSUME Inv, NEW p \in Pid, Cat(p)
    PROVE  Inv'
  BY PromptIsSound, GoKeeps DEF Cat

-----------------------------------------------------------------------------
(* find.                                                                   *)

(* The path of an entry with a name is that of its directory with one more *)
(* name.                                                                   *)
LEMMA PathFacts ==
    ASSUME NEW dir \in Canonical, NEW e, e.name \in Name
    PROVE  /\ Path(dir, e) = TextOf(Append(Words(dir), e.name))
           /\ Path(dir, e) \in Canonical
           /\ Words(Path(dir, e)) = Append(Words(dir), e.name)
  <1> DEFINE names == Words(dir)
             w == e.name
  <1>1. names \in Seq(Name) /\ TextOf(names) = dir /\ (dir = Slash <=> names = <<>>)
    BY CanonicalFacts
  <1>2. Append(names, w) \in Seq(Name)
    BY <1>1
  <1>3. JoinedText(names) = IF dir = Slash THEN <<>> ELSE dir
    BY <1>1, JoinedEmpty, TextOfNames
  <1>4. TextOf(Append(names, w)) = JoinedText(names) \o Slash \o w
    BY <1>1, TextOfAppend
  <1>5. Path(dir, e) = TextOf(Append(names, w))
    BY <1>3, <1>4 DEF Path
  <1> QED BY <1>2, <1>5, WordsOfText DEF Canonical

LEMMA PathsOfFacts ==
    ASSUME NEW dir \in Canonical, NEW entries \in Seq(EntryType),
           \A i \in 1..Len(entries) : entries[i].name # <<>>
    PROVE  /\ PathsOf(dir, entries) \in Seq(Canonical) /\ Len(PathsOf(dir, entries)) = Len(entries)
           /\ \A i \in 1..Len(entries) :
                 /\ entries[i].name \in Name
                 /\ PathsOf(dir, entries)[i] = Path(dir, entries[i])
  <1>1. \A i \in 1..Len(entries) : entries[i].name \in Name
    <2>1. \A i \in 1..Len(entries) : entries[i] \in EntryType
      OBVIOUS
    <2> QED BY <2>1 DEF EntryType
  <1>2. \A i \in 1..Len(entries) : Path(dir, entries[i]) \in Canonical
    BY <1>1, PathFacts
  <1>3. PathsOf(dir, entries) \in [1..Len(entries) -> Canonical]
    BY <1>2 DEF PathsOf
  <1> QED BY <1>1, <1>3 DEF PathsOf

(* Some of the entries. *)
LEMMA SelectedEntries ==
    ASSUME NEW entries \in Seq(EntryType), NEW B \in SUBSET (1..Len(entries)),
           \A i \in 1..Len(entries) : entries[i].name # <<>>
    PROVE  /\ Selected(entries, B) \in Seq(EntryType)
           /\ \A i \in 1..Len(Selected(entries, B)) : Selected(entries, B)[i].name # <<>>
  <1> DEFINE q == Selected(entries, B)
  <1>1. q \in Seq(EntryType) /\ \A x : x \in Range(q) <=> \E i \in B : x = entries[i]
    BY SelectedFacts
  <1> HIDE DEF q
  <1>2. ASSUME NEW i \in 1..Len(q) PROVE q[i].name # <<>>
    <2>1. q[i] \in Range(q)
      BY <1>1 DEF Range
    <2>2. PICK j \in B : q[i] = entries[j]
      BY <1>1, <2>1
    <2> QED BY <2>2
  <1> QED BY <1>1, <1>2 DEF q

LEMMA FindBeginKeeps ==
    ASSUME Inv, NEW p \in Pid, FindBegin(p)
    PROVE  Inv'
  <1>1. PICK rows \in {sh[p].leftover, <<>>} :
           Go(p, [Step(p, "find stat") EXCEPT !.file_list = <<Slash>> \o rows, !.leftover = rows])
    BY DEF FindBegin
  <1> DEFINE list == <<Slash>> \o rows
             s == [sh[p] EXCEPT !.pc = "find stat", !.file_list = list, !.leftover = rows]
  <1>2. sh[p] \in ShellRecord /\ Sound(sh[p], tree)
    BY ShellHas
  <1>3. rows \in Seq(Canonical)
    <2>1. sh[p].leftover \in Seq(Canonical) /\ <<>> \in Seq(Canonical)
      BY <1>2 DEF ShellRecord
    <2> QED BY <2>1
  <1>4. list \in Seq(Canonical) /\ list # <<>>
    <2> DEFINE one == <<Slash>>
    <2>1. one \in Seq(Canonical) /\ Len(one) = 1
      BY SlashIsCanonical
    <2>2. Len(rows) \in Nat
      BY <1>3
    <2> HIDE DEF one
    <2>3. one \o rows \in Seq(Canonical) /\ Len(one \o rows) = Len(one) + Len(rows)
      BY <1>3, <2>1, ConcatProperties
    <2>4. list = one \o rows
      BY DEF one
    <2> HIDE DEF list
    <2> QED BY <2>1, <2>2, <2>3, <2>4
  <1>5. Go(p, s)
    BY <1>1 DEF Step
  <1> HIDE DEF list
  <1>6. /\ s \in ShellRecord /\ s.pc = "find stat" /\ s.from_fd = sh[p].from_fd /\ s.to_fd = sh[p].to_fd
        /\ s.file_list = list
    BY <1>2, <1>3, <1>4 DEF ShellRecord, Stages
  <1> HIDE DEF s
  <1>7. Sound(s, tree) /\ ~Looking(s)
    BY <1>2, <1>4, <1>6 DEF Sound, Looking
  <1> QED BY <1>5, <1>6, <1>7, GoKeeps DEF Informed

LEMMA FindAbortKeeps ==
    ASSUME Inv, NEW p \in Pid, sh[p].file_list # <<>>, FindAbort(p)
    PROVE  Inv'
  <1> DEFINE s == [Prompt(p) EXCEPT !.leftover = Tail(sh[p].file_list)]
  <1>1. Tail(sh[p].file_list) \in Seq(Canonical)
    <2>1. sh[p].file_list \in Seq(Canonical)
      BY ShellHas DEF ShellRecord
    <2> QED BY <2>1
  <1>2. /\ Prompt(p) \in ShellRecord /\ Prompt(p).pc = "prompt" /\ Prompt(p).line = NoLine
        /\ Prompt(p).from_fd = NoDescriptor /\ Prompt(p).to_fd = NoDescriptor
    BY ShellHas, PromptFacts
  <1>3. /\ s \in ShellRecord /\ s.pc = "prompt" /\ s.line = NoLine
        /\ s.from_fd = NoDescriptor /\ s.to_fd = NoDescriptor
    BY <1>1, <1>2 DEF ShellRecord
  <1>4. Go(p, s)
    BY DEF FindAbort
  <1> HIDE DEF s
  <1>5. Sound(s, tree) /\ ~Looking(s)
    BY <1>3, RestingFacts
  <1> QED BY <1>3, <1>4, <1>5, GoKeeps DEF Informed

(* The row that find works on. *)
LEMMA LastRow ==
    ASSUME Inv, NEW p \in Pid, sh[p].file_list # <<>>
    PROVE  /\ sh[p].file_list \in Seq(Canonical)
           /\ Last(sh[p].file_list) \in Canonical /\ Last(sh[p].file_list) \in Text
           /\ Front(sh[p].file_list) \in Seq(Canonical)
           /\ sh[p].file_list = Append(Front(sh[p].file_list), Last(sh[p].file_list))
  <1> DEFINE rows == sh[p].file_list
  <1>1. rows \in Seq(Canonical)
    BY ShellHas DEF ShellRecord
  <1> HIDE DEF rows
  <1>2. PICK r \in Seq(Canonical), x \in Canonical : rows = Append(r, x)
    BY <1>1, SequenceEmptyOrAppend DEF rows
  <1>3. Last(rows) = x /\ Front(rows) = r
    BY <1>2, AppendFacts
  <1> QED BY <1>1, <1>2, <1>3, CanonicalFacts DEF rows

LEMMA FindStatKeeps ==
    ASSUME Inv, NEW p \in Pid, FindStat(p)
    PROVE  Inv'
  <1> DEFINE path == Last(sh[p].file_list)
             entry == Stat(path)
             s == [sh[p] EXCEPT !.pc = "find list", !.entry = entry]
  <1>1. sh[p] \in ShellRecord /\ Sound(sh[p], tree) /\ sh[p].pc = "find stat" /\ VfsType
    BY ShellHas DEF FindStat, At
  <1>2. sh[p].file_list # <<>>
    BY <1>1 DEF Sound
  <1>3. FindAbort(p) \/ Go(p, s)
    BY DEF FindStat, Step
  <1>4. CASE Go(p, s)
    <2>1. entry \in EntryType
      BY <1>1, <1>2, LastRow, ListingLength
    <2> HIDE DEF entry
    <2>2. /\ s \in ShellRecord /\ s.pc = "find list" /\ s.from_fd = sh[p].from_fd /\ s.to_fd = sh[p].to_fd
          /\ s.file_list = sh[p].file_list /\ s.entry = entry
      BY <1>1, <2>1 DEF ShellRecord, Stages
    <2> HIDE DEF s
    <2>3. Sound(s, tree)
      BY <1>1, <1>2, <2>2 DEF Sound
    <2>4. Informed(s)
      BY <2>2 DEF Informed, LookedAt, entry
    <2> QED BY <1>4, <2>2, <2>3, <2>4, GoKeeps
  <1> QED BY <1>2, <1>3, <1>4, FindAbortKeeps

(* The rows behind one turn of the loop. *)
LEMMA ListingType ==
    ASSUME Inv, NEW p \in Pid, sh[p].pc = "find list", NEW dir, dir = Last(sh[p].file_list),
           NEW entries, entries = DirStat(dir), AllNamed(p, entries)
    PROVE  /\ Listing(p, dir, entries) \in ShellRecord
           /\ Listing(p, dir, entries).pc =
                 IF Listing(p, dir, entries).file_list = <<>> THEN "found" ELSE "find stat"
           /\ Listing(p, dir, entries).from_fd = sh[p].from_fd
           /\ Listing(p, dir, entries).to_fd = sh[p].to_fd
  <1> DEFINE B == {i \in DOMAIN entries : entries[i].type = "dir"}
             C == {i \in DOMAIN entries : entries[i].name = Arg(sh[p].line, 1)}
             deeper == Selected(entries, B)
             matching == Selected(entries, C)
             rows == Pop(sh[p].file_list) \o PathsOf(dir, deeper)
             found == sh[p].found \o PathsOf(dir, matching)
             pc == IF rows = <<>> THEN "found" ELSE "find stat"
             s == [sh[p] EXCEPT !.pc = pc, !.file_list = rows, !.found = found]
  <1>1. sh[p] \in ShellRecord /\ sh[p].file_list # <<>> /\ VfsType
    BY ShellHas DEF Sound
  <1>2. dir \in Canonical /\ dir \in Text /\ Front(sh[p].file_list) \in Seq(Canonical)
    BY <1>1, LastRow
  <1>3. entries \in Seq(EntryType)
    BY <1>1, <1>2, ListingLength
  <1>4. \A i \in 1..Len(entries) : entries[i].name # <<>>
    <2>1. \A i \in 1..Len(entries) : entries[i] \in Range(entries)
      BY <1>3, IndicesOf
    <2> QED BY <2>1 DEF AllNamed
  <1>5. B \in SUBSET (1..Len(entries)) /\ C \in SUBSET (1..Len(entries))
    <2>1. DOMAIN entries = 1..Len(entries)
      BY <1>3, IndicesOf
    <2>2. B \subseteq DOMAIN entries /\ C \subseteq DOMAIN entries
      OBVIOUS
    <2> QED BY <2>1, <2>2
  <1> HIDE DEF B, C
  <1>6. PathsOf(dir, deeper) \in Seq(Canonical) /\ PathsOf(dir, matching) \in Seq(Canonical)
    BY <1>2, <1>3, <1>4, <1>5, SelectedEntries, PathsOfFacts
  <1>7. rows \in Seq(Canonical)
    BY <1>2, <1>6, ConcatProperties DEF Pop
  <1>8. found \in Seq(Canonical)
    BY <1>1, <1>6, ConcatProperties DEF ShellRecord
  <1>9. Listing(p, dir, entries) = s
    BY <1>1 DEF Listing, Step, ShellRecord, B, C
  <1> HIDE DEF rows, found
  <1>10. s \in ShellRecord /\ s.pc = pc /\ s.file_list = rows /\ s.from_fd = sh[p].from_fd /\ s.to_fd = sh[p].to_fd
    BY <1>1, <1>7, <1>8 DEF ShellRecord, Stages
  <1> QED BY <1>9, <1>10

LEMMA FindListKeeps ==
    ASSUME Inv, NEW p \in Pid, FindList(p)
    PROVE  Inv'
  <1> DEFINE dir == Last(sh[p].file_list)
             entries == DirStat(dir)
             s == Listing(p, dir, entries)
  <1>1. sh[p] \in ShellRecord /\ Sound(sh[p], tree) /\ sh[p].pc = "find list"
    BY ShellHas DEF FindList, At
  <1>2. FindAbort(p) \/ GoWild(p) \/ (AllNamed(p, entries) /\ Go(p, s))
    BY DEF FindList
  <1>3. CASE AllNamed(p, entries) /\ Go(p, s)
    <2>1. /\ s \in ShellRecord /\ s.pc = (IF s.file_list = <<>> THEN "found" ELSE "find stat")
          /\ s.from_fd = sh[p].from_fd /\ s.to_fd = sh[p].to_fd
      BY <1>1, <1>3, ListingType
    <2> HIDE DEF s
    <2>2. Sound(s, tree) /\ ~Looking(s)
      BY <1>1, <2>1 DEF Sound, Looking
    <2> QED BY <1>3, <2>1, <2>2, GoKeeps DEF Informed
  <1>4. sh[p].file_list # <<>>
    BY <1>1 DEF Sound
  <1> QED BY <1>2, <1>3, <1>4, FindAbortKeeps, GoWildKeeps

LEMMA FindEndKeeps ==
    ASSUME Inv, NEW p \in Pid, FindEnd(p)
    PROVE  Inv'
  <1> DEFINE s == [Prompt(p) EXCEPT !.leftover = <<>>]
  <1>2. /\ Prompt(p) \in ShellRecord /\ Prompt(p).pc = "prompt" /\ Prompt(p).line = NoLine
        /\ Prompt(p).from_fd = NoDescriptor /\ Prompt(p).to_fd = NoDescriptor
    BY ShellHas, PromptFacts
  <1>3. /\ s \in ShellRecord /\ s.pc = "prompt" /\ s.line = NoLine
        /\ s.from_fd = NoDescriptor /\ s.to_fd = NoDescriptor
    <2>1. <<>> \in Seq(Canonical)
      OBVIOUS
    <2> QED BY <1>2, <2>1 DEF ShellRecord
  <1>4. Go(p, s)
    BY DEF FindEnd
  <1> HIDE DEF s
  <1>5. Sound(s, tree) /\ ~Looking(s)
    BY <1>3, RestingFacts
  <1> QED BY <1>3, <1>4, <1>5, GoKeeps DEF Informed

-----------------------------------------------------------------------------
(* exec, exit and kill.                                                    *)

LEMMA ExecKeeps ==
    ASSUME Inv, NEW p \in Pid, Exec(p)
    PROVE  Inv'
  <1> DEFINE q == CHOOSE q \in Pid : q \notin running
             Fresh(rows) == [Idle EXCEPT !.pc = "start", !.leftover = rows]
             After(rows) == [sh EXCEPT ![p] = Prompt(p), ![q] = Fresh(rows)]
  <1>1. Abort(p) \/ (running # Pid /\ \E rows \in {<<>>} \cup uncleared :
                                       Population(running \cup {q}, After(rows)))
    BY DEF Exec
  <1>2. CASE running # Pid /\ \E rows \in {<<>>} \cup uncleared :
                                 Population(running \cup {q}, After(rows))
    <2> PICK rows \in {<<>>} \cup uncleared : Population(running \cup {q}, After(rows))
      BY <1>2
    <2> DEFINE new == Fresh(rows)
               s == [sh EXCEPT ![p] = Prompt(p), ![q] = new]
    <2>0. Population(running \cup {q}, s)
      OBVIOUS
    <2>1. /\ running \in SUBSET Pid /\ sh \in [Pid -> ShellRecord]
          /\ rows \in Seq(Canonical)
      <3>1. <<>> \in Seq(Canonical)
        OBVIOUS
      <3> QED BY <3>1 DEF Inv, TypeOK
    <2>2. q \in Pid
      BY <1>2, <2>1
    <2>3. /\ new \in ShellRecord /\ new.pc = "start" /\ new.line = NoLine
          /\ new.from_fd = NoDescriptor /\ new.to_fd = NoDescriptor
      <3>1. Idle \in ShellRecord /\ Idle.line = NoLine /\ Idle.from_fd = NoDescriptor /\ Idle.to_fd = NoDescriptor
        BY IdleIsShell DEF Idle
      <3> QED BY <2>1, <3>1 DEF ShellRecord, Stages
    <2> HIDE DEF q, new
    <2>4. Sound(new, tree)
      BY <2>3, RestingFacts
    <2>5. Prompt(p) \in ShellRecord /\ Sound(Prompt(p), tree)
      BY PromptIsSound
    <2>6. s \in [Pid -> ShellRecord] /\ \A x \in Pid : s[x] = new \/ s[x] = Prompt(p) \/ s[x] = sh[x]
      BY <2>1, <2>2, <2>3, <2>5
    <2>7. \A x \in Pid : Sound(s[x], tree)
      BY <2>4, <2>5, <2>6 DEF Inv
    <2>8. running \cup {q} \in SUBSET Pid
      BY <2>1, <2>2
    <2> HIDE DEF s
    <2> QED BY <2>0, <2>6, <2>7, <2>8, PopulationKeeps
  <1> QED BY <1>1, <1>2, AbortKeeps

LEMMA ExitKeeps ==
    ASSUME Inv, NEW p \in Pid, Exit(p)
    PROVE  Inv'
  <1>1. sh \in [Pid -> ShellRecord] /\ running \ {p} \in SUBSET Pid /\ \A q \in Pid : Sound(sh[q], tree)
    BY DEF Inv, TypeOK
  <1> QED BY <1>1, AbortKeeps, PopulationKeeps DEF Exit

LEMMA KillKeeps ==
    ASSUME Inv, NEW p \in Pid, Kill(p)
    PROVE  Inv'
  <1> DEFINE s == [sh EXCEPT ![p] = Prompt(p)]
  <1>1. Abort(p) \/ Population({p}, s)
    BY DEF Kill
  <1>2. s \in [Pid -> ShellRecord] /\ \A x \in Pid : Sound(s[x], tree)
    BY PromptIsSound DEF Inv, TypeOK
  <1>3. {p} \in SUBSET Pid
    OBVIOUS
  <1> HIDE DEF s
  <1> QED BY <1>1, <1>2, <1>3, AbortKeeps, PopulationKeeps

-----------------------------------------------------------------------------
(* The invariant holds.                                                    *)

LEMMA InvInitially == Init => Inv
  <1> SUFFICES ASSUME Init PROVE Inv
    OBVIOUS
  <1> DEFINE start == [Idle EXCEPT !.pc = "start"]
  <1>1. /\ start \in ShellRecord /\ start.pc = "start" /\ start.line = NoLine
        /\ start.from_fd = NoDescriptor /\ start.to_fd = NoDescriptor
    <2>1. Idle \in ShellRecord /\ Idle.line = NoLine /\ Idle.from_fd = NoDescriptor /\ Idle.to_fd = NoDescriptor
      BY IdleIsShell DEF Idle
    <2> QED BY <2>1 DEF ShellRecord, Stages
  <1>2. /\ Off \in ShellRecord /\ Off.pc = "off" /\ Off.line = NoLine
        /\ Off.from_fd = NoDescriptor /\ Off.to_fd = NoDescriptor
    BY IdleIsShell DEF Off, Idle
  <1>3. \A p \in Pid : sh[p] = start \/ sh[p] = Off
    BY DEF Init
  <1>4. sh = [p \in Pid |-> sh[p]]
    BY DEF Init
  <1> HIDE DEF start
  <1>5. Sound(start, tree) /\ ~Looking(start) /\ Sound(Off, tree) /\ ~Looking(Off)
    BY <1>1, <1>2, RestingFacts
  <1>6. \A p \in Pid : sh[p] \in ShellRecord /\ Sound(sh[p], tree) /\ Informed(sh[p])
    BY <1>1, <1>2, <1>3, <1>5 DEF Informed
  <1>7. sh \in [Pid -> ShellRecord]
    BY <1>4, <1>6
  <1>8. running \in SUBSET Pid /\ foreground \in Seq(Pid) /\ typed \in Nat /\ wild \in BOOLEAN
    <2>1. FirstShell \in Pid
      BY VfsAssumption DEF FirstShell
    <2>2. running = {FirstShell} /\ foreground = <<>> /\ typed = 0 /\ wild = FALSE
      BY DEF Init
    <2>3. <<>> \in Seq(Pid)
      OBVIOUS
    <2> QED BY <2>1, <2>2, <2>3
  <1>9. IsTree(tree) /\ uncleared \subseteq Seq(Canonical)
    BY ShellAssumption DEF Init
  <1> QED BY <1>6, <1>7, <1>8, <1>9 DEF Inv, TypeOK

LEMMA WorkKeeps ==
    ASSUME Inv, NEW p \in Pid, Work(p)
    PROVE  Inv'
  BY OpenStdinKeeps, StatArgumentKeeps, LsKeeps, MkdirTouchKeep, DelMoveDeleteKeep, DeleteStatKeeps,
     DeleteListKeeps, DeleteDeleteKeeps, OpenSourceKeeps, MakeCopyKeeps, OpenCopyKeeps,
     ReadBlockKeeps, WriteBlockKeeps, TacKeeps, CatKeeps, FindBeginKeeps, FindStatKeeps,
     FindListKeeps, FindEndKeeps, ExecKeeps, ExitKeeps, KillKeeps DEF Work

LEMMA InvStutters == Inv /\ UNCHANGED vars => Inv'
  <1> SUFFICES ASSUME Inv, UNCHANGED vars PROVE Inv'
    OBVIOUS
  <1>1. UNCHANGED <<tree, running, sh, foreground, typed, wild, uncleared>> /\ UNCHANGED vfsVars
    BY DEF vars, vfsVars
  <1>2. TypeOK'
    BY <1>1 DEF Inv, TypeOK, IsTree
  <1>3. ASSUME NEW q \in Pid PROVE (Sound(sh[q], tree) /\ Informed(sh[q]))'
    <2>1. Stat(LookedAt(sh[q])) = (Stat(LookedAt(sh[q])))'
      <3> DEFINE at == LookedAt(sh[q])'
      <3>1. at = LookedAt(sh[q])
        BY <1>1 DEF LookedAt
      <3> QED BY <1>1, <3>1, StatSame
    <2> QED BY <1>1, <2>1 DEF Informed, Inv
  <1> QED BY <1>2, <1>3 DEF Inv

LEMMA InvIsInductive == Inv /\ [Next]_vars => Inv'
  <1> SUFFICES ASSUME Inv, [Next]_vars PROVE Inv'
    OBVIOUS
  <1>1. CASE UNCHANGED vars
    BY <1>1, InvStutters
  <1>2. CASE Next
    <2>1. PICK p \in Pid : Work(p) \/ \E line \in Lines : Run(p, line)
      BY <1>2 DEF Next
    <2> QED BY <2>1, WorkKeeps, RunKeeps
  <1> QED BY <1>1, <1>2

(* In every reachable state each shell has what its stage of a command     *)
(* needs (open files, rows, items of work), its paths are canonical, and   *)
(* what VFS_STAT told it is still so if nothing else was changed.          *)
THEOREM ShellInvariant == Spec => []Inv
  <1>1. Init => Inv
    BY InvInitially
  <1>2. Inv /\ [Next]_vars => Inv'
    BY InvIsInductive
  <1> QED BY <1>1, <1>2, PTL DEF Spec

(* The array for the entries of a directory is as long as VFS_STAT said,   *)
(* and so are the entries.                                                 *)
LEMMA ListedFacts ==
    ASSUME Inv, NEW p \in Pid, sh[p].quiet, NEW path \in Listed(p)
    PROVE  /\ path \in Text /\ sh[p].entry = Stat(path) /\ Stat(path) \in EntryType
           /\ Stat(path).type = "dir" => Fits(p, DirStat(path))
  <1>1. VfsType /\ sh[p] \in ShellRecord /\ Sound(sh[p], tree) /\ Informed(sh[p])
        /\ sh[p].path \in Text
    BY ShellHas
  <1>2. path = LookedAt(sh[p]) /\ Looking(sh[p])
    BY DEF Listed, LookedAt, Looking, Todo
  <1>3. path \in Text
    <2>1. CASE sh[p].pc = "ls"
      BY <1>1, <2>1 DEF Listed
    <2>2. CASE sh[p].pc = "find list"
      BY <1>1, <2>2, LastRow DEF Listed, Sound
    <2>3. CASE sh[p].pc = "del -r"
      BY <2>3, TodoFacts DEF Listed
    <2> QED BY <1>2, <2>1, <2>2, <2>3 DEF Looking
  <1>4. sh[p].entry = Stat(path)
    BY <1>1, <1>2 DEF Informed
  <1>5. /\ Stat(path) \in EntryType
        /\ Stat(path).type = "dir" => Len(DirStat(path)) = Stat(path).size
    BY <1>1, <1>3, ListingLength
  <1> QED BY <1>3, <1>4, <1>5 DEF Fits

-----------------------------------------------------------------------------
(* What a step of another shell does to one.                               *)

Resting == {"off", "start", "prompt"}
NewShell(s) == \E rows : s = [Idle EXCEPT !.pc = "start", !.leftover = rows]

(* A step of q alone, one that makes another tree, and one that makes      *)
(* other processes.                                                        *)
Alone(q) == UNCHANGED vfsVars /\ \E s : sh' = [sh EXCEPT ![q] = s]
Alters(q) == \E t, s : Change(q, t, s)
Repopulates(q) ==
    \E r, s : /\ Population(r, s)
              /\ \A x \in Pid : x # q => s[x] = sh[x] \/ NewShell(s[x])

LEMMA NewShellStarts ==
    ASSUME NEW s, NewShell(s)
    PROVE  s.pc = "start" /\ s.line = NoLine
  BY DEF NewShell, Idle

LEMMA GoAlone ==
    ASSUME NEW q \in Pid, NEW s, Go(q, s)
    PROVE  Alone(q)
  BY DEF Go, Alone

LEMMA AbortAlone ==
    ASSUME NEW q \in Pid, Abort(q) \/ GoWild(q)
    PROVE  Alone(q)
  BY GoAlone DEF Abort, GoWild, Alone

LEMMA ChangeAlters ==
    ASSUME NEW q \in Pid, NEW t, NEW s, Change(q, t, s)
    PROVE  Alters(q)
  BY DEF Alters

LEMMA StepKinds ==
    ASSUME Inv, NEW q \in Pid, Work(q) \/ \E line \in Lines : Run(q, line)
    PROVE  Alone(q) \/ Alters(q) \/ Repopulates(q)
  <1>1. CASE OpenStdin(q)
    <2>1. sh' = [sh EXCEPT ![q] = [sh[q] EXCEPT !.pc = "prompt"]] /\ UNCHANGED vfsVars
      BY <1>1 DEF OpenStdin
    <2> QED BY <2>1 DEF Alone
  <1>2. CASE \E line \in Lines : Run(q, line)
    <2>1. PICK line \in Lines : Run(q, line)
      BY <1>2
    <2>2. UNCHANGED vfsVars /\ \E s : sh' = [sh EXCEPT ![q] = s]
      BY <2>1 DEF Run
    <2> QED BY <2>2 DEF Alone
  <1>3. CASE StatArgument(q)
    BY <1>3, GoAlone DEF StatArgument
  <1>4. CASE Ls(q)
    BY <1>4, AbortAlone DEF Ls
  <1>5. ASSUME NEW path, NEW type, NEW s, Make(q, path, type, s)
        PROVE  Alone(q) \/ Alters(q)
    BY <1>5, AbortAlone, ChangeAlters DEF Make
  <1>6. CASE Mkdir(q) \/ Touch(q) \/ MakeCopy(q)
    BY <1>5, <1>6 DEF Mkdir, Touch, MakeCopy
  <1>7. ASSUME NEW path, NEW s, Delete(q, path, s)
         PROVE  Alone(q) \/ Alters(q)
    BY <1>7, GoAlone, AbortAlone, ChangeAlters DEF Delete
  <1>8. CASE Del(q) \/ MoveDelete(q)
    BY <1>8, <1>7 DEF Del, MoveDelete
  <1>9. CASE DeleteStat(q)
    <2>1. \E s : Go(q, s)
      BY <1>9 DEF DeleteStat
    <2> QED BY <2>1, GoAlone
  <1>10. CASE DeleteList(q)
    <2>1. GoWild(q) \/ \E s : Go(q, s)
      BY <1>10 DEF DeleteList
    <2> QED BY <2>1, GoAlone, AbortAlone
  <1>11. CASE DeleteDelete(q)
    <2>1. \E path, s : Delete(q, path, s)
      BY <1>11 DEF DeleteDelete
    <2> QED BY <1>7, <2>1
  <1>12. CASE OpenSource(q) \/ OpenCopy(q) \/ Cat(q)
    <2>1. Abort(q) \/ \E s : Go(q, s)
      BY <1>12 DEF OpenSource, OpenCopy, Cat
    <2> QED BY <2>1, GoAlone, AbortAlone
  <1>13. CASE ReadBlock(q)
    <2>1. CASE Gone(sh[q].from_fd)
      BY <1>13, <2>1, AbortAlone DEF ReadBlock
    <2>2. CASE ~Gone(sh[q].from_fd) /\ ReadFrom(sh[q].from_fd, BLOCK) # <<>>
      <3>1. \E s : Go(q, s)
        BY <1>13, <2>2 DEF ReadBlock
      <3> QED BY <3>1, GoAlone
    <2>3. CASE ~Gone(sh[q].from_fd) /\ ReadFrom(sh[q].from_fd, BLOCK) = <<>>
      <3>1. \E s : Go(q, s)
        BY <1>13, <2>3 DEF ReadBlock
      <3> QED BY <3>1, GoAlone
    <2> QED BY <2>1, <2>2, <2>3
  <1>14. CASE WriteBlock(q)
    <2>1. GoWild(q) \/ \E t, s : Change(q, t, s)
      BY <1>14 DEF WriteBlock
    <2> QED BY <2>1, AbortAlone, ChangeAlters
  <1>15. CASE Tac(q)
    <2>1. GoWild(q) \/ \E t, s : Change(q, t, s)
      BY <1>15 DEF Tac
    <2> QED BY <2>1, AbortAlone, ChangeAlters
  <1>16. CASE FindBegin(q) \/ FindStat(q) \/ FindList(q) \/ FindEnd(q)
    <2>1. GoWild(q) \/ \E s : Go(q, s)
      BY <1>16 DEF FindBegin, FindStat, FindList, FindEnd, FindAbort
    <2> QED BY <2>1, GoAlone, AbortAlone
  <1>17. CASE Exec(q)
    <2> DEFINE new == CHOOSE n \in Pid : n \notin running
               Fresh(rows) == [Idle EXCEPT !.pc = "start", !.leftover = rows]
               After(rows) == [sh EXCEPT ![q] = Prompt(q), ![new] = Fresh(rows)]
    <2>1. Abort(q) \/ \E rows : Population(running \cup {new}, After(rows))
      BY <1>17 DEF Exec
    <2>2. \A rows : \A x \in Pid : x # q => After(rows)[x] = sh[x] \/ After(rows)[x] = Fresh(rows)
      BY DEF Inv, TypeOK
    <2>3. \A rows : NewShell(Fresh(rows))
      BY DEF NewShell
    <2> HIDE DEF After, Fresh, new
    <2>4. \A rows : \A x \in Pid : x # q => After(rows)[x] = sh[x] \/ NewShell(After(rows)[x])
      BY <2>2, <2>3
    <2> QED BY <2>1, <2>4, AbortAlone DEF Repopulates
  <1>18. CASE Exit(q)
    BY <1>18, AbortAlone DEF Exit, Repopulates
  <1>19. CASE Kill(q)
    <2> DEFINE s == [sh EXCEPT ![q] = Prompt(q)]
    <2>1. Abort(q) \/ Population({q}, s)
      BY <1>19 DEF Kill
    <2>2. \A x \in Pid : x # q => s[x] = sh[x]
      BY DEF Inv, TypeOK
    <2> HIDE DEF s
    <2> QED BY <2>1, <2>2, AbortAlone DEF Repopulates
  <1> QED BY <1>1, <1>2, <1>3, <1>4, <1>6, <1>8, <1>9, <1>10, <1>11, <1>12, <1>13, <1>14, <1>15,
            <1>16, <1>17, <1>18, <1>19 DEF Work

(* A step of another shell leaves a shell where it is, and if it made any  *)
(* difference to a command the shell has seen it.                          *)
LEMMA Elsewhere ==
    ASSUME Inv, NEW p \in Pid, NEW q \in Pid, p # q, Work(q) \/ \E line \in Lines : Run(q, line)
    PROVE  \/ sh'[p] = sh[p] /\ (UNCHANGED vfsVars \/ sh[p].pc \in Resting)
           \/ sh'[p].quiet = FALSE /\ sh'[p].pc = sh[p].pc /\ sh[p].pc \notin Resting
           \/ sh'[p] = Off
           \/ NewShell(sh'[p])
  <1>1. Alone(q) \/ Alters(q) \/ Repopulates(q)
    BY StepKinds
  <1>2. sh[p] \in ShellRecord
    BY ShellHas
  <1>3. CASE Alone(q)
    BY <1>3 DEF Alone, Inv, TypeOK
  <1>4. CASE Alters(q)
    <2>1. PICK t, s : Change(q, t, s)
      BY <1>4 DEF Alters
    <2>2. sh'[p] = IF sh[p].pc \in {"off", "start", "prompt"} THEN sh[p] ELSE Disturbed(sh[p], t)
      BY <2>1 DEF Change
    <2>3. CASE sh[p].pc \in Resting
      BY <2>2, <2>3 DEF Resting
    <2>4. CASE sh[p].pc \notin Resting
      <3>1. sh'[p] = Disturbed(sh[p], t)
        BY <2>2, <2>4 DEF Resting
      <3>2. Disturbed(sh[p], t).quiet = FALSE /\ Disturbed(sh[p], t).pc = sh[p].pc
        BY <1>2 DEF Disturbed, ShellRecord
      <3> QED BY <2>4, <3>1, <3>2
    <2> QED BY <2>3, <2>4
  <1>5. CASE Repopulates(q)
    <2>1. PICK r, s : /\ Population(r, s)
                      /\ \A x \in Pid : x # q => s[x] = sh[x] \/ NewShell(s[x])
      BY <1>5 DEF Repopulates
    <2>2. s[p] = sh[p] \/ NewShell(s[p])
      BY <2>1
    <2>3. \/ sh'[p] = Off
          \/ sh'[p] = s[p] /\ s[p].pc \in {"off", "start", "prompt"}
          \/ /\ s[p].pc \notin {"off", "start", "prompt"}
             /\ sh'[p] = [s[p] EXCEPT !.quiet = FALSE, !.before = <<>>]
      BY <2>1 DEF Population
    <2>4. CASE NewShell(s[p])
      <3>1. s[p].pc = "start"
        BY <2>4, NewShellStarts
      <3> QED BY <2>3, <2>4, <3>1
    <2>5. CASE s[p] = sh[p]
      <3>1. [sh[p] EXCEPT !.quiet = FALSE, !.before = <<>>].quiet = FALSE
            /\ [sh[p] EXCEPT !.quiet = FALSE, !.before = <<>>].pc = sh[p].pc
        BY <1>2 DEF ShellRecord
      <3> QED BY <2>3, <2>5, <3>1 DEF Resting
    <2> QED BY <2>2, <2>4, <2>5
  <1> QED BY <1>1, <1>3, <1>4, <1>5

LEMMA WorkIsBusy ==
    ASSUME NEW p \in Pid, Work(p)
    PROVE  sh[p].pc # "prompt"
  BY DEF Work, At, OpenStdin, StatArgument, Ls, Mkdir, Touch, Del, DeleteStat, DeleteList, DeleteDelete,
         OpenSource, MakeCopy, OpenCopy, ReadBlock, WriteBlock, MoveDelete, Tac, Cat,
         FindBegin, FindStat, FindList, FindEnd, Exec, Exit, Kill

(* Whatever the user types in whatever directory, a command works on the   *)
(* canonical form of what its argument means.                              *)
THEOREM PathsAreTheirMeaning == Spec => PathsAreCanonical
  <1> DEFINE P(p) == sh[p].pc = "prompt" /\ sh'[p].line # NoLine /\ sh'[p].line.args # <<>> =>
                        sh'[p].path = TextOf(Meaning(CombinePath(sh[p].cwd, sh'[p].line.args[1])))
  <1>1. Inv /\ [Next]_vars => [\A p \in Pid : P(p)]_vars
    <2> SUFFICES ASSUME Inv, Next, NEW p \in Pid, sh[p].pc = "prompt", sh'[p].line # NoLine,
                        sh'[p].line.args # <<>>
                 PROVE  sh'[p].path = TextOf(Meaning(CombinePath(sh[p].cwd, sh'[p].line.args[1])))
      OBVIOUS
    <2>1. PICK q \in Pid : Work(q) \/ \E line \in Lines : Run(q, line)
      BY DEF Next
    <2>2. sh[p].line = NoLine /\ sh[p].cwd \in Canonical /\ sh \in [Pid -> ShellRecord]
      BY ShellHas DEF Sound, ShellRecord, Inv, TypeOK
    <2>3. Off.line = NoLine /\ (NewShell(sh'[p]) => sh'[p].line = NoLine)
      BY NewShellStarts DEF Off, Idle
    <2>4. p = q
      BY <2>1, <2>2, <2>3, Elsewhere DEF Resting
    <2>5. PICK line \in Lines : Run(p, line)
      BY <2>1, <2>4, WorkIsBusy
    <2>6. line \in [cmd : Commands, args : Seq(Text)]
      <3>1. Lines \subseteq [cmd : Commands, args : Seq(Text)]
        BY ShellAssumption
      <3> QED BY <3>1
    <2>7. /\ sh'[p].line = line
          /\ sh'[p].path = FullPath(p, IF line.cmd = "cd" /\ line.args = <<>> THEN Slash ELSE Arg(line, 1))
      BY <2>2, <2>5 DEF Run, Idle
    <2>8. line.args # <<>> /\ line.args[1] \in Text /\ Arg(line, 1) = line.args[1]
      <3>1. line.args # <<>> /\ line.args \in Seq(Text)
        BY <2>6, <2>7
      <3>2. 1 \in DOMAIN line.args
        BY <3>1
      <3> QED BY <3>1, <3>2 DEF Arg
    <2>9. sh'[p].path = ResolvePath(CombinePath(sh[p].cwd, line.args[1]))
      BY <2>7, <2>8 DEF FullPath
    <2> QED BY <2>2, <2>7, <2>8, <2>9, CombinedFacts
  <1> QED BY <1>1, ShellInvariant, PTL DEF Spec, PathsAreCanonical

-----------------------------------------------------------------------------
(* What mv has copied.                                                     *)

(* A text agrees with c as far as m; so does the cluster in a buffer.      *)
Agrees(x, c, m) == \A i \in 1..m : i <= Len(x) /\ x[i] = c[i]

Buffered(d, c, m) ==
    \/ d.pos = 0
    \/ /\ Len(d.buffer) = CLUSTER_SIZE
       /\ \A k \in 1..CLUSTER_SIZE : Base(d.pos) + k <= m => d.buffer[k] = c[Base(d.pos) + k]

(* The source is what it was when the command began.                       *)
ReadsSource(s, t) ==
    LET src == Words(s.path)
        d == s.from_fd
    IN  /\ src \in DOMAIN t /\ src \in DOMAIN s.before
        /\ t[src] = s.before[src] /\ t[src].type = "file"
        /\ d.file = src /\ d.end = Len(t[src].content) /\ d.pos <= d.end
        /\ Buffered(d, t[src].content, d.end)

(* The copy ends where it is written next, and has what was read before.   *)
WritesCopy(s, t) ==
    LET c == t[Words(s.path)].content
        dst == Words(s.to)
        d == s.to_fd
        m == IF s.pc = "write" THEN d.pos ELSE s.from_fd.pos
    IN  /\ dst # Words(s.path) /\ dst \in DOMAIN t
        /\ d.file = dst /\ d.end = d.pos /\ Len(t[dst].content) = d.pos
        /\ m <= d.pos /\ Agrees(t[dst].content, c, m) /\ Buffered(d, c, m)

(* The block that was read: the last one may be longer than its text.      *)
HasBlock(s, t) ==
    LET c == t[Words(s.path)].content
    IN  /\ Len(s.buffer) = BLOCK
        /\ s.to_fd.pos < s.from_fd.pos /\ s.from_fd.pos <= s.to_fd.pos + BLOCK
        /\ s.from_fd.pos = s.to_fd.pos + BLOCK \/ s.from_fd.pos = s.from_fd.end
        /\ \A k \in 1..BLOCK : s.to_fd.pos + k <= s.from_fd.pos => s.buffer[k] = c[s.to_fd.pos + k]

Moving(s, t) ==
    /\ s.line.cmd = "mv"
    /\ s.pc \in {"stat", "open", "mkfile"} => s.before = t
    /\ s.pc \in {"mkfile", "open copy", "read", "write", "mv"} => ReadsSource(s, t)
    /\ s.pc \in {"mkfile", "open copy"} => s.from_fd.pos = 0
    /\ s.pc = "open copy" =>
          (Words(s.to) \in DOMAIN t =>
              Words(s.to) # Words(s.path) /\ t[Words(s.to)].content = <<>>)
    /\ s.pc \in {"read", "write", "mv"} => WritesCopy(s, t)
    /\ s.pc = "read" => s.from_fd.pos = s.to_fd.pos \/ s.from_fd.pos = s.from_fd.end
    /\ s.pc = "write" => HasBlock(s, t)
    /\ s.pc = "mv" => s.from_fd.pos = s.from_fd.end

IsMove(s) == s.quiet /\ ~s.failed /\ (s.line.cmd = "mv" \/ s.pc = "mv")
MoveInv == \A p \in Pid : IsMove(sh[p]) => Moving(sh[p], tree)

LEMMA SeenAgrees ==
    ASSUME IsTree(tree), NEW d \in Descriptor, d.file \in DOMAIN tree, NEW c, NEW m \in Nat,
           Agrees(tree[d.file].content, c, m), Buffered(d, c, m)
    PROVE  Seen(d) \in Text /\ Agrees(Seen(d), c, m)
  <1> DEFINE x == tree[d.file].content
             b == Base(d.pos)
             s == Overwrite(x, b, d.buffer)
  <1>1. x \in Text /\ d.pos \in Nat /\ d.buffer \in Text /\ Seen(d) \in Text
    BY SeenType DEF Descriptor
  <1>2. CASE d.pos = 0
    BY <1>1, <1>2 DEF Seen
  <1>3. CASE d.pos # 0
    <2>1. Seen(d) = s
      BY <1>3 DEF Seen
    <2>2. /\ Len(d.buffer) = CLUSTER_SIZE
          /\ \A k \in 1..CLUSTER_SIZE : b + k <= m => d.buffer[k] = c[b + k]
      BY <1>3 DEF Buffered
    <2>3. b \in Nat /\ CLUSTER_SIZE \in Nat
      BY <1>1, BaseFacts
    <2>4. \A i \in 1..m : i <= Len(x) /\ x[i] = c[i]
      BY DEF Agrees
    <2> HIDE DEF x, b
    <2>5. /\ Len(s) = IF Len(x) <= b + CLUSTER_SIZE THEN b + CLUSTER_SIZE ELSE Len(x)
          /\ \A i \in 1..b : i <= Len(x) => s[i] = x[i]
          /\ \A i \in 1..CLUSTER_SIZE : s[b + i] = d.buffer[i]
          /\ \A i \in 1..Len(x) : i > b + CLUSTER_SIZE => s[i] = x[i]
      <3>1. /\ Len(s) = IF Len(x) <= b + Len(d.buffer) THEN b + Len(d.buffer) ELSE Len(x)
            /\ \A i \in 1..b : i <= Len(x) => s[i] = x[i]
            /\ \A i \in 1..Len(d.buffer) : s[b + i] = d.buffer[i]
            /\ \A i \in 1..Len(x) : i > b + Len(d.buffer) => s[i] = x[i]
        BY <1>1, <2>3, OverwriteFacts
      <3> HIDE DEF s
      <3> QED BY <2>2, <3>1
    <2> HIDE DEF s
    <2>6. Len(x) \in Nat
      BY <1>1 DEF Text
    <2>7. ASSUME NEW i \in 1..m
          PROVE  i <= Len(s) /\ s[i] = c[i]
      <3>1. i \in Nat /\ i >= 1 /\ i <= m /\ i <= Len(x) /\ x[i] = c[i]
        BY <2>4
      <3>2. i <= Len(s)
        BY <2>3, <2>5, <2>6, <3>1
      <3>3. CASE i <= b
        <4>1. i \in 1..b
          BY <2>3, <3>1, <3>3
        <4>2. s[i] = x[i]
          BY <2>5, <3>1, <4>1
        <4> QED BY <3>1, <3>2, <4>2
      <3>4. CASE i > b /\ i <= b + CLUSTER_SIZE
        <4> DEFINE k == i - b
        <4>1. k \in 1..CLUSTER_SIZE /\ b + k = i
          BY <2>3, <3>1, <3>4
        <4> HIDE DEF k
        <4>2. s[b + k] = d.buffer[k] /\ d.buffer[k] = c[b + k]
          BY <2>2, <2>5, <3>1, <4>1
        <4> QED BY <3>2, <4>1, <4>2
      <3>5. CASE i > b + CLUSTER_SIZE
        BY <2>5, <2>6, <3>1, <3>2, <3>5
      <3> QED BY <2>3, <3>1, <3>3, <3>4, <3>5
    <2> QED BY <1>1, <2>1, <2>7 DEF Agrees
  <1> QED BY <1>2, <1>3

LEMMA BufferAgrees ==
    ASSUME NEW x \in Text, NEW pos \in Nat, NEW c, NEW m \in Nat, Agrees(x, c, m)
    PROVE  /\ Buffer(x, pos) \in Text /\ Len(Buffer(x, pos)) = CLUSTER_SIZE
           /\ \A k \in 1..CLUSTER_SIZE : Base(pos) + k <= m => Buffer(x, pos)[k] = c[Base(pos) + k]
  <1>1. /\ Buffer(x, pos) \in Text /\ Len(Buffer(x, pos)) = CLUSTER_SIZE
        /\ \A i \in 1..CLUSTER_SIZE : Base(pos) + i <= Len(x) => Buffer(x, pos)[i] = x[Base(pos) + i]
    BY BufferFacts
  <1>2. Base(pos) \in Nat /\ CLUSTER_SIZE \in Nat
    BY BaseFacts
  <1>3. ASSUME NEW k \in 1..CLUSTER_SIZE, Base(pos) + k <= m
        PROVE  Buffer(x, pos)[k] = c[Base(pos) + k]
    <2>1. Base(pos) + k \in 1..m
      BY <1>2, <1>3
    <2>2. Base(pos) + k <= Len(x) /\ x[Base(pos) + k] = c[Base(pos) + k]
      BY <2>1 DEF Agrees
    <2> QED BY <1>1, <2>2
  <1> QED BY <1>1, <1>3

LEMMA ResizeAgrees ==
    ASSUME NEW x \in Text, NEW size \in Nat, NEW c, NEW m \in Nat, m <= size, Agrees(x, c, m)
    PROVE  Agrees(Resize(x, size), c, m)
  <1>1. /\ Len(Resize(x, size)) = size
        /\ \A i \in 1..size : i <= Len(x) => Resize(x, size)[i] = x[i]
    BY ResizeFacts
  <1>2. ASSUME NEW i \in 1..m
        PROVE  i <= Len(Resize(x, size)) /\ Resize(x, size)[i] = c[i]
    <2>1. i \in 1..size /\ i <= Len(x) /\ x[i] = c[i]
      BY <1>2 DEF Agrees
    <2> QED BY <1>1, <2>1
  <1> QED BY <1>2 DEF Agrees

(* What is written behind what agrees. *)
LEMMA OverwriteAgrees ==
    ASSUME NEW x \in Text, NEW pos \in Nat, NEW part \in Text, NEW c, NEW k \in Nat, NEW m \in Nat,
           k <= pos, m <= pos + Len(part), Agrees(x, c, k), k = pos \/ m <= k,
           \A i \in 1..Len(part) : pos + i <= m => part[i] = c[pos + i]
    PROVE  Overwrite(x, pos, part) \in Text /\ Agrees(Overwrite(x, pos, part), c, m)
  <1> DEFINE s == Overwrite(x, pos, part)
  <1>1. /\ s \in Text
        /\ Len(s) = IF Len(x) <= pos + Len(part) THEN pos + Len(part) ELSE Len(x)
        /\ \A i \in 1..pos : i <= Len(x) => s[i] = x[i]
        /\ \A i \in 1..Len(part) : s[pos + i] = part[i]
    BY OverwriteFacts
  <1>2. Len(part) \in Nat /\ Len(x) \in Nat
    BY DEF Text
  <1> HIDE DEF s
  <1>3. ASSUME NEW i \in 1..m
        PROVE  i <= Len(s) /\ s[i] = c[i]
    <2>1. i \in Nat /\ i >= 1 /\ i <= m /\ i <= Len(s)
      BY <1>1, <1>2
    <2>2. CASE i <= k
      <3>1. i \in 1..k
        BY <2>1, <2>2
      <3>2. i <= Len(x) /\ x[i] = c[i]
        BY <3>1 DEF Agrees
      <3>3. i \in 1..pos
        BY <3>1
      <3> QED BY <1>1, <2>1, <3>2, <3>3
    <2>3. CASE i > k
      <3> DEFINE j == i - pos
      <3>1. k = pos
        BY <2>1, <2>3
      <3>2. j \in 1..Len(part) /\ pos + j = i
        BY <1>2, <2>1, <2>3, <3>1
      <3> HIDE DEF j
      <3>3. s[pos + j] = part[j] /\ part[j] = c[pos + j]
        BY <1>1, <2>1, <3>2
      <3> QED BY <2>1, <3>2, <3>3
    <2> QED BY <2>1, <2>2, <2>3
  <1> QED BY <1>1, <1>3 DEF Agrees, s

(* VFS_READ gives what is behind the position. *)
LEMMA ReadAgrees ==
    ASSUME IsTree(tree), NEW d \in Descriptor, d.file \in DOMAIN tree, NEW c, NEW size \in Nat,
           d.pos <= d.end, Agrees(tree[d.file].content, c, d.end), Buffered(d, c, d.end)
    PROVE  /\ ReadFrom(d, size) \in Text
           /\ Len(ReadFrom(d, size)) = (IF d.pos + size <= d.end THEN size ELSE d.end - d.pos)
           /\ \A k \in 1..Len(ReadFrom(d, size)) : ReadFrom(d, size)[k] = c[d.pos + k]
  <1> DEFINE r == Resize(Seen(d), d.end)
             m == Min({d.pos + size, d.end})
             t == SubSeq(r, d.pos + 1, m)
  <1>1. d.pos \in Nat /\ d.end \in Nat
    BY DEF Descriptor
  <1>2. Seen(d) \in Text /\ Agrees(Seen(d), c, d.end)
    BY <1>1, SeenAgrees
  <1>3. r \in Text /\ Len(r) = d.end /\ Agrees(r, c, d.end)
    BY <1>1, <1>2, ResizeFacts, ResizeAgrees
  <1>4. m = IF d.pos + size <= d.end THEN d.pos + size ELSE d.end
    <2>1. d.pos + size \in Int /\ d.end \in Int
      BY <1>1
    <2> QED BY <2>1, TwoNumbers
  <1>5. ReadFrom(d, size) = t
    BY DEF ReadFrom
  <1> HIDE DEF m, r
  <1>6. m \in Nat /\ m <= Len(r) /\ d.pos + 1 \in Nat \ {0}
    BY <1>1, <1>3, <1>4
  <1>7. /\ t \in Text /\ Len(t) = (IF d.pos + 1 <= m THEN (m - (d.pos + 1)) + 1 ELSE 0)
        /\ \A i \in 1..Len(t) : t[i] = r[((d.pos + 1) + i) - 1]
    BY <1>3, <1>6, PartOfText
  <1> HIDE DEF t
  <1>8. Len(t) = (IF d.pos + size <= d.end THEN size ELSE d.end - d.pos)
    BY <1>1, <1>4, <1>7
  <1>9. ASSUME NEW k \in 1..Len(t)
        PROVE  t[k] = c[d.pos + k]
    <2>1. ((d.pos + 1) + k) - 1 = d.pos + k /\ d.pos + k \in 1..d.end
      BY <1>1, <1>8
    <2>2. t[k] = r[d.pos + k]
      BY <1>7, <2>1
    <2>3. r[d.pos + k] = c[d.pos + k]
      BY <1>3, <2>1 DEF Agrees
    <2> QED BY <2>2, <2>3
  <1> QED BY <1>5, <1>7, <1>8, <1>9

-----------------------------------------------------------------------------
(* Where a step leads.                                                     *)

LEMMA GoGives ==
    ASSUME Inv, NEW p \in Pid, NEW s, Go(p, s)
    PROVE  sh'[p] = s /\ tree' = tree
  BY DEF Go, vfsVars, Inv, TypeOK

LEMMA ChangeGives ==
    ASSUME Inv, NEW p \in Pid, NEW t, NEW s \in ShellRecord, Change(p, t, s)
    PROVE  /\ tree' = t
           /\ sh'[p].pc = s.pc /\ sh'[p].line = s.line /\ sh'[p].path = s.path /\ sh'[p].to = s.to
           /\ sh'[p].buffer = s.buffer /\ sh'[p].quiet = s.quiet /\ sh'[p].failed = s.failed
           /\ sh'[p].before = s.before /\ sh'[p].work = s.work /\ sh'[p].leftover = s.leftover
           /\ sh'[p].from_fd = Refresh(s.from_fd, t) /\ sh'[p].to_fd = Refresh(s.to_fd, t)
  <1>1. sh'[p] = [s EXCEPT !.from_fd = Refresh(s.from_fd, t), !.to_fd = Refresh(s.to_fd, t)]
    BY DEF Change, Inv, TypeOK
  <1> QED BY <1>1 DEF Change, ShellRecord

LEMMA AbortGives ==
    ASSUME Inv, NEW p \in Pid, Abort(p) \/ GoWild(p)
    PROVE  sh'[p] = Prompt(p) /\ tree' = tree
  BY GoGives DEF Abort, GoWild, vfsVars, Inv, TypeOK

LEMMA PromptRests ==
    ASSUME NEW p
    PROVE  Prompt(p).pc = "prompt" /\ Prompt(p).pc \in Resting
  BY DEF Prompt, Idle, Resting

(* Work is left, or the command has ended. *)
LEMMA WithWorkStage ==
    ASSUME Inv, NEW p \in Pid, sh[p].pc = "del -r", NEW work
    PROVE  WithWork(p, work).pc \in {"prompt", "del -r"}
  <1>1. sh[p] \in ShellRecord
    BY ShellHas
  <1> QED BY <1>1, PromptRests DEF WithWork, ShellRecord

LEMMA DeleteStages ==
    ASSUME Inv, NEW p \in Pid, DeleteStat(p) \/ DeleteList(p) \/ DeleteDelete(p)
    PROVE  sh'[p].pc \in {"prompt", "del -r"} /\ sh[p].pc = "del -r"
  <1>1. sh[p] \in ShellRecord /\ sh[p].pc = "del -r"
    BY ShellHas DEF DeleteStat, DeleteList, DeleteDelete, At
  <1>2. ASSUME NEW work, Go(p, WithWork(p, work))
        PROVE  sh'[p].pc \in {"prompt", "del -r"}
    BY <1>1, <1>2, GoGives, WithWorkStage
  <1>3. CASE DeleteStat(p)
    <2> DEFINE e == Stat(Todo(p).path)
               work == (CASE e.type = "none" -> <<>>
                          [] e.type = "dir" /\ e.size # 0 -> <<Item("list", Todo(p).path)>>
                          [] OTHER -> <<Item("delete", Todo(p).path)>>) \o Tail(sh[p].work)
               w == WithWork(p, work)
    <2>1. Go(p, IF w.pc = "prompt" THEN w ELSE [w EXCEPT !.entry = e])
      BY <1>3 DEF DeleteStat
    <2> HIDE DEF e, work
    <2>2. w.pc \in {"prompt", "del -r"}
      BY <1>1, WithWorkStage
    <2>3. CASE w.pc = "prompt"
      BY <2>1, <2>3, GoGives, <1>1
    <2>4. CASE w.pc = "del -r"
      <3> DEFINE s == [w EXCEPT !.entry = e]
      <3>1. w = [sh[p] EXCEPT !.work = work]
        BY <2>4, PromptRests DEF WithWork
      <3>2. s.pc = "del -r"
        BY <1>1, <3>1 DEF ShellRecord
      <3>3. Go(p, s)
        BY <2>1, <2>4
      <3> HIDE DEF s
      <3> QED BY <1>1, <3>2, <3>3, GoGives
    <2> QED BY <2>2, <2>3, <2>4
  <1>4. CASE DeleteList(p)
    <2> DEFINE v == Tail(sh[p].work)
               u == Expand(Todo(p).path, DirStat(Todo(p).path)) \o v
    <2>1. GoWild(p) \/ Go(p, WithWork(p, v)) \/ Go(p, WithWork(p, u))
      BY <1>4 DEF DeleteList
    <2> HIDE DEF u, v
    <2> QED BY <1>1, <1>2, <2>1, AbortGives, PromptRests
  <1>5. CASE DeleteDelete(p)
    <2> DEFINE rest == Tail(sh[p].work)
               s == WithWork(p, rest)
               t == Without(Words(Todo(p).path))
    <2>1. Change(p, t, s) \/ GoWild(p) \/ Go(p, s)
      BY <1>5 DEF DeleteDelete, Delete
    <2>2. rest \in Seq(WorkItem) /\ \A i \in 1..Len(rest) : rest[i].op # "list"
      BY <1>1, TodoFacts
    <2> HIDE DEF rest, t
    <2>3. rest # <<>> => HasWork(rest)
      BY <2>2 DEF HasWork
    <2>4. s \in ShellRecord /\ s.pc \in {"prompt", "del -r"}
      BY <1>1, <2>2, <2>3, WithWorkFacts, WithWorkStage
    <2> HIDE DEF s
    <2>5. CASE Change(p, t, s)
      <3>1. sh'[p].pc = s.pc
        BY <2>4, <2>5, ChangeGives
      <3> QED BY <1>1, <2>4, <3>1
    <2>6. CASE Go(p, s)
      BY <1>1, <2>4, <2>6, GoGives
    <2>7. CASE GoWild(p)
      <3>1. sh'[p] = Prompt(p)
        BY <2>7, AbortGives
      <3>2. sh'[p].pc = "prompt"
        BY <3>1, PromptRests
      <3> QED BY <1>1, <3>2
    <2> QED BY <2>1, <2>5, <2>6, <2>7
  <1> QED BY <1>1, <1>3, <1>4, <1>5 DEF DeleteStat

LEMMA FindStages ==
    ASSUME Inv, NEW p \in Pid, FindBegin(p) \/ FindStat(p) \/ FindList(p) \/ FindEnd(p)
    PROVE  sh'[p].pc \in {"prompt", "find stat", "find list", "found"}
  <1>1. sh[p] \in ShellRecord
    BY ShellHas
  <1>2. ASSUME FindAbort(p) \/ FindEnd(p)
        PROVE  sh'[p].pc = "prompt"
    <2>1. \E rows : Go(p, [Prompt(p) EXCEPT !.leftover = rows])
      BY <1>2 DEF FindAbort, FindEnd
    <2>2. \A rows : [Prompt(p) EXCEPT !.leftover = rows].pc = "prompt"
      BY DEF Prompt, Idle
    <2> QED BY <2>1, <2>2, GoGives
  <1>3. CASE FindBegin(p)
    <2>1. PICK rows : Go(p, [Step(p, "find stat") EXCEPT !.file_list = <<Slash>> \o rows, !.leftover = rows])
      BY <1>3 DEF FindBegin
    <2> DEFINE s == [Step(p, "find stat") EXCEPT !.file_list = <<Slash>> \o rows, !.leftover = rows]
    <2>2. s.pc = "find stat" /\ Go(p, s)
      BY <1>1, <2>1 DEF Step, ShellRecord
    <2> HIDE DEF s
    <2> QED BY <2>2, GoGives
  <1>4. CASE FindStat(p)
    <2> DEFINE e == Stat(Last(sh[p].file_list))
               s == [Step(p, "find list") EXCEPT !.entry = e]
    <2>1. FindAbort(p) \/ Go(p, s)
      BY <1>4 DEF FindStat
    <2> HIDE DEF e
    <2>2. s.pc = "find list"
      BY <1>1 DEF Step, ShellRecord
    <2> HIDE DEF s
    <2> QED BY <1>2, <2>1, <2>2, GoGives
  <1>5. CASE FindList(p)
    <2> DEFINE dir == Last(sh[p].file_list)
               entries == DirStat(dir)
               s == Listing(p, dir, entries)
    <2>1. FindAbort(p) \/ GoWild(p) \/ (AllNamed(p, entries) /\ Go(p, s))
      BY <1>5 DEF FindList
    <2>2. CASE AllNamed(p, entries) /\ Go(p, s)
      <3>1. sh[p].pc = "find list"
        BY <1>5 DEF FindList, At
      <3>2. s.pc \in {"found", "find stat"}
        BY <2>2, <3>1, ListingType
      <3> HIDE DEF s
      <3> QED BY <2>2, <3>2, GoGives
    <2> QED BY <1>2, <2>1, <2>2, AbortGives, PromptRests
  <1> QED BY <1>2, <1>3, <1>4, <1>5

(* EXEC, EXIT and KILL leave a shell at rest, or end its quiet.            *)
LEMMA PopulationStages ==
    ASSUME Inv, NEW p \in Pid, Exec(p) \/ Exit(p) \/ Kill(p)
    PROVE  sh'[p].pc \in Resting \/ sh'[p].quiet = FALSE
  <1>1. sh[p] \in ShellRecord /\ sh \in [Pid -> ShellRecord]
    BY ShellHas DEF TypeOK
  <1>2. ASSUME NEW r, NEW s, Population(r, s), s[p].pc \in Resting \/ s[p] \in ShellRecord
        PROVE  sh'[p].pc \in Resting \/ sh'[p].quiet = FALSE
    <2>1. sh'[p] = CASE p \notin r -> Off
                     [] p \in r /\ s[p].pc \in {"off", "start", "prompt"} -> s[p]
                     [] OTHER -> [s[p] EXCEPT !.quiet = FALSE, !.before = <<>>]
      BY <1>2 DEF Population
    <2>2. Off.pc \in Resting
      BY DEF Off, Idle, Resting
    <2>3. CASE p \notin r
      BY <2>1, <2>2, <2>3
    <2>4. CASE p \in r /\ s[p].pc \in Resting
      BY <2>1, <2>4 DEF Resting
    <2>5. CASE p \in r /\ s[p].pc \notin Resting
      <3>1. sh'[p] = [s[p] EXCEPT !.quiet = FALSE, !.before = <<>>]
        BY <2>1, <2>5 DEF Resting
      <3>2. s[p] \in ShellRecord
        BY <1>2, <2>5
      <3> QED BY <3>1, <3>2 DEF ShellRecord
    <2> QED BY <2>3, <2>4, <2>5
  <1>3. CASE Exit(p)
    <2>1. Abort(p) \/ \E r : Population(r, sh)
      BY <1>3 DEF Exit
    <2> QED BY <1>1, <1>2, <2>1, AbortGives, PromptRests
  <1>4. CASE Kill(p)
    <2> DEFINE s == [sh EXCEPT ![p] = Prompt(p)]
    <2>1. Abort(p) \/ Population({p}, s)
      BY <1>4 DEF Kill
    <2>2. s[p].pc \in Resting
      BY <1>1, PromptRests
    <2> HIDE DEF s
    <2> QED BY <1>2, <2>1, <2>2, AbortGives, PromptRests
  <1>5. CASE Exec(p)
    <2> DEFINE q == CHOOSE q \in Pid : q \notin running
    <2>1. CASE Abort(p)
      BY <2>1, AbortGives, PromptRests
    <2>2. ASSUME NEW rows,
                 Population(running \cup {q},
                            [sh EXCEPT ![p] = Prompt(p),
                                       ![q] = [Idle EXCEPT !.pc = "start", !.leftover = rows]])
          PROVE  sh'[p].pc \in Resting \/ sh'[p].quiet = FALSE
      <3> DEFINE f == [Idle EXCEPT !.pc = "start", !.leftover = rows]
                 s == [sh EXCEPT ![p] = Prompt(p), ![q] = f]
                 r == running \cup {q}
      <3>1. Population(r, s)
        BY <2>2
      <3>2. f.pc = "start"
        BY DEF Idle
      <3> HIDE DEF f, q, r
      <3>3. s[p] = Prompt(p) \/ s[p] = f
        BY <1>1
      <3>4. s[p].pc \in Resting
        BY <3>2, <3>3, PromptRests DEF Resting
      <3> HIDE DEF s
      <3> QED BY <1>2, <3>1, <3>4
    <2>3. Abort(p) \/ \E rows :
             Population(running \cup {q},
                        [sh EXCEPT ![p] = Prompt(p),
                                   ![q] = [Idle EXCEPT !.pc = "start", !.leftover = rows]])
      BY <1>5 DEF Exec
    <2> HIDE DEF q
    <2> QED BY <2>1, <2>2, <2>3
  <1> QED BY <1>3, <1>4, <1>5

LEMMA TacStages ==
    ASSUME Inv, NEW p \in Pid, Tac(p)
    PROVE  sh'[p].pc \in {"prompt", "tac"}
  <1> DEFINE d == sh[p].from_fd
             text == Content(p)
             part == Fitting(d, text)
             fd == Advance(d, part)
             r == [sh[p] EXCEPT !.from_fd = fd, !.buffer = text]
             s == IF part # text \/ text = <<"nul">> THEN Prompt(p) ELSE r
             t == Written(d, text, part)
  <1>1. sh[p] \in ShellRecord /\ sh[p].pc = "tac"
    BY ShellHas DEF Tac, At
  <1>2. GoWild(p) \/ Change(p, t, s)
    BY DEF Tac
  <1> HIDE DEF fd, text, part, t
  <1>3. r.pc = "tac"
    BY <1>1 DEF ShellRecord
  <1> HIDE DEF r
  <1>4. s.pc \in {"prompt", "tac"}
    BY <1>3, PromptRests
  <1> HIDE DEF s
  <1>5. CASE Change(p, t, s)
    <2>1. sh'[p].pc = s.pc
      <3>1. sh'[p] = [s EXCEPT !.from_fd = Refresh(@, t), !.to_fd = Refresh(@, t)]
        BY <1>5 DEF Change, Inv, TypeOK
      <3>2. \A a, b : [s EXCEPT !.from_fd = a, !.to_fd = b].pc = s.pc
        BY <1>4 DEF s, r, Prompt, Idle
      <3> QED BY <3>1, <3>2
    <2> QED BY <1>4, <2>1
  <1> QED BY <1>2, <1>5, AbortGives, PromptRests

(* Calls behind which a command is over. *)
LEMMA LastCallStages ==
    ASSUME Inv, NEW p \in Pid, Ls(p) \/ Mkdir(p) \/ Touch(p) \/ Del(p) \/ MoveDelete(p) \/ Cat(p)
    PROVE  sh'[p].pc = "prompt"
  <1>1. Prompt(p) \in ShellRecord /\ Prompt(p).pc = "prompt"
    BY PromptIsSound, PromptRests
  <1>2. ASSUME NEW t, Change(p, t, Prompt(p))
        PROVE  sh'[p].pc = "prompt"
    BY <1>1, <1>2, ChangeGives
  <1>3. Abort(p) \/ GoWild(p) \/ Go(p, Prompt(p)) \/ \E t : Change(p, t, Prompt(p))
    <2>1. CASE Ls(p) \/ Cat(p)
      BY <2>1 DEF Ls, Cat
    <2>2. CASE Mkdir(p) \/ Touch(p)
      BY <2>2 DEF Mkdir, Touch, Make
    <2>3. CASE Del(p) \/ MoveDelete(p)
      BY <2>3 DEF Del, MoveDelete, Delete
    <2> QED BY <2>1, <2>2, <2>3
  <1> QED BY <1>1, <1>2, <1>3, AbortGives, GoGives

(* Where a system call leads a shell that is still quiet behind it.        *)
LEMMA WorkStages ==
    ASSUME Inv, NEW p \in Pid, Work(p)
    PROVE  \/ sh'[p].pc \in Resting
           \/ sh'[p].quiet = FALSE
           \/ StatArgument(p) \/ OpenSource(p) \/ MakeCopy(p) \/ OpenCopy(p)
           \/ ReadBlock(p) \/ WriteBlock(p)
           \/ (DeleteStat(p) \/ DeleteList(p) \/ DeleteDelete(p)) /\ sh'[p].pc = "del -r"
           \/ Tac(p) /\ sh'[p].pc = "tac"
           \/ (FindBegin(p) \/ FindStat(p) \/ FindList(p)) /\ sh'[p].pc \in {"find stat", "find list", "found"}
  <1>1. "prompt" \in Resting
    BY DEF Resting
  <1>2. CASE OpenStdin(p)
    <2>1. sh' = [sh EXCEPT ![p] = [sh[p] EXCEPT !.pc = "prompt"]]
      BY <1>2 DEF OpenStdin
    <2>2. sh'[p].pc = "prompt"
      BY <2>1, ShellHas DEF Inv, TypeOK, ShellRecord
    <2> QED BY <1>1, <2>2
  <1>3. CASE Ls(p) \/ Mkdir(p) \/ Touch(p) \/ Del(p) \/ MoveDelete(p) \/ Cat(p)
    BY <1>1, <1>3, LastCallStages
  <1>4. CASE DeleteStat(p) \/ DeleteList(p) \/ DeleteDelete(p)
    <2>1. sh'[p].pc \in {"prompt", "del -r"}
      BY <1>4, DeleteStages
    <2> QED BY <1>1, <1>4, <2>1
  <1>5. CASE Tac(p)
    <2>1. sh'[p].pc \in {"prompt", "tac"}
      BY <1>5, TacStages
    <2> QED BY <1>1, <1>5, <2>1
  <1>6. CASE FindBegin(p) \/ FindStat(p) \/ FindList(p) \/ FindEnd(p)
    <2>1. sh'[p].pc \in {"prompt", "find stat", "find list", "found"}
      BY <1>6, FindStages
    <2>2. CASE FindEnd(p)
      <3>1. Go(p, [Prompt(p) EXCEPT !.leftover = <<>>])
        BY <2>2 DEF FindEnd
      <3>2. [Prompt(p) EXCEPT !.leftover = <<>>].pc = "prompt"
        BY DEF Prompt, Idle
      <3> QED BY <1>1, <3>1, <3>2, GoGives
    <2> QED BY <1>1, <1>6, <2>1, <2>2
  <1>7. CASE Exec(p) \/ Exit(p) \/ Kill(p)
    BY <1>7, PopulationStages
  <1> QED BY <1>2, <1>3, <1>4, <1>5, <1>6, <1>7 DEF Work

-----------------------------------------------------------------------------
(* The calls of mv.                                                        *)

Copied(s, t) == IsMove(s) => Moving(s, t)

MoveStages == {"stat", "open", "mkfile", "open copy", "read", "write", "mv"}

LEMMA NotMoving ==
    ASSUME NEW s, NEW t, s.pc \notin MoveStages
    PROVE  Copied(s, t)
  BY DEF Copied, IsMove, Moving, MoveStages

SameCommand(n, s) ==
    /\ n.path = s.path /\ n.to = s.to /\ n.line = s.line /\ n.before = s.before
    /\ n.quiet = s.quiet /\ n.failed = s.failed /\ n.leftover = s.leftover

LEMMA SameMove ==
    ASSUME NEW n, NEW s, SameCommand(n, s), IsMove(n), n.pc # "mv"
    PROVE  IsMove(s) /\ n.line.cmd = "mv"
  BY DEF SameCommand, IsMove

(* What the commands do after VFS_STAT.                                    *)
LEMMA StatGives ==
    ASSUME Inv, NEW p \in Pid, StatArgument(p)
    PROVE  /\ tree' = tree /\ sh[p].pc = "stat"
           /\ \/ /\ sh'[p].pc \in {"prompt", "ls", "del"}
                 /\ sh'[p].pc = "ls" => sh'[p].entry.type = "dir"
              \/ sh'[p].pc = "open" /\ SameCommand(sh'[p], sh[p])
              \/ /\ sh'[p].pc = "del -r" /\ sh[p].line.cmd = "del -r" /\ SameCommand(sh'[p], sh[p])
                 /\ sh'[p].work = <<Item("stat", sh[p].path)>>
  <1>1. PICK entry \in EntriesSeen(p) : Go(p, AfterStat(p, entry))
    BY DEF StatArgument
  <1>2. sh[p].pc = "stat" /\ sh[p] \in ShellRecord
    BY ShellHas DEF StatArgument, At
  <1> DEFINE r == AfterStat(p, entry)
             s == [sh[p] EXCEPT !.entry = entry]
             w == <<Item("stat", sh[p].path)>>
  <1>3. s.path = sh[p].path /\ s.line = sh[p].line /\ SameCommand(s, sh[p])
        /\ DOMAIN s = DOMAIN sh[p] /\ s.entry = entry
    BY <1>2 DEF ShellRecord, SameCommand
  <1>4. \/ r = Prompt(p)
        \/ r = [Prompt(p) EXCEPT !.cwd = sh[p].path]
        \/ \E pc \in {"del", "open", "ls"} : /\ r = [s EXCEPT !.pc = pc]
                                             /\ pc = "ls" => entry.type = "dir"
        \/ r = [s EXCEPT !.pc = "del -r", !.work = w] /\ sh[p].line.cmd = "del -r"
    BY <1>3 DEF AfterStat, Item
  <1>5. sh'[p] = r /\ tree' = tree
    BY <1>1, GoGives
  <1> HIDE DEF r
  <1>6. CASE r = Prompt(p)
    BY <1>2, <1>5, <1>6, PromptRests
  <1>7. CASE r = [Prompt(p) EXCEPT !.cwd = sh[p].path]
    <2>1. [Prompt(p) EXCEPT !.cwd = sh[p].path].pc = "prompt"
      BY DEF Prompt, Idle
    <2> QED BY <1>2, <1>5, <1>7, <2>1
  <1>8. CASE \E pc \in {"del", "open", "ls"} : /\ r = [s EXCEPT !.pc = pc]
                                               /\ pc = "ls" => entry.type = "dir"
    <2>1. PICK pc \in {"del", "open", "ls"} : /\ r = [s EXCEPT !.pc = pc]
                                              /\ pc = "ls" => entry.type = "dir"
      BY <1>8
    <2>2. r.pc = pc /\ SameCommand(r, sh[p])
      BY <1>2, <2>1 DEF ShellRecord, SameCommand
    <2>3. r.entry = entry
      <3> HIDE DEF s
      <3> QED BY <1>3, <2>1
    <2>4. \/ sh'[p].pc \in {"prompt", "ls", "del"} /\ (sh'[p].pc = "ls" => sh'[p].entry.type = "dir")
          \/ sh'[p].pc = "open" /\ SameCommand(sh'[p], sh[p])
      BY <1>5, <2>1, <2>2, <2>3
    <2> QED BY <1>2, <1>5, <2>4
  <1>9. CASE r = [s EXCEPT !.pc = "del -r", !.work = w] /\ sh[p].line.cmd = "del -r"
    <2> HIDE DEF w
    <2>1. r.pc = "del -r" /\ SameCommand(r, sh[p]) /\ r.work = w
      BY <1>2, <1>9 DEF ShellRecord, SameCommand
    <2> QED BY <1>2, <1>5, <1>9, <2>1 DEF w
  <1> QED BY <1>4, <1>6, <1>7, <1>8, <1>9

LEMMA MoveStat ==
    ASSUME Inv, NEW p \in Pid, StatArgument(p), Copied(sh[p], tree)
    PROVE  Copied(sh'[p], tree')
  <1>1. CASE sh'[p].pc \notin MoveStages
    BY <1>1, NotMoving
  <1>2. CASE sh'[p].pc = "open" /\ SameCommand(sh'[p], sh[p])
    BY <1>2, StatGives DEF SameCommand, Copied, IsMove, Moving
  <1> QED BY <1>1, <1>2, StatGives DEF MoveStages

(* A file that can be opened.                                              *)
LEMMA CanOpenFacts ==
    ASSUME Inv, NEW path \in Canonical, CanOpen(path)
    PROVE  Words(path) \in DOMAIN tree /\ tree[Words(path)].type = "file"
  <1>1. IsTree(tree) /\ Words(path) \in Seq(Text)
    BY CanonicalFacts, NamesAreText DEF Inv, TypeOK
  <1> QED BY <1>1, FatStatFacts DEF CanOpen

LEMMA MoveOpenSource ==
    ASSUME Inv, NEW p \in Pid, OpenSource(p), Copied(sh[p], tree)
    PROVE  Copied(sh'[p], tree')
  <1> DEFINE pc == CASE sh[p].line.cmd = "tac" -> "tac"
                     [] sh[p].line.cmd = "cat" -> "cat"
                     [] OTHER -> "mkfile"
             d == Opened(sh[p].path)
             s == [sh[p] EXCEPT !.pc = pc, !.from_fd = d]
  <1>1. Abort(p) \/ (CanOpen(sh[p].path) /\ Go(p, s))
    BY DEF OpenSource, Step
  <1>2. sh[p] \in ShellRecord /\ sh[p].pc = "open" /\ sh[p].path \in Canonical
    BY ShellHas DEF OpenSource, At
  <1>3. pc \in {"tac", "cat", "mkfile"}
    OBVIOUS
  <1>4. CASE CanOpen(sh[p].path) /\ Go(p, s)
    <2> HIDE DEF pc
    <2>1. /\ d.file = Words(sh[p].path) /\ d.pos = 0
          /\ d.end = Len(tree[Words(sh[p].path)].content)
      BY DEF Opened
    <2> HIDE DEF d
    <2>2. s.pc = pc /\ s.from_fd = d /\ SameCommand(s, sh[p])
      BY <1>2 DEF ShellRecord, SameCommand
    <2> HIDE DEF s
    <2>3. sh'[p] = s /\ tree' = tree
      BY <1>4, GoGives
    <2>4. Words(sh[p].path) \in DOMAIN tree /\ tree[Words(sh[p].path)].type = "file"
      BY <1>2, <1>4, CanOpenFacts
    <2>5. Len(tree[Words(sh[p].path)].content) \in Nat
      BY <2>4 DEF Inv, TypeOK, IsTree, Node, Text
    <2>6. ASSUME IsMove(s) PROVE Moving(s, tree)
      <3>3. IsMove(sh[p]) /\ s.line.cmd = "mv"
        BY <1>3, <2>2, <2>6, SameMove
      <3>1. sh[p].before = tree
        BY <1>2, <3>3 DEF Copied, Moving
      <3>2. ReadsSource(s, tree)
        BY <2>1, <2>2, <2>4, <2>5, <3>1 DEF ReadsSource, SameCommand, Buffered
      <3> QED BY <1>3, <2>1, <2>2, <3>1, <3>2, <3>3 DEF Moving, SameCommand
    <2> QED BY <2>3, <2>6 DEF Copied
  <1>5. CASE Abort(p)
    BY <1>5, AbortGives, PromptRests, NotMoving DEF MoveStages
  <1> QED BY <1>1, <1>4, <1>5

LEMMA RefreshSame ==
    ASSUME NEW d, NEW t, d.file \in DOMAIN t
    PROVE  Refresh(d, t) = d
  BY DEF Refresh

LEMMA MoveMakeCopy ==
    ASSUME Inv, NEW p \in Pid, MakeCopy(p), Copied(sh[p], tree)
    PROVE  Copied(sh'[p], tree')
  <1> DEFINE s == Step(p, "open copy")
             to == sh[p].to
             src == Words(sh[p].path)
             t == Made(to, "file")
             n == sh'[p]
  <1>1. sh[p] \in ShellRecord /\ sh[p].pc = "mkfile" /\ to \in Canonical /\ IsTree(tree)
    BY ShellHas DEF MakeCopy, At, TypeOK
  <1>2. s \in ShellRecord /\ s.pc = "open copy" /\ s.from_fd = sh[p].from_fd /\ SameCommand(s, sh[p])
    BY <1>1 DEF Step, ShellRecord, Stages, SameCommand
  <1>3. (CanMake(to) /\ Change(p, t, s)) \/ Abort(p) \/ GoWild(p)
    BY DEF MakeCopy, Make
  <1> HIDE DEF s
  <1>4. CASE CanMake(to) /\ Change(p, t, s)
    <2>1. /\ DOMAIN t = DOMAIN tree \cup {Place(to)} /\ Place(to) \notin DOMAIN tree
          /\ \A m \in DOMAIN tree : t[m] = tree[m]
          /\ t[Place(to)].content = <<>>
      <3>1. /\ DOMAIN t = DOMAIN tree \cup {Place(to)} /\ Place(to) \notin DOMAIN tree
            /\ \A m \in DOMAIN tree : t[m] = tree[m]
            /\ t[Place(to)] = [type |-> "file", content |-> <<>>, clusters |-> 1]
        BY <1>1, <1>4, MadeIsTree
      <3> QED BY <3>1
    <2> HIDE DEF t
    <2>2. /\ tree' = t /\ n.pc = "open copy" /\ SameCommand(n, sh[p])
          /\ n.from_fd = Refresh(sh[p].from_fd, t)
      <3>5. s \in ShellRecord /\ Change(p, t, s)
        BY <1>2, <1>4
      <3>1. tree' = t /\ n.pc = s.pc /\ n.from_fd = Refresh(s.from_fd, t)
        BY <3>5, ChangeGives
      <3>2. SameCommand(n, s)
        BY <3>5, ChangeGives DEF SameCommand
      <3> QED BY <1>2, <3>1, <3>2 DEF SameCommand
    <2> HIDE DEF n
    <2>3. ASSUME IsMove(n) PROVE Moving(n, t)
      <3>6. IsMove(sh[p]) /\ n.line.cmd = "mv"
        BY <2>2, <2>3, SameMove
      <3>1. ReadsSource(sh[p], tree) /\ sh[p].from_fd.pos = 0
        BY <1>1, <3>6 DEF Copied, Moving
      <3>2. src \in DOMAIN t /\ t[src] = tree[src] /\ src \in DOMAIN tree
        BY <2>1, <3>1 DEF ReadsSource
      <3>3. n.from_fd = sh[p].from_fd
        BY <2>2, <3>1, <3>2, RefreshSame DEF ReadsSource
      <3>4. ReadsSource(n, t)
        BY <2>2, <3>1, <3>2, <3>3 DEF ReadsSource, SameCommand
      <3>5. ASSUME Words(to) \in DOMAIN t
            PROVE  Words(to) # src /\ t[Words(to)].content = <<>>
        <4>1. Words(to) # <<>>
          <5>1. \A m \in DOMAIN tree : m # <<>>
            BY <1>1, PlacesAreTexts DEF IsTree
          <5>2. Place(to) # <<>>
            BY <1>1, PlaceOfText, PlacesAreTexts
          <5> QED BY <2>1, <3>5, <5>1, <5>2
        <4>2. Place(to) = Words(to)
          BY <1>1, <4>1, PlaceOfText, CanonicalFacts
        <4> QED BY <2>1, <3>2, <4>2
      <3> QED BY <2>2, <3>1, <3>3, <3>4, <3>5, <3>6 DEF Moving, SameCommand
    <2> QED BY <2>2, <2>3 DEF Copied, n
  <1>5. CASE Abort(p) \/ GoWild(p)
    BY <1>5, AbortGives, PromptRests, NotMoving DEF MoveStages
  <1> QED BY <1>3, <1>4, <1>5

LEMMA MoveOpenCopy ==
    ASSUME Inv, NEW p \in Pid, OpenCopy(p), Copied(sh[p], tree)
    PROVE  Copied(sh'[p], tree')
  <1> DEFINE d == Opened(sh[p].to)
             s == [sh[p] EXCEPT !.pc = "read", !.to_fd = d]
             dst == Words(sh[p].to)
  <1>1. Abort(p) \/ (CanOpen(sh[p].to) /\ Go(p, s))
    BY DEF OpenCopy, Step
  <1>2. sh[p] \in ShellRecord /\ sh[p].pc = "open copy" /\ sh[p].to \in Canonical
    BY ShellHas DEF OpenCopy, At
  <1>3. CASE CanOpen(sh[p].to) /\ Go(p, s)
    <2>1. d.file = dst /\ d.pos = 0 /\ d.end = Len(tree[dst].content)
      BY DEF Opened
    <2> HIDE DEF d
    <2>2. s.pc = "read" /\ s.to_fd = d /\ s.from_fd = sh[p].from_fd /\ SameCommand(s, sh[p])
      BY <1>2 DEF ShellRecord, SameCommand
    <2> HIDE DEF s
    <2>3. sh'[p] = s /\ tree' = tree
      BY <1>3, GoGives
    <2>4. dst \in DOMAIN tree
      BY <1>2, <1>3, CanOpenFacts
    <2>5. ASSUME IsMove(s) PROVE Moving(s, tree)
      <3>5. IsMove(sh[p]) /\ s.line.cmd = "mv"
        BY <2>2, <2>5, SameMove
      <3>1. ReadsSource(sh[p], tree) /\ sh[p].from_fd.pos = 0
            /\ dst # Words(sh[p].path) /\ tree[dst].content = <<>>
        BY <1>2, <2>4, <3>5 DEF Copied, Moving
      <3>2. ReadsSource(s, tree)
        BY <2>2, <3>1 DEF ReadsSource, SameCommand
      <3>3. Len(tree[dst].content) = 0
        BY <3>1
      <3>4. WritesCopy(s, tree)
        BY <2>1, <2>2, <2>4, <3>1, <3>3 DEF WritesCopy, SameCommand, Agrees, Buffered
      <3> QED BY <2>1, <2>2, <3>1, <3>2, <3>4, <3>5 DEF Moving, SameCommand
    <2> QED BY <2>3, <2>5 DEF Copied
  <1>4. CASE Abort(p)
    BY <1>4, AbortGives, PromptRests, NotMoving DEF MoveStages
  <1> QED BY <1>1, <1>3, <1>4

(* While mv reads and writes: what the invariant says of its descriptors.  *)
LEMMA CopyingFacts ==
    ASSUME Inv, NEW p \in Pid, IsMove(sh[p]), Moving(sh[p], tree), sh[p].pc \in {"read", "write", "mv"}
    PROVE  /\ ReadsSource(sh[p], tree) /\ WritesCopy(sh[p], tree)
           /\ IsTree(tree) /\ sh[p].from_fd \in Descriptor /\ sh[p].to_fd \in Descriptor
           /\ sh[p].from_fd.file = Words(sh[p].path) /\ Words(sh[p].path) \in DOMAIN tree
           /\ sh[p].to_fd.file = Words(sh[p].to) /\ Words(sh[p].to) \in DOMAIN tree
           /\ tree[Words(sh[p].path)].content \in Text
           /\ sh[p].from_fd.pos \in Nat /\ sh[p].from_fd.end \in Nat /\ sh[p].to_fd.pos \in Nat
           /\ sh[p].from_fd.end = Len(tree[Words(sh[p].path)].content)
           /\ sh[p].from_fd.pos <= sh[p].from_fd.end
           /\ Agrees(tree[Words(sh[p].path)].content, tree[Words(sh[p].path)].content, sh[p].from_fd.end)
           /\ Buffered(sh[p].from_fd, tree[Words(sh[p].path)].content, sh[p].from_fd.end)
  <1>1. ReadsSource(sh[p], tree) /\ WritesCopy(sh[p], tree)
    BY DEF Moving
  <1>2. IsTree(tree) /\ sh[p].from_fd \in Descriptor /\ sh[p].to_fd \in Descriptor
    BY ShellHas DEF TypeOK, ShellRecord
  <1>3. sh[p].from_fd.pos \in Nat /\ sh[p].from_fd.end \in Nat /\ sh[p].to_fd.pos \in Nat
    BY <1>2 DEF Descriptor
  <1>4. /\ sh[p].from_fd.file = Words(sh[p].path) /\ Words(sh[p].path) \in DOMAIN tree
        /\ sh[p].from_fd.end = Len(tree[Words(sh[p].path)].content)
        /\ sh[p].from_fd.pos <= sh[p].from_fd.end
        /\ Buffered(sh[p].from_fd, tree[Words(sh[p].path)].content, sh[p].from_fd.end)
    BY <1>1 DEF ReadsSource
  <1>5. sh[p].to_fd.file = Words(sh[p].to) /\ Words(sh[p].to) \in DOMAIN tree
    BY <1>1 DEF WritesCopy
  <1>6. tree[Words(sh[p].path)].content \in Text
    BY <1>2, <1>4 DEF IsTree, Node
  <1>7. Agrees(tree[Words(sh[p].path)].content, tree[Words(sh[p].path)].content, sh[p].from_fd.end)
    BY <1>3, <1>4 DEF Agrees
  <1> QED BY <1>1, <1>2, <1>3, <1>4, <1>5, <1>6, <1>7

LEMMA MoveReadBlock ==
    ASSUME Inv, NEW p \in Pid, ReadBlock(p), Copied(sh[p], tree)
    PROVE  Copied(sh'[p], tree')
  <1> DEFINE d == sh[p].from_fd
             text == ReadFrom(d, BLOCK)
             pos == d.pos + Len(text)
             b == Buffer(Seen(d), pos)
             buffer == Overwrite(Resize(sh[p].buffer, BLOCK), 0, text)
             fd == [d EXCEPT !.pos = pos, !.buffer = b]
             r == [sh[p] EXCEPT !.pc = "write", !.from_fd = fd, !.buffer = buffer]
             m == [sh[p] EXCEPT !.pc = "mv"]
             c == tree[Words(sh[p].path)].content
  <1>1. sh[p] \in ShellRecord /\ sh[p].pc = "read" /\ d \in Descriptor /\ sh[p].buffer \in Text
    BY ShellHas DEF ReadBlock, At, ShellRecord
  <1>2. \/ GoWild(p) \/ Go(p, Prompt(p))
        \/ text # <<>> /\ Go(p, r)
        \/ text = <<>> /\ sh[p].line.cmd = "mv" /\ Go(p, m)
    <2>1. [Step(p, "write") EXCEPT !.from_fd.pos = pos, !.from_fd.buffer = b, !.buffer = buffer] = r
      BY <1>1 DEF Step, ShellRecord
    <2>2. Step(p, "mv") = m
      BY DEF Step
    <2> HIDE DEF r, m, b, pos, buffer
    <2>3. CASE Gone(d)
      BY <2>3 DEF ReadBlock
    <2>4. CASE ~Gone(d) /\ text # <<>>
      BY <2>1, <2>4 DEF ReadBlock, pos, b, buffer
    <2>5. CASE ~Gone(d) /\ text = <<>>
      BY <2>2, <2>5 DEF ReadBlock
    <2> QED BY <2>3, <2>4, <2>5
  <1>3. BLOCK \in Nat \ {0}
    BY ShellAssumption
  <1>4. ASSUME IsMove(sh[p])
        PROVE  /\ ReadsSource(sh[p], tree) /\ WritesCopy(sh[p], tree)
               /\ text \in Text
               /\ Len(text) = (IF d.pos + BLOCK <= d.end THEN BLOCK ELSE d.end - d.pos)
               /\ \A k \in 1..Len(text) : text[k] = c[d.pos + k]
               /\ d.pos = sh[p].to_fd.pos \/ d.pos = d.end
    <2>1. Moving(sh[p], tree)
      BY <1>4 DEF Copied
    <2>2. d.pos = sh[p].to_fd.pos \/ d.pos = d.end
      BY <1>1, <2>1 DEF Moving
    <2>3. /\ IsTree(tree) /\ d.file \in DOMAIN tree /\ d.pos <= d.end
          /\ Agrees(tree[d.file].content, c, d.end) /\ Buffered(d, c, d.end)
          /\ ReadsSource(sh[p], tree) /\ WritesCopy(sh[p], tree)
      BY <1>1, <1>4, <2>1, CopyingFacts
    <2> HIDE DEF c, d
    <2>4. BLOCK \in Nat
      BY <1>3
    <2> QED BY <1>1, <2>2, <2>3, <2>4, ReadAgrees
  <1>5. CASE text = <<>> /\ sh[p].line.cmd = "mv" /\ Go(p, m)
    <2>1. m.pc = "mv" /\ m.from_fd = d /\ m.to_fd = sh[p].to_fd /\ SameCommand(m, sh[p])
      BY <1>1 DEF ShellRecord, SameCommand
    <2> HIDE DEF m
    <2>2. sh'[p] = m /\ tree' = tree
      BY <1>5, GoGives
    <2>3. ASSUME IsMove(m) PROVE Moving(m, tree)
      <3>5. m.quiet = sh[p].quiet /\ m.failed = sh[p].failed /\ m.line = sh[p].line
        BY <2>1 DEF SameCommand
      <3>1. IsMove(sh[p]) /\ m.line.cmd = "mv"
        BY <1>5, <2>3, <3>5 DEF IsMove
      <3>2. ReadsSource(m, tree)
        BY <1>4, <2>1, <3>1 DEF ReadsSource, SameCommand
      <3>3. WritesCopy(m, tree)
        BY <1>1, <1>4, <2>1, <3>1 DEF WritesCopy, SameCommand
      <3>4. d.pos = d.end
        <4>1. Len(text) = 0 /\ d.pos \in Nat /\ d.end \in Nat
          BY <1>1, <1>5 DEF Descriptor
        <4>2. Len(text) = (IF d.pos + BLOCK <= d.end THEN BLOCK ELSE d.end - d.pos)
          BY <1>4, <3>1
        <4> HIDE DEF text
        <4> QED BY <1>3, <4>1, <4>2
      <3> QED BY <2>1, <3>1, <3>2, <3>3, <3>4 DEF Moving
    <2> QED BY <2>2, <2>3 DEF Copied
  <1>6. CASE text # <<>> /\ Go(p, r)
    <2>1. /\ r.pc = "write" /\ r.from_fd = fd /\ r.to_fd = sh[p].to_fd /\ r.buffer = buffer
          /\ SameCommand(r, sh[p])
      BY <1>1 DEF ShellRecord, SameCommand
    <2>2. fd.file = d.file /\ fd.pos = pos /\ fd.end = d.end /\ fd.buffer = b
      BY <1>1 DEF Descriptor
    <2> HIDE DEF fd, r
    <2>3. sh'[p] = r /\ tree' = tree
      BY <1>6, GoGives
    <2>4. ASSUME IsMove(r) PROVE Moving(r, tree)
      <3>1. IsMove(sh[p]) /\ Moving(sh[p], tree) /\ r.line.cmd = "mv"
        BY <2>1, <2>4, SameMove DEF Copied
      <3>2. /\ IsTree(tree) /\ d.file = Words(sh[p].path) /\ d.file \in DOMAIN tree
            /\ d.pos \in Nat /\ d.end \in Nat /\ d.end = Len(c) /\ d.pos <= d.end
            /\ Agrees(c, c, d.end) /\ Buffered(d, c, d.end)
        BY <1>1, <3>1, CopyingFacts
      <3>3. /\ text \in Text /\ Len(text) \in Nat /\ Len(text) # 0
            /\ Len(text) = (IF d.pos + BLOCK <= d.end THEN BLOCK ELSE d.end - d.pos)
            /\ \A k \in 1..Len(text) : text[k] = c[d.pos + k]
        <4>1. text \in Text
          BY <1>4, <3>1
        <4>2. text \in Seq(Symbol)
          BY <4>1 DEF Text
        <4> HIDE DEF text
        <4>3. Len(text) \in Nat /\ Len(text) # 0
          BY <1>6, <4>2
        <4> QED BY <1>4, <3>1, <4>1, <4>3
      <3> HIDE DEF text
      <3>4. /\ pos \in Nat /\ d.pos < pos /\ pos <= d.pos + BLOCK /\ pos <= d.end
            /\ pos = d.pos + BLOCK \/ pos = d.end
        BY <1>3, <3>2, <3>3
      <3>5. d.pos = sh[p].to_fd.pos
        BY <1>4, <3>1, <3>2, <3>4
      <3> HIDE DEF pos
      <3>6. ReadsSource(r, tree)
        <4>1. Seen(d) \in Text /\ Agrees(Seen(d), c, d.end)
          BY <1>1, <3>2, SeenAgrees
        <4>2. /\ Len(b) = CLUSTER_SIZE
              /\ \A k \in 1..CLUSTER_SIZE : Base(pos) + k <= d.end => b[k] = c[Base(pos) + k]
          BY <3>2, <3>4, <4>1, BufferAgrees
        <4> HIDE DEF b
        <4>3. Buffered(fd, c, d.end)
          BY <2>2, <4>2 DEF Buffered
        <4>4. /\ Words(sh[p].path) \in DOMAIN sh[p].before
              /\ tree[Words(sh[p].path)] = sh[p].before[Words(sh[p].path)]
              /\ tree[Words(sh[p].path)].type = "file"
          BY <1>4, <3>1 DEF ReadsSource
        <4> QED BY <2>1, <2>2, <3>2, <3>4, <4>3, <4>4 DEF ReadsSource, SameCommand
      <3>7. WritesCopy(r, tree)
        <4>1. WritesCopy(sh[p], tree)
          BY <1>4, <3>1
        <4> QED BY <1>1, <2>1, <3>5, <4>1 DEF WritesCopy, SameCommand
      <3>8. HasBlock(r, tree)
        <4> DEFINE old == Resize(sh[p].buffer, BLOCK)
        <4>1. old \in Text /\ Len(old) = BLOCK
          BY <1>1, <1>3, ResizeFacts
        <4> HIDE DEF old
        <4>2. /\ Len(buffer) = IF Len(old) <= 0 + Len(text) THEN 0 + Len(text) ELSE Len(old)
              /\ \A i \in 1..Len(text) : buffer[0 + i] = text[i]
          <5>1. 0 \in Nat
            OBVIOUS
          <5> QED BY <3>3, <4>1, <5>1, OverwriteFacts DEF old
        <4> HIDE DEF buffer
        <4>3. Len(buffer) = BLOCK
          BY <1>3, <3>2, <3>3, <4>1, <4>2
        <4>4. ASSUME NEW k \in 1..BLOCK, sh[p].to_fd.pos + k <= pos
              PROVE  buffer[k] = c[sh[p].to_fd.pos + k]
          <5>1. k \in 1..Len(text) /\ 0 + k = k
            BY <1>3, <3>2, <3>3, <3>5, <4>4 DEF pos
          <5> QED BY <3>3, <3>5, <4>2, <5>1
        <4> QED BY <2>1, <2>2, <3>4, <3>5, <4>3, <4>4 DEF HasBlock, SameCommand
      <3> QED BY <2>1, <3>1, <3>6, <3>7, <3>8 DEF Moving
    <2> QED BY <2>3, <2>4 DEF Copied
  <1>7. CASE GoWild(p) \/ Go(p, Prompt(p))
    BY <1>7, AbortGives, GoGives, PromptRests, NotMoving DEF MoveStages
  <1> QED BY <1>2, <1>5, <1>6, <1>7

(* What a file has when all of a text was written.                         *)
LEMMA WrittenContent ==
    ASSUME IsTree(tree), NEW d \in Descriptor, d.file \in DOMAIN tree, NEW text \in Text
    PROVE  Written(d, text, text)[d.file].content =
              Resize(Overwrite(Seen(d), d.pos, text), Max({d.end, d.pos + Len(text)}))
  <1> DEFINE e == tree[d.file]
             c == Resize(Overwrite(Seen(d), d.pos, text), Max({d.end, d.pos + Len(text)}))
             k == Max({e.clusters, ClustersFor(d.pos + Len(text))})
             w == [e EXCEPT !.content = c, !.clusters = k]
  <1>1. e \in Node
    BY DEF IsTree
  <1>2. Written(d, text, text) = With(d.file, w)
    BY DEF Written
  <1>3. With(d.file, w)[d.file] = w
    BY DEF With
  <1> HIDE DEF c, k, e
  <1>4. w.content = c
    BY <1>1 DEF Node
  <1> QED BY <1>2, <1>3, <1>4 DEF c

LEMMA MoveWriteBlock ==
    ASSUME Inv, NEW p \in Pid, WriteBlock(p), Copied(sh[p], tree)
    PROVE  Copied(sh'[p], tree')
  <1> DEFINE d == sh[p].to_fd
             text == sh[p].buffer
             part == Fitting(d, text)
             fd == Advance(d, part)
             failed == part # text
             s == [sh[p] EXCEPT !.pc = "read", !.to_fd = fd, !.failed = failed]
             t == Written(d, text, part)
             n == sh'[p]
             src == Words(sh[p].path)
             dst == Words(sh[p].to)
             c == tree[src].content
             from == sh[p].from_fd
  <1>1. sh[p] \in ShellRecord /\ Sound(sh[p], tree) /\ sh[p].pc = "write" /\ IsTree(tree)
        /\ text \in Text /\ d \in Descriptor
    BY ShellHas DEF WriteBlock, At, TypeOK, ShellRecord
  <1>2. GoWild(p) \/ (~Gone(d) /\ ~sh[p].failed /\ Change(p, t, s))
    BY DEF WriteBlock, Step
  <1>3. CASE ~Gone(d) /\ ~sh[p].failed /\ Change(p, t, s)
    <2>1. d.file \in DOMAIN tree
      BY <1>1, <1>3, InUse DEF Sound
    <2>2. part \in Text
      BY <1>1, <2>1, FittingType
    <2>3. fd \in Descriptor /\ fd.file = d.file
      BY <1>1, <2>1, <2>2, AdvanceType
    <2>4. failed \in BOOLEAN
      OBVIOUS
    <2>5. /\ DOMAIN t = DOMAIN tree
          /\ \A m \in DOMAIN tree : m # d.file => t[m] = tree[m]
      BY <1>1, <2>1, <2>2, WrittenIsTree
    <2> HIDE DEF fd, failed, t
    <2>6. /\ s \in ShellRecord /\ s.pc = "read" /\ s.from_fd = from /\ s.to_fd = fd
          /\ s.failed = failed /\ s.path = sh[p].path /\ s.to = sh[p].to /\ s.line = sh[p].line
          /\ s.before = sh[p].before /\ s.quiet = sh[p].quiet
      BY <1>1, <2>3, <2>4 DEF ShellRecord, Stages
    <2> HIDE DEF s
    <2>7. s \in ShellRecord /\ Change(p, t, s)
      BY <1>3, <2>6
    <2>8. /\ tree' = t /\ n.pc = "read" /\ n.failed = failed /\ n.path = sh[p].path /\ n.to = sh[p].to
          /\ n.line = sh[p].line /\ n.before = sh[p].before /\ n.quiet = sh[p].quiet
          /\ n.from_fd = Refresh(from, t) /\ n.to_fd = Refresh(fd, t)
      <3>1. /\ tree' = t /\ n.pc = s.pc /\ n.failed = s.failed /\ n.path = s.path /\ n.to = s.to
            /\ n.line = s.line /\ n.before = s.before /\ n.quiet = s.quiet
            /\ n.from_fd = Refresh(s.from_fd, t) /\ n.to_fd = Refresh(s.to_fd, t)
        BY <2>7, ChangeGives
      <3> QED BY <2>6, <3>1
    <2> HIDE DEF n
    <2>9. ASSUME IsMove(n) PROVE Moving(n, t)
      <3>1. IsMove(sh[p]) /\ Moving(sh[p], tree) /\ part = text
        BY <1>3, <2>8, <2>9 DEF IsMove, Copied, failed
      <3>2. /\ ReadsSource(sh[p], tree) /\ WritesCopy(sh[p], tree) /\ HasBlock(sh[p], tree)
            /\ d.file = dst /\ src \in DOMAIN tree /\ dst \in DOMAIN tree /\ from.file = src
            /\ c \in Text /\ from.pos \in Nat /\ d.pos \in Nat
        <4>1. HasBlock(sh[p], tree)
          BY <1>1, <3>1 DEF Moving
        <4> QED BY <1>1, <3>1, <4>1, CopyingFacts
      <3>3. /\ dst # src /\ d.end = d.pos /\ Agrees(tree[dst].content, c, d.pos) /\ Buffered(d, c, d.pos)
        BY <1>1, <3>2 DEF WritesCopy
      <3>4. /\ Len(text) = BLOCK /\ d.pos < from.pos /\ from.pos <= d.pos + BLOCK
            /\ from.pos = d.pos + BLOCK \/ from.pos = from.end
            /\ \A k \in 1..BLOCK : d.pos + k <= from.pos => text[k] = c[d.pos + k]
        BY <3>2 DEF HasBlock
      <3>5. BLOCK \in Nat
        BY ShellAssumption
      <3> DEFINE pos == d.pos + Len(text)
                 x == Overwrite(Seen(d), d.pos, text)
      <3>6. n.from_fd = from /\ n.to_fd = fd
        BY <2>3, <2>5, <2>8, <3>2, RefreshSame
      <3>7. t[src] = tree[src] /\ src \in DOMAIN t /\ dst \in DOMAIN t
        BY <2>5, <3>2, <3>3
      <3>8. ReadsSource(n, t)
        BY <2>8, <3>2, <3>6, <3>7 DEF ReadsSource
      <3>9. pos \in Nat /\ pos = d.pos + BLOCK /\ from.pos <= pos
        BY <3>2, <3>4, <3>5
      <3>10. x \in Text /\ Agrees(x, c, from.pos)
        <4>1. Seen(d) \in Text /\ Agrees(Seen(d), c, d.pos)
          BY <1>1, <2>1, <3>2, <3>3, SeenAgrees
        <4>2. \A i \in 1..Len(text) : d.pos + i <= from.pos => text[i] = c[d.pos + i]
          BY <3>4
        <4>3. d.pos <= d.pos /\ from.pos <= d.pos + Len(text)
          BY <3>2, <3>9
        <4> HIDE DEF d, c, text, from
        <4> QED BY <1>1, <3>2, <4>1, <4>2, <4>3, OverwriteAgrees
      <3>11. Max({d.end, pos}) = pos
        <4>1. d.end \in Int /\ pos \in Int /\ d.end <= pos
          BY <3>2, <3>3, <3>5, <3>9
        <4> HIDE DEF pos
        <4> QED BY <4>1, TwoNumbers
      <3>12. t[dst].content = Resize(x, pos)
        <4>1. Written(d, text, text)[d.file].content = Resize(x, Max({d.end, pos}))
          BY <1>1, <2>1, WrittenContent
        <4> QED BY <3>1, <3>2, <3>11, <4>1 DEF t
      <3>13. Len(t[dst].content) = pos /\ Agrees(t[dst].content, c, from.pos)
        <4> HIDE DEF pos, x
        <4> QED BY <3>2, <3>9, <3>10, <3>12, ResizeFacts, ResizeAgrees
      <3>14. fd.pos = pos /\ fd.end = pos /\ fd.buffer = Buffer(x, pos)
        <4>1. fd = [d EXCEPT !.pos = @ + Len(text), !.end = Max({@, pos}), !.buffer = Buffer(x, pos)]
          BY <3>1 DEF fd, Advance
        <4> QED BY <1>1, <3>11, <4>1 DEF Descriptor
      <3>15. Buffered(fd, c, from.pos)
        <4> DEFINE b == Buffer(x, pos)
        <4>1. /\ Len(b) = CLUSTER_SIZE
              /\ \A k \in 1..CLUSTER_SIZE : Base(pos) + k <= from.pos => b[k] = c[Base(pos) + k]
          <5> HIDE DEF pos, x
          <5> QED BY <3>2, <3>9, <3>10, BufferAgrees
        <4> HIDE DEF b, pos, x
        <4> QED BY <3>14, <4>1 DEF Buffered, b
      <3> HIDE DEF pos, x
      <3>16. WritesCopy(n, t)
        BY <2>3, <2>8, <3>2, <3>3, <3>6, <3>7, <3>9, <3>13, <3>14, <3>15 DEF WritesCopy
      <3>17. from.pos = pos \/ from.pos = from.end
        BY <3>4, <3>9
      <3>18. n.line.cmd = "mv"
        BY <2>8, <3>1 DEF Moving
      <3> QED BY <2>8, <3>6, <3>8, <3>14, <3>16, <3>17, <3>18 DEF Moving
    <2> QED BY <2>8, <2>9 DEF Copied, n
  <1>4. CASE GoWild(p)
    BY <1>4, AbortGives, PromptRests, NotMoving DEF MoveStages
  <1> QED BY <1>2, <1>3, <1>4

(* The calls of the shell that moves.                                      *)
LEMMA MoveWork ==
    ASSUME Inv, NEW p \in Pid, Work(p), Copied(sh[p], tree)
    PROVE  Copied(sh'[p], tree')
  <1>1. CASE StatArgument(p) \/ OpenSource(p) \/ MakeCopy(p) \/ OpenCopy(p) \/ ReadBlock(p) \/ WriteBlock(p)
    BY <1>1, MoveStat, MoveOpenSource, MoveMakeCopy, MoveOpenCopy, MoveReadBlock, MoveWriteBlock
  <1>2. CASE sh'[p].pc \in Resting \cup {"del -r", "tac", "find stat", "find list", "found"}
    BY <1>2, NotMoving DEF MoveStages, Resting
  <1>3. CASE sh'[p].quiet = FALSE
    BY <1>3 DEF Copied, IsMove
  <1> QED BY <1>1, <1>2, <1>3, WorkStages

LEMMA MoveRun ==
    ASSUME Inv, NEW p \in Pid, NEW line, Run(p, line)
    PROVE  Copied(sh'[p], tree')
  <1> DEFINE path == FullPath(p, IF line.cmd = "cd" /\ line.args = <<>> THEN Slash ELSE Arg(line, 1))
             to == FullPath(p, Arg(line, 2))
             before == IF line.cmd \in {"del -r", "mv"} THEN tree ELSE <<>>
             s == [Idle EXCEPT !.pc = FirstStep(line.cmd), !.cwd = sh[p].cwd, !.line = line,
                               !.path = path, !.to = to, !.leftover = sh[p].leftover, !.before = before]
  <1>1. sh' = [sh EXCEPT ![p] = s] /\ tree' = tree
    BY DEF Run, vfsVars
  <1> HIDE DEF path, to
  <1>2. s.line = line /\ s.pc = FirstStep(line.cmd) /\ s.before = before
    BY DEF Idle
  <1> HIDE DEF s
  <1>3. sh'[p] = s
    BY <1>1 DEF Inv, TypeOK
  <1>4. CASE line.cmd = "mv"
    <2>1. s.pc = "stat" /\ s.before = tree
      BY <1>2, <1>4 DEF FirstStep
    <2> QED BY <1>1, <1>2, <1>3, <1>4, <2>1 DEF Copied, Moving
  <1>5. CASE line.cmd # "mv"
    <2>1. s.pc # "mv"
      BY <1>2, <1>5 DEF FirstStep
    <2> QED BY <1>2, <1>3, <1>5, <2>1 DEF Copied, IsMove
  <1> QED BY <1>4, <1>5

LEMMA MoveInductive ==
    ASSUME Inv, MoveInv, [Next]_vars
    PROVE  MoveInv'
  <1>1. CASE UNCHANGED vars
    <2>1. sh' = sh /\ tree' = tree
      BY <1>1 DEF vars, vfsVars
    <2>2. \A p \in Pid : Copied(sh[p], tree)
      BY DEF MoveInv, Copied
    <2>3. \A p \in Pid : Copied(sh'[p], tree')
      BY <2>1, <2>2
    <2> QED BY <2>3 DEF MoveInv, Copied
  <1>2. CASE Next
    <2> SUFFICES ASSUME NEW p \in Pid PROVE Copied(sh'[p], tree')
      BY DEF MoveInv, Copied
    <2>1. Copied(sh[p], tree)
      BY DEF MoveInv, Copied
    <2>2. PICK q \in Pid : Work(q) \/ \E line \in Lines : Run(q, line)
      BY <1>2 DEF Next
    <2>3. CASE p = q
      BY <2>1, <2>2, <2>3, MoveWork, MoveRun
    <2>4. CASE p # q
      <3>1. CASE sh'[p] = sh[p] /\ (UNCHANGED vfsVars \/ sh[p].pc \in Resting)
        BY <2>1, <3>1, NotMoving DEF vfsVars, MoveStages, Resting
      <3>2. CASE sh'[p].quiet = FALSE
        BY <3>2 DEF Copied, IsMove
      <3>3. CASE sh'[p] = Off \/ NewShell(sh'[p])
        <4>1. Off.pc = "off" /\ (NewShell(sh'[p]) => sh'[p].pc = "start")
          BY NewShellStarts DEF Off, Idle
        <4> QED BY <3>3, <4>1, NotMoving DEF MoveStages
      <3> QED BY <2>2, <2>4, <3>1, <3>2, <3>3, Elsewhere
    <2> QED BY <2>3, <2>4
  <1> QED BY <1>1, <1>2

LEMMA MoveInitially == Init => MoveInv
  <1> SUFFICES ASSUME Init, NEW p \in Pid PROVE Copied(sh[p], tree)
    BY DEF MoveInv, Copied
  <1>1. sh[p] = [Idle EXCEPT !.pc = "start"] \/ sh[p] = Off
    BY DEF Init
  <1>2. [Idle EXCEPT !.pc = "start"].pc = "start" /\ Off.pc = "off"
    BY DEF Idle, Off
  <1> QED BY <1>1, <1>2, NotMoving DEF MoveStages

LEMMA AgreesIsPrefix ==
    ASSUME NEW c \in Text, NEW x \in Text, Agrees(x, c, Len(c))
    PROVE  IsPrefix(c, x)
  <1>1. Len(c) \in Nat /\ Len(x) \in Nat
    BY DEF Text
  <1>2. Len(c) <= Len(x) /\ \A i \in 1..Len(c) : c[i] = x[i]
    BY <1>1 DEF Agrees
  <1> QED BY <1>2, PrefixMeans DEF Text

LEMMA FrontOfChild ==
    ASSUME NEW names \in Seq(Text), NEW m \in Seq(Text), m # <<>>,
           Len(m) = Len(names) + 1, IsPrefix(names, m)
    PROVE  Front(m) = names
  <1> DEFINE f == Front(m)
  <1>1. f \in Seq(Text) /\ Len(m) = Len(f) + 1 /\ IsPrefix(f, m)
    BY PrefixOfChild
  <1> HIDE DEF f
  <1>2. Len(f) = Len(names) /\ Len(names) \in Nat
    BY <1>1
  <1>3. \A i \in 1..Len(names) : f[i] = m[i] /\ names[i] = m[i]
    BY <1>1, <1>2, PrefixMeans
  <1>4. f = names
    BY <1>1, <1>2, <1>3, SeqEqual
  <1> QED BY <1>4 DEF f

(* Nothing is in a file.                                                   *)
LEMMA FileHasNone ==
    ASSUME IsTree(tree), NEW names \in Seq(Text), names # <<>>, names \in DOMAIN tree,
           tree[names].type = "file"
    PROVE  Children(names) = {}
  <1> SUFFICES ASSUME NEW m \in Children(names) PROVE FALSE
    OBVIOUS
  <1>1. /\ m \in DOMAIN tree /\ m \in Seq(Text) /\ m # <<>>
        /\ Len(m) = Len(names) + 1 /\ IsPrefix(names, m)
    BY PlacesAreTexts DEF Children, IsTree
  <1>2. Front(m) = names
    BY <1>1, FrontOfChild
  <1> QED BY <1>1, <1>2 DEF IsTree

(* mv deletes its source only when the copy has all of its content, block  *)
(* after block through two descriptors that each hold a cluster: unless a  *)
(* write failed, or another shell changed something meanwhile.             *)
THEOREM MovesKeepContent == Spec => MoveKeepsContent
  <1>1. Init => Inv /\ MoveInv
    BY InvInitially, MoveInitially
  <1>2. (Inv /\ MoveInv) /\ [Next]_vars => (Inv /\ MoveInv)'
    BY InvIsInductive, MoveInductive
  <1>3. Inv /\ MoveInv =>
           \A p \in Pid :
              MoveDelete(p) /\ sh[p].quiet /\ ~sh[p].failed =>
                  /\ Words(sh[p].path) \notin DOMAIN tree'
                  /\ IsPrefix(sh[p].before[Words(sh[p].path)].content,
                              tree'[Words(sh[p].to)].content)
    <2> SUFFICES ASSUME Inv, MoveInv, NEW p \in Pid, MoveDelete(p), sh[p].quiet, ~sh[p].failed
                 PROVE  /\ Words(sh[p].path) \notin DOMAIN tree'
                        /\ IsPrefix(sh[p].before[Words(sh[p].path)].content,
                                    tree'[Words(sh[p].to)].content)
      OBVIOUS
    <2> DEFINE src == Words(sh[p].path)
               dst == Words(sh[p].to)
               c == tree[src].content
    <2>1. sh[p].pc = "mv"
      BY DEF MoveDelete, At
    <2>2. IsMove(sh[p]) /\ Moving(sh[p], tree) /\ sh[p].path \in Canonical /\ IsTree(tree)
      BY <2>1, ShellHas DEF IsMove, MoveInv, TypeOK
    <2>3. /\ ReadsSource(sh[p], tree) /\ WritesCopy(sh[p], tree) /\ sh[p].from_fd.pos = sh[p].from_fd.end
          /\ src \in DOMAIN tree /\ dst \in DOMAIN tree /\ c \in Text /\ sh[p].from_fd.end = Len(c)
      BY <2>1, <2>2, CopyingFacts DEF Moving
    <2>4. /\ dst # src /\ tree[src].type = "file" /\ sh[p].before[src] = tree[src]
          /\ Agrees(tree[dst].content, c, Len(c))
      BY <2>1, <2>3 DEF ReadsSource, WritesCopy
    <2> HIDE DEF src, dst, c
    <2>5. CanDelete(sh[p].path)
      <3>1. TextOf(src) = sh[p].path /\ src \in Seq(Text)
        BY <2>2, CanonicalFacts, NamesAreText DEF src
      <3>2. HandlerOf(sh[p].path) = "fat32"
        BY <2>2, <2>3, <3>1 DEF IsTree
      <3>4. src # <<>>
        BY <2>2, <2>3, PlacesAreTexts DEF IsTree
      <3>3. Children(src) = {}
        BY <2>2, <2>3, <2>4, <3>1, <3>4, FileHasNone
      <3> QED BY <2>3, <3>2, <3>3 DEF CanDelete, src
    <2>6. tree' = Without(src)
      <3>1. src # <<>>
        BY <2>2, <2>3, PlacesAreTexts DEF IsTree
      <3>2. Delete(p, sh[p].path, Prompt(p)) /\ ~EmptyRoot(sh[p].path)
        BY <3>1 DEF MoveDelete, EmptyRoot, src
      <3>3. Change(p, Without(src), Prompt(p))
        BY <2>5, <3>2 DEF Delete, src
      <3> QED BY <3>3 DEF Change
    <2>7. src \notin DOMAIN tree' /\ tree'[dst] = tree[dst]
      BY <2>3, <2>4, <2>6, WithoutFacts
    <2>8. IsPrefix(c, tree[dst].content)
      <3>1. tree[dst].content \in Text
        BY <2>2, <2>3 DEF IsTree, Node
      <3> QED BY <2>3, <2>4, <3>1, AgreesIsPrefix
    <2> QED BY <2>4, <2>7, <2>8 DEF src, dst, c
  <1> QED BY <1>1, <1>2, <1>3, PTL DEF Spec, MoveKeepsContent

-----------------------------------------------------------------------------
(* What is below what.                                                     *)

(* The files and directories there are, by the names of their paths.       *)
Nodes == DOMAIN tree \cup {<<Proc>>, <<Dev>>}
         \cup {<<Proc, NameOf(p)>> : p \in running}
         \cup {<<Dev, name>> : name \in Range(DevNames)}

(* Those with others in them.                                              *)
Inner(n) == n \in {<<Proc>>, <<Dev>>} \/ (n \in DOMAIN tree /\ tree[n].type = "dir")

(* n is below d, somewhere.                                                *)
Within(n, d) == Len(d) < Len(n) /\ \A i \in 1..Len(d) : n[i] = d[i]
Apart(a, b) == a # b /\ ~Within(a, b) /\ ~Within(b, a)

LEMMA WithinAppend ==
    ASSUME NEW d \in Seq(Text), NEW w \in Text, NEW n \in Seq(Text)
    PROVE  /\ Within(n, Append(d, w)) <=> Within(n, d) /\ n[Len(d) + 1] = w /\ Len(n) # Len(d) + 1
           /\ Within(Append(d, w), n) <=> n = d \/ Within(d, n)
           /\ Within(Append(d, w), d)
  <1> DEFINE a == Append(d, w)
  <1>1. /\ a \in Seq(Text) /\ Len(a) = Len(d) + 1 /\ a[Len(d) + 1] = w
        /\ \A i \in 1..Len(d) : a[i] = d[i]
    BY AppendProperties
  <1>2. Len(d) \in Nat /\ Len(n) \in Nat
    OBVIOUS
  <1> HIDE DEF a
  <1>3. Within(n, a) <=> Within(n, d) /\ n[Len(d) + 1] = w /\ Len(n) # Len(d) + 1
    BY <1>1, <1>2 DEF Within
  <1>4. ASSUME Within(a, n) PROVE n = d \/ Within(d, n)
    <2>1. Len(n) < Len(a) /\ \A i \in 1..Len(n) : d[i] = n[i]
      BY <1>1, <1>2, <1>4 DEF Within
    <2>2. CASE Len(n) = Len(d)
      BY <2>1, <2>2, SeqEqual
    <2>3. CASE Len(n) # Len(d)
      BY <1>1, <1>2, <2>1, <2>3 DEF Within
    <2> QED BY <2>2, <2>3
  <1>5. Within(d, n) => Within(a, n)
    BY <1>1, <1>2 DEF Within
  <1>6. Within(a, d)
    BY <1>1, <1>2 DEF Within
  <1> QED BY <1>3, <1>4, <1>5, <1>6 DEF a

(* The names one below, and that on the way to what is further below.      *)
LEMMA WithinNext ==
    ASSUME NEW d \in Seq(Text), NEW n \in Seq(Text), Within(n, d)
    PROVE  LET c == Append(d, n[Len(d) + 1])
           IN  /\ n[Len(d) + 1] \in Text /\ c \in Seq(Text) /\ n # <<>>
               /\ \/ n = c /\ Last(n) = n[Len(d) + 1]
                  \/ Within(n, c)
  <1> DEFINE w == n[Len(d) + 1]
             c == Append(d, w)
  <1>1. Len(d) \in Nat /\ Len(n) \in Nat /\ Len(d) < Len(n) /\ \A i \in 1..Len(d) : n[i] = d[i]
    BY DEF Within
  <1>2. w \in Text
    BY <1>1
  <1>3. /\ c \in Seq(Text) /\ Len(c) = Len(d) + 1 /\ c[Len(d) + 1] = w
        /\ \A i \in 1..Len(d) : c[i] = d[i]
    BY <1>2, AppendProperties
  <1>4. n # <<>>
    BY <1>1
  <1>5. CASE Len(n) = Len(d) + 1
    <2>1. \A i \in 1..Len(n) : n[i] = c[i]
      BY <1>1, <1>3, <1>5
    <2> HIDE DEF c
    <2>2. n = c
      BY <1>3, <1>5, <2>1, SeqEqual
    <2>3. Last(n) = w
      BY <1>5 DEF Last
    <2> QED BY <1>2, <1>3, <1>4, <2>2, <2>3 DEF c
  <1>6. CASE Len(n) # Len(d) + 1
    BY <1>2, <1>3, <1>4, <1>6, WithinAppend
  <1> QED BY <1>5, <1>6

LEMMA OneLonger ==
    ASSUME NEW d \in Seq(Text), NEW n \in Seq(Text)
    PROVE  Len(n) = Len(d) + 1 /\ IsPrefix(d, n) <=> n # <<>> /\ n = Append(d, Last(n))
  <1>1. ASSUME Len(n) = Len(d) + 1, IsPrefix(d, n)
        PROVE  n # <<>> /\ n = Append(d, Last(n))
    <2>1. Len(d) \in Nat /\ Len(n) \in Nat /\ \A i \in 1..Len(d) : d[i] = n[i]
      BY PrefixMeans, <1>1
    <2>2. Within(n, d)
      BY <1>1, <2>1 DEF Within
    <2>3. ~Within(n, Append(d, n[Len(d) + 1]))
      BY <1>1, <2>1, WithinAppend
    <2> QED BY <2>2, <2>3, WithinNext
  <1>2. ASSUME n # <<>>, n = Append(d, Last(n))
        PROVE  Len(n) = Len(d) + 1 /\ IsPrefix(d, n)
    <2>1. Last(n) \in Text
      <3>1. Len(n) \in 1..Len(n)
        BY <1>2
      <3> QED BY <3>1 DEF Last
    <2>2. Len(n) = Len(d) + 1 /\ \A i \in 1..Len(d) : n[i] = d[i]
      BY <1>2, <2>1, AppendProperties
    <2> QED BY <2>2, PrefixMeans
  <1> QED BY <1>1, <1>2

LEMMA NodesArePlaces ==
    ASSUME VfsType, NEW n \in Nodes
    PROVE  n \in Places /\ n \in Seq(Text) /\ n # <<>>
  <1>1. Proc \in Name /\ Dev \in Name /\ \A i \in 1..3 : DevNames[i] \in Name
    BY NamesOfMounts
  <1>2. \A pid \in running : NameOf(pid) \in Name
    BY VfsAssumption DEF VfsType, NameOf, Name, Text
  <1>3. \A name \in Range(DevNames) : name \in Name
    BY <1>1, NamesOfMounts DEF Range
  <1>4. \A v, w \in Name : <<v>> \in Places /\ <<v, w>> \in Places
    BY DEF Places
  <1>5. n \in Places
    BY <1>1, <1>2, <1>3, <1>4 DEF Nodes, VfsType, IsTree
  <1> QED BY <1>5, PlacesAreTexts

(* What has something below it is a directory.                             *)
LEMMA TreeIsClosed ==
    ASSUME IsTree(tree)
    PROVE  \A n \in DOMAIN tree : \A c \in Seq(Text) :
              c # <<>> /\ Within(n, c) => c \in DOMAIN tree /\ tree[c].type = "dir"
  <1> DEFINE G == {n \in Seq(Text) : n \in DOMAIN tree =>
                      \A c \in Seq(Text) : c # <<>> /\ Within(n, c) =>
                          c \in DOMAIN tree /\ tree[c].type = "dir"}
  <1>1. \A n \in DOMAIN tree : n \in Seq(Text) /\ n # <<>>
    BY PlacesAreTexts DEF IsTree
  <1>2. <<>> \in G
    BY <1>1
  <1>3. ASSUME NEW s \in Seq(Text), NEW w \in Text, s \in G
        PROVE  Append(s, w) \in G
    <2> SUFFICES ASSUME Append(s, w) \in DOMAIN tree, NEW c \in Seq(Text), c # <<>>,
                        Within(Append(s, w), c)
                 PROVE  c \in DOMAIN tree /\ tree[c].type = "dir"
      OBVIOUS
    <2>1. c = s \/ Within(s, c)
      BY WithinAppend
    <2>2. Front(Append(s, w)) = s
      BY AppendFacts
    <2>3. s = <<>> \/ (s \in DOMAIN tree /\ tree[s].type = "dir")
      BY <2>2 DEF IsTree
    <2>4. s # <<>>
      <3>1. Len(c) \in Nat /\ Len(c) # 0
        OBVIOUS
      <3> QED BY <2>1, <3>1 DEF Within
    <2> QED BY <1>3, <2>1, <2>3, <2>4
  <1> HIDE DEF G
  <1>4. \A n \in Seq(Text) : n \in G
    BY <1>2, <1>3, AppendInduction
  <1> QED BY <1>1, <1>4 DEF G

LEMMA NodesAreClosed ==
    ASSUME VfsType, NEW n \in Nodes, NEW c \in Seq(Text), c # <<>>, Within(n, c)
    PROVE  c \in Nodes /\ Inner(c)
  <1>1. CASE n \in DOMAIN tree
    BY <1>1, TreeIsClosed DEF VfsType, Nodes, Inner
  <1>2. ASSUME NEW v \in Text, NEW w \in Text, n = <<v, w>>
        PROVE  c = <<v>>
    <2> DEFINE s == <<v, w>>
               r == <<v>>
    <2>1. s \in Seq(Text) /\ Len(s) = 2 /\ s[1] = v /\ r \in Seq(Text) /\ Len(r) = 1 /\ r[1] = v
      OBVIOUS
    <2> HIDE DEF s, r
    <2>2. Len(c) \in Nat /\ Len(c) # 0
      OBVIOUS
    <2>3. Len(c) < 2 /\ \A i \in 1..Len(c) : s[i] = c[i]
      BY <1>2, <2>1 DEF Within, s
    <2>4. Len(c) = 1
      <3>1. \A k \in Nat : k # 0 /\ k < 2 => k = 1
        OBVIOUS
      <3> QED BY <2>2, <2>3, <3>1
    <2>5. \A i \in 1..Len(c) : r[i] = c[i]
      BY <2>1, <2>3, <2>4
    <2>6. c = r
      BY <2>1, <2>4, <2>5, SeqEqual
    <2> QED BY <2>6 DEF r
  <1>3. ASSUME NEW v \in Text, n = <<v>>
        PROVE  FALSE
    <2> DEFINE r == <<v>>
    <2>1. Len(r) = 1
      OBVIOUS
    <2> HIDE DEF r
    <2>2. Len(c) \in Nat /\ Len(c) # 0 /\ Len(c) < 1
      BY <1>3, <2>1 DEF Within, r
    <2> QED BY <2>2
  <1>4. CASE n \notin DOMAIN tree
    <2>1. \/ n = <<Proc>> \/ n = <<Dev>>
          \/ \E w \in Text : n = <<Proc, w>>
          \/ \E w \in Text : n = <<Dev, w>>
      <3>1. \A pid \in running : NameOf(pid) \in Text
        BY VfsAssumption DEF VfsType, NameOf, Text
      <3>2. \A name \in Range(DevNames) : name \in Text
        BY NamesOfMounts DEF Range, Name
      <3> QED BY <1>4, <3>1, <3>2 DEF Nodes
    <2>2. Proc \in Text /\ Dev \in Text
      BY NamesOfMounts DEF Name
    <2>3. c = <<Proc>> \/ c = <<Dev>>
      BY <1>2, <1>3, <2>1, <2>2
    <2> QED BY <2>3 DEF Nodes, Inner
  <1> QED BY <1>1, <1>4

-----------------------------------------------------------------------------
(* What a listing has.                                                     *)

LEMMA OneName ==
    ASSUME NEW w \in Name
    PROVE  /\ <<w>> = Append(<<>>, w) /\ <<w>> \in Seq(Name) /\ <<w>> \in Seq(Text) /\ w \in Text
           /\ TextOf(<<w>>) \in Text /\ Len(TextOf(<<w>>)) = 1 + Len(w)
           /\ TextOf(<<w>>)[1] = "/"
           /\ \A i \in 1..Len(w) : TextOf(<<w>>)[1 + i] = w[i]
           /\ Words(TextOf(<<w>>)) = <<w>>
  <1>1. <<w>> = Append(<<>>, w) /\ <<w>> \in Seq(Name) /\ <<w>> \in Seq(Text) /\ w \in Text
    BY DEF Name
  <1>2. TextOf(<<w>>) = <<>> \o Slash \o w
    BY <1>1, TextOfAppend, JoinedEmpty, EmptyText
  <1> DEFINE u == <<>> \o Slash \o w
  <1>3. /\ u \in Text /\ Len(u) = Len(<<>>) + 1 + Len(w) /\ u[Len(<<>>) + 1] = "/"
        /\ \A i \in 1..Len(w) : u[Len(<<>>) + 1 + i] = w[i]
    BY <1>1, EmptyText, JoinFacts
  <1> HIDE DEF u
  <1>4. /\ Len(u) = 1 + Len(w) /\ u[1] = "/"
        /\ \A i \in 1..Len(w) : u[1 + i] = w[i]
    <2>1. Len(<<>>) = 0 /\ Len(w) \in Nat
      BY <1>1 DEF Text
    <2> QED BY <1>3, <2>1
  <1>5. Words(TextOf(<<w>>)) = <<w>>
    BY <1>1, WordsOfText
  <1> QED BY <1>1, <1>2, <1>3, <1>4, <1>5 DEF u

(* The mounts.                                                             *)
LEMMA MountTexts ==
    /\ MountPaths[1] = Slash /\ MountPaths[2] = TextOf(<<Proc>>) /\ MountPaths[3] = TextOf(<<Dev>>)
    /\ Len(MountPaths[1]) = 1 /\ Len(MountPaths[2]) = 2 /\ Len(MountPaths[3]) = 2
    /\ MountPaths[1][1] = "/" /\ MountPaths[2][1] = "/" /\ MountPaths[3][1] = "/"
    /\ MountPaths[2][2] = "proc" /\ MountPaths[3][2] = "dev"
  <1>1. MountPaths[1] = Slash /\ MountPaths[2] = TextOf(<<Proc>>) /\ MountPaths[3] = TextOf(<<Dev>>)
    BY DEF MountPaths
  <1>2. Len(Proc) = 1 /\ Proc[1] = "proc" /\ Len(Dev) = 1 /\ Dev[1] = "dev" /\ Proc \in Name /\ Dev \in Name
    BY NamesOfMounts DEF Proc, Dev
  <1> DEFINE p == TextOf(<<Proc>>)
             d == TextOf(<<Dev>>)
  <1>3. Len(p) = 1 + Len(Proc) /\ p[1] = "/" /\ \A i \in 1..Len(Proc) : p[1 + i] = Proc[i]
    BY <1>2, OneName
  <1>4. Len(d) = 1 + Len(Dev) /\ d[1] = "/" /\ \A i \in 1..Len(Dev) : d[1 + i] = Dev[i]
    BY <1>2, OneName
  <1> HIDE DEF p, d
  <1>5. Len(p) = 2 /\ p[1] = "/" /\ p[1 + 1] = "proc"
    BY <1>2, <1>3
  <1>6. Len(d) = 2 /\ d[1] = "/" /\ d[1 + 1] = "dev"
    BY <1>2, <1>4
  <1> QED BY <1>1, <1>5, <1>6, SlashFacts DEF p, d

LEMMA MountHandlers ==
    HandlerOf(TextOf(<<Proc>>)) = "proc" /\ HandlerOf(TextOf(<<Dev>>)) = "dev"
  <1>1. \A i, j \in 1..3 : IsPrefix(MountPaths[i], MountPaths[j]) <=> i = 1 \/ i = j
    <2>1. \A i \in 1..3 : MountPaths[i] \in Seq(Symbol)
      BY NamesOfMounts DEF Text
    <2>2. ASSUME NEW i \in 1..3, NEW j \in 1..3
          PROVE  IsPrefix(MountPaths[i], MountPaths[j]) <=>
                    /\ Len(MountPaths[i]) <= Len(MountPaths[j])
                    /\ \A k \in 1..Len(MountPaths[i]) : MountPaths[i][k] = MountPaths[j][k]
      <3> DEFINE m == MountPaths[i]
                 z == MountPaths[j]
      <3>1. m \in Seq(Symbol) /\ z \in Seq(Symbol)
        BY <2>1
      <3> HIDE DEF m, z
      <3>2. IsPrefix(m, z) <=> Len(m) <= Len(z) /\ \A k \in 1..Len(m) : m[k] = z[k]
        BY <3>1, PrefixMeans
      <3> QED BY <3>2 DEF m, z
    <2>3. ASSUME NEW i \in 1..3, NEW j \in 1..3
          PROVE  (/\ Len(MountPaths[i]) <= Len(MountPaths[j])
                  /\ \A k \in 1..Len(MountPaths[i]) : MountPaths[i][k] = MountPaths[j][k])
                 <=> i = 1 \/ i = j
      <3>1. CASE i = 1
        <4>1. MountPaths[j][1] = "/" /\ Len(MountPaths[j]) \in {1, 2}
          BY MountTexts
        <4> QED BY <3>1, <4>1, MountTexts
      <3>2. CASE i = j
        <4>1. Len(MountPaths[j]) \in {1, 2}
          BY MountTexts
        <4> QED BY <3>2, <4>1
      <3>3. CASE i \in {2, 3} /\ j = 1
        <4>1. Len(MountPaths[i]) = 2 /\ Len(MountPaths[j]) = 1
          BY <3>3, MountTexts
        <4> QED BY <3>3, <4>1
      <3>4. CASE i \in {2, 3} /\ j \in {2, 3} /\ i # j
        <4>1. Len(MountPaths[i]) = 2 /\ MountPaths[i][2] # MountPaths[j][2]
          BY <3>4, MountTexts
        <4> QED BY <3>4, <4>1
      <3> QED BY <3>1, <3>2, <3>3, <3>4
    <2> QED BY <2>2, <2>3
  <1>2. ASSUME NEW j \in {2, 3}
        PROVE  HandlerOf(MountPaths[j]) = Handlers[j]
    <2> DEFINE M == {i \in DOMAIN MountPaths : IsPrefix(MountPaths[i], MountPaths[j])}
               Longest(i) == \A k \in M : Len(MountPaths[k]) <= Len(MountPaths[i])
    <2>1. M = {1, j}
      BY <1>1, NamesOfMounts
    <2>2. Len(MountPaths[1]) = 1 /\ Len(MountPaths[j]) = 2
      BY MountTexts
    <2>3. HandlerOf(MountPaths[j]) = Handlers[CHOOSE i \in M : Longest(i)]
      BY <2>1 DEF HandlerOf
    <2>4. j \in M /\ Longest(j) /\ \A i \in M : Longest(i) => i = j
      <3> HIDE DEF M
      <3>1. Longest(j) /\ j \in M
        <4>1. \A k \in M : k = 1 \/ k = j
          BY <2>1
        <4>2. Len(MountPaths[1]) <= Len(MountPaths[j]) /\ Len(MountPaths[j]) <= Len(MountPaths[j])
          BY <2>2
        <4> QED BY <2>1, <4>1, <4>2
      <3>2. ~Longest(1)
        <4>1. j \in M /\ ~(Len(MountPaths[j]) <= Len(MountPaths[1]))
          BY <2>1, <2>2
        <4> QED BY <4>1
      <3> HIDE DEF Longest
      <3> QED BY <2>1, <3>1, <3>2
    <2> HIDE DEF M, Longest
    <2>5. (CHOOSE i \in M : Longest(i)) = j
      BY <2>4
    <2> QED BY <2>3, <2>5
  <1>3. Handlers[2] = "proc" /\ Handlers[3] = "dev"
    BY DEF Handlers
  <1> QED BY <1>2, <1>3, MountTexts

(* Only the root has mounts in it, two of them.                            *)
LEMMA MountsOfRoot ==
    ASSUME NEW i \in 1..3, NEW text
    PROVE  IsMountIn(i, text) <=> text = Slash /\ i \in {2, 3}
  <1>1. Proc \in Name /\ Dev \in Name /\ Proc # <<>> /\ Dev # <<>>
    BY NamesOfMounts DEF Name
  <1>2. <<Proc>> = Append(<<>>, Proc) /\ <<Dev>> = Append(<<>>, Dev)
    BY <1>1, OneName
  <1>3. /\ SplitPath(MountPaths[1]) = [dirname |-> Slash, basename |-> <<>>]
        /\ SplitPath(MountPaths[2]) = [dirname |-> Slash, basename |-> Proc]
        /\ SplitPath(MountPaths[3]) = [dirname |-> Slash, basename |-> Dev]
    BY <1>1, <1>2, SplitCanonical, MountTexts, EmptyText, TextOfEmpty
  <1>4. /\ MountSplits[1] = [dirname |-> Slash, basename |-> <<>>]
        /\ MountSplits[2] = [dirname |-> Slash, basename |-> Proc]
        /\ MountSplits[3] = [dirname |-> Slash, basename |-> Dev]
    BY <1>3, NamesOfMounts DEF MountSplits
  <1>5. i = 1 \/ i = 2 \/ i = 3
    OBVIOUS
  <1> QED BY <1>1, <1>4, <1>5 DEF IsMountIn

LEMMA MountsAre ==
    ASSUME NEW text
    PROVE  /\ text # Slash => MountsIn(text) = <<>>
           /\ text = Slash =>
                 /\ \A i \in 1..Len(MountsIn(text)) :
                       MountsIn(text)[i] \in {TextOf(<<Proc>>), TextOf(<<Dev>>)}
                 /\ \E i \in 1..Len(MountsIn(text)) : MountsIn(text)[i] = TextOf(<<Proc>>)
                 /\ \E i \in 1..Len(MountsIn(text)) : MountsIn(text)[i] = TextOf(<<Dev>>)
                 /\ \A i, j \in 1..Len(MountsIn(text)) : MountsIn(text)[i] = MountsIn(text)[j] => i = j
  <1> DEFINE B == {i \in DOMAIN MountPaths : IsMountIn(i, text)}
             q == MountsIn(text)
  <1>1. MountPaths \in Seq(Text) /\ Len(MountPaths) = 3
    BY NamesOfMounts, SlashFacts DEF MountPaths
  <1>2. B \in SUBSET (1..Len(MountPaths))
    BY <1>1
  <1>3. q = Selected(MountPaths, B)
    BY DEF MountsIn
  <1>4. \A i : i \in B <=> text = Slash /\ i \in {2, 3}
    BY <1>1, MountsOfRoot
  <1> HIDE DEF B, q
  <1>5. /\ q \in Seq(Text) /\ Len(q) = Cardinality(B) /\ Cardinality(B) \in Nat
        /\ \A x : x \in Range(q) <=> \E i \in B : x = MountPaths[i]
        /\ \A i \in 1..Len(q) : q[i] = MountPaths[Ascending(B)[i]]
    <2> DEFINE r == Selected(MountPaths, B)
    <2>1. /\ r \in Seq(Text) /\ Len(r) = Cardinality(B) /\ Cardinality(B) \in Nat
          /\ \A x : x \in Range(r) <=> \E i \in B : x = MountPaths[i]
          /\ \A i \in 1..Len(r) : r[i] = MountPaths[Ascending(B)[i]]
      <3>1. MountPaths \in Seq(Text) /\ B \in SUBSET (1..Len(MountPaths))
        BY <1>1, <1>2
      <3> QED BY <3>1, SelectedFacts
    <2>2. q = r
      BY <1>3
    <2> HIDE DEF r
    <2> QED BY <2>1, <2>2
  <1>6. CASE text # Slash
    <2>1. \A i \in 1..Len(q) : q[i] \in Range(q)
      BY <1>5, IndicesOf
    <2>2. Len(q) = 0
      BY <1>4, <1>5, <1>6, <2>1
    <2>3. q = <<>>
      BY <1>5, <2>2
    <2> QED BY <1>6, <2>3 DEF q
  <1>7. CASE text = Slash
    <2>1. \A x : x \in Range(q) <=> x \in {TextOf(<<Proc>>), TextOf(<<Dev>>)}
      BY <1>4, <1>5, <1>7, MountTexts
    <2>2. DOMAIN q = 1..Len(q) /\ \A i \in 1..Len(q) : q[i] \in Range(q)
      BY <1>5, IndicesOf
    <2>3. \A x \in Range(q) : \E i \in 1..Len(q) : q[i] = x
      BY <2>2 DEF Range
    <2>4. ASSUME NEW i \in 1..Len(q), NEW j \in 1..Len(q), q[i] = q[j]
          PROVE  i = j
      <3> DEFINE a == Ascending(B)
                 m == Cardinality(B)
                 N == Len(MountPaths)
      <3>1. m \in Nat /\ IsAscending(a, m, B)
        <4>1. N \in Nat /\ B \in SUBSET (1..N)
          BY <1>1, <1>2
        <4> HIDE DEF N
        <4> QED BY <4>1, AscendingFacts
      <3> HIDE DEF a, m
      <3>2. i \in 1..m /\ j \in 1..m
        BY <1>5 DEF m
      <3>3. a[i] \in B /\ a[j] \in B /\ (i < j => a[i] < a[j]) /\ (j < i => a[j] < a[i])
        BY <3>1, <3>2 DEF IsAscending
      <3>4. MountPaths[a[i]] = MountPaths[a[j]]
        BY <1>5, <2>4 DEF a
      <3>5. MountPaths[2] # MountPaths[3]
        BY MountTexts
      <3>6. a[i] = a[j]
        BY <1>4, <3>3, <3>4, <3>5
      <3>7. a[i] \in Nat /\ i \in Nat /\ j \in Nat
        BY <1>4, <3>2, <3>3
      <3> QED BY <3>3, <3>6, <3>7
    <2> QED BY <1>7, <2>1, <2>2, <2>3, <2>4 DEF q
  <1> QED BY <1>6, <1>7

LEMMA MountStats ==
    ASSUME VfsType
    PROVE  /\ HandlerStat(TextOf(<<Proc>>)).name = Proc /\ HandlerStat(TextOf(<<Proc>>)).type = "dir"
           /\ HandlerStat(TextOf(<<Dev>>)).name = Dev /\ HandlerStat(TextOf(<<Dev>>)).type = "dir"
  <1>1. HandlerStat(TextOf(<<Proc>>)) = ProcStat(TextOf(<<Proc>>))
    BY MountHandlers DEF HandlerStat
  <1>2. HandlerStat(TextOf(<<Dev>>)) = DevStat(TextOf(<<Dev>>))
    BY MountHandlers DEF HandlerStat
  <1>3. ProcStat(TextOf(<<Proc>>)).name = Proc /\ ProcStat(TextOf(<<Proc>>)).type = "dir"
    BY DEF ProcStat, Directory
  <1>4. DevStat(TextOf(<<Dev>>)).name = Dev /\ DevStat(TextOf(<<Dev>>)).type = "dir"
    BY DEF DevStat, Directory
  <1> QED BY <1>1, <1>2, <1>3, <1>4

(* e has what is in d, each once, and says of the directories that they    *)
(* are.                                                                    *)
ListsAll(e, d) ==
    /\ \A i \in 1..Len(e) : /\ Append(d, e[i].name) \in Nodes
                            /\ e[i].type = "dir" => Inner(Append(d, e[i].name))
    /\ \A i, j \in 1..Len(e) : e[i].name = e[j].name => i = j
    /\ \A w \in Text : Append(d, w) \in Nodes =>
          \E i \in 1..Len(e) : e[i].name = w /\ (Inner(Append(d, w)) => e[i].type = "dir")

LEMMA NoTreeAtMounts ==
    ASSUME VfsType
    PROVE  /\ <<Proc>> \notin DOMAIN tree /\ <<Dev>> \notin DOMAIN tree
           /\ \A w \in Text : Append(<<Proc>>, w) \notin DOMAIN tree
           /\ \A w \in Text : Append(<<Dev>>, w) \notin DOMAIN tree
  <1>1. <<Proc>> \notin DOMAIN tree /\ <<Dev>> \notin DOMAIN tree
    BY MountHandlers DEF VfsType, IsTree
  <1>2. ASSUME NEW v \in Name, NEW w \in Text, Append(<<v>>, w) \in DOMAIN tree
        PROVE  <<v>> \in DOMAIN tree
    <2>1. <<v>> \in Seq(Text) /\ <<v>> # <<>>
      BY OneName
    <2>2. Front(Append(<<v>>, w)) = <<v>>
      BY <2>1, AppendFacts
    <2> QED BY <1>2, <2>1, <2>2 DEF VfsType, IsTree
  <1> QED BY <1>1, <1>2, NamesOfMounts

LEMMA SameEnds ==
    ASSUME NEW d \in Seq(Text), NEW v \in Text, NEW e \in Seq(Text), NEW w \in Text,
           Append(d, v) = Append(e, w)
    PROVE  d = e /\ v = w
  BY AppendFacts

(* What is in a directory, by file system.                                 *)
LEMMA NodesIn ==
    ASSUME VfsType, NEW d \in Seq(Text), NEW w \in Text
    PROVE  Append(d, w) \in Nodes <=>
              \/ Append(d, w) \in DOMAIN tree
              \/ d = <<>> /\ w \in {Proc, Dev}
              \/ d = <<Proc>> /\ \E pid \in running : w = NameOf(pid)
              \/ d = <<Dev>> /\ w \in Range(DevNames)
  <1>1. /\ Proc \in Text /\ Dev \in Text /\ <<Proc>> \in Seq(Text) /\ <<Dev>> \in Seq(Text)
        /\ <<Proc>> = Append(<<>>, Proc) /\ <<Dev>> = Append(<<>>, Dev) /\ <<>> \in Seq(Text)
    BY NamesOfMounts, OneName
  <1>2. \A pid \in running : NameOf(pid) \in Text
    BY VfsAssumption DEF VfsType, NameOf, Text
  <1>3. \A name \in Range(DevNames) : name \in Text
    BY NamesOfMounts DEF Range, Name
  <1>4. \A u \in Text : <<Proc, u>> = Append(<<Proc>>, u) /\ <<Dev, u>> = Append(<<Dev>>, u)
    <2>1. ASSUME NEW v \in Text, NEW u \in Text
          PROVE  <<v, u>> = Append(<<v>>, u)
      OBVIOUS
    <2> QED BY <1>1, <2>1
  <1>5. ASSUME NEW e \in Seq(Text), NEW u \in Text
        PROVE  Append(d, w) = Append(e, u) <=> d = e /\ w = u
    BY SameEnds
  <1>6. Append(d, w) = <<Proc>> <=> d = <<>> /\ w = Proc
    BY <1>1, <1>5
  <1>7. Append(d, w) = <<Dev>> <=> d = <<>> /\ w = Dev
    BY <1>1, <1>5
  <1>8. \A u \in Text : Append(d, w) = <<Proc, u>> <=> d = <<Proc>> /\ w = u
    BY <1>1, <1>4, <1>5
  <1>9. \A u \in Text : Append(d, w) = <<Dev, u>> <=> d = <<Dev>> /\ w = u
    BY <1>1, <1>4, <1>5
  <1>10. (\E pid \in running : Append(d, w) = <<Proc, NameOf(pid)>>)
         <=> d = <<Proc>> /\ \E pid \in running : w = NameOf(pid)
    BY <1>2, <1>8
  <1>11. (\E name \in Range(DevNames) : Append(d, w) = <<Dev, name>>)
         <=> d = <<Dev>> /\ w \in Range(DevNames)
    BY <1>3, <1>9
  <1>12. Append(d, w) \in Nodes <=>
            \/ Append(d, w) \in DOMAIN tree
            \/ Append(d, w) = <<Proc>> \/ Append(d, w) = <<Dev>>
            \/ \E pid \in running : Append(d, w) = <<Proc, NameOf(pid)>>
            \/ \E name \in Range(DevNames) : Append(d, w) = <<Dev, name>>
    BY DEF Nodes
  <1> HIDE DEF Nodes
  <1> QED BY <1>6, <1>7, <1>10, <1>11, <1>12

(* The entries of the disk.                                                *)
LEMMA FatComplete ==
    ASSUME VfsType, NEW d \in Seq(Text)
    PROVE  LET q == FatDirStat(d)
           IN  /\ q \in Seq(EntryType) /\ Len(q) \in Nat
               /\ \A i \in 1..Len(q) : /\ Append(d, q[i].name) \in DOMAIN tree /\ q[i].name \in Text
                                       /\ q[i].type = tree[Append(d, q[i].name)].type
               /\ \A i, j \in 1..Len(q) : q[i].name = q[j].name => i = j
               /\ \A w \in Text : Append(d, w) \in DOMAIN tree =>
                     \E i \in 1..Len(q) : q[i].name = w /\ q[i].type = tree[Append(d, w)].type
  <1> DEFINE q == FatDirStat(d)
             S == {FatStat(c) : c \in Children(d)}
  <1>1. /\ q \in Seq(EntryType) /\ Range(q) = S
        /\ \A i, j \in DOMAIN q : q[i].name = q[j].name => i = j
    BY FatListing DEF VfsType
  <1>2. ASSUME NEW c
        PROVE  c \in Children(d) <=> c \in DOMAIN tree /\ c = Append(d, Last(c))
    <2>1. c \in DOMAIN tree => c \in Seq(Text) /\ c # <<>>
      BY PlacesAreTexts DEF VfsType, IsTree
    <2> QED BY <2>1, OneLonger DEF Children
  <1>3. \A c \in DOMAIN tree : c \in Seq(Text) /\ FatStat(c).name = Last(c) /\ FatStat(c).type = tree[c].type
    BY PlacesAreTexts, FatStatFacts DEF VfsType, IsTree
  <1> HIDE DEF q, S
  <1>4. DOMAIN q = 1..Len(q) /\ Len(q) \in Nat /\ \A i \in 1..Len(q) : q[i] \in Range(q)
    BY <1>1, IndicesOf
  <1>5. ASSUME NEW i \in 1..Len(q)
        PROVE  /\ Append(d, q[i].name) \in DOMAIN tree /\ q[i].name \in Text
               /\ q[i].type = tree[Append(d, q[i].name)].type
    <2>1. PICK c \in Children(d) : q[i] = FatStat(c)
      BY <1>1, <1>4 DEF S
    <2>2. q[i] \in EntryType
      BY <1>1
    <2>3. q[i].name \in Text
      BY <2>2, EmptyText DEF EntryType, Name
    <2> QED BY <1>2, <1>3, <2>1, <2>3
  <1>6. ASSUME NEW w \in Text, Append(d, w) \in DOMAIN tree
        PROVE  \E i \in 1..Len(q) : q[i].name = w /\ q[i].type = tree[Append(d, w)].type
    <2> DEFINE c == Append(d, w)
    <2>1. Last(c) = w
      BY AppendFacts
    <2> HIDE DEF c
    <2>2. c \in Children(d)
      BY <1>2, <1>6, <2>1 DEF c
    <2>3. FatStat(c) \in Range(q) /\ FatStat(c).name = w /\ FatStat(c).type = tree[c].type
      BY <1>1, <1>2, <1>3, <2>1, <2>2 DEF S
    <2>4. PICK i \in 1..Len(q) : q[i] = FatStat(c)
      BY <1>4, <2>3 DEF Range
    <2> QED BY <2>3, <2>4 DEF c
  <1> QED BY <1>1, <1>4, <1>5, <1>6 DEF q

LEMMA ProcComplete ==
    ASSUME VfsType
    PROVE  LET q == ProcDirStat
           IN  /\ q \in Seq(EntryType) /\ Len(q) \in Nat
               /\ \A i \in 1..Len(q) : q[i].type = "file" /\ \E pid \in running : q[i].name = NameOf(pid)
               /\ \A i, j \in 1..Len(q) : q[i].name = q[j].name => i = j
               /\ \A pid \in running : \E i \in 1..Len(q) : q[i].name = NameOf(pid)
  <1> DEFINE q == ProcDirStat
             S == {File(NameOf(pid), 0) : pid \in running}
  <1>1. q \in Seq(EntryType) /\ Range(q) = S /\ IsInjective(q)
    <2>1. <<>> \in Text
      BY EmptyText
    <2> QED BY <2>1, ProcFacts
  <1>2. \A pid : File(NameOf(pid), 0).name = NameOf(pid)
    BY DEF File
  <1>5. \A x \in S : x = File(x.name, 0)
    BY <1>2
  <1> HIDE DEF q
  <1>3. DOMAIN q = 1..Len(q) /\ Len(q) \in Nat /\ \A i \in 1..Len(q) : q[i] \in Range(q)
    BY <1>1, IndicesOf
  <1>4. \A x \in Range(q) : \E i \in 1..Len(q) : q[i] = x
    BY <1>3 DEF Range
  <1>9. \A x \in S : x.type = "file"
    BY DEF File
  <1>6. \A i \in 1..Len(q) : q[i].type = "file" /\ \E pid \in running : q[i].name = NameOf(pid)
    BY <1>1, <1>2, <1>3, <1>9
  <1>7. \A pid \in running : \E i \in 1..Len(q) : q[i].name = NameOf(pid)
    <2> SUFFICES ASSUME NEW pid \in running PROVE \E i \in 1..Len(q) : q[i].name = NameOf(pid)
      OBVIOUS
    <2>1. File(NameOf(pid), 0) \in Range(q)
      BY <1>1
    <2> QED BY <1>2, <1>4, <2>1
  <1>8. ASSUME NEW i \in 1..Len(q), NEW j \in 1..Len(q), q[i].name = q[j].name
        PROVE  i = j
    <2>1. q[i] = q[j]
      BY <1>1, <1>3, <1>5, <1>8
    <2> QED BY <1>1, <1>3, <2>1 DEF IsInjective
  <1> QED BY <1>1, <1>3, <1>6, <1>7, <1>8 DEF q

LEMMA DevComplete ==
    LET q == DevDirStat
    IN  /\ q \in Seq(EntryType) /\ Len(q) \in Nat
        /\ \A i \in 1..Len(q) : q[i].name \in Range(DevNames) /\ q[i].type = "file"
        /\ \A i, j \in 1..Len(q) : q[i].name = q[j].name => i = j
        /\ \A w \in Range(DevNames) : \E i \in 1..Len(q) : q[i].name = w
  <1> DEFINE q == DevDirStat
  <1>1. q \in Seq(EntryType) /\ Len(q) = 3 /\ \A i \in 1..3 : q[i] = File(DevNames[i], 0)
    BY SlashFacts, DevFacts
  <1>2. \A i \in 1..3 : q[i].name = DevNames[i] /\ q[i].type = "file"
    BY <1>1 DEF File
  <1> HIDE DEF q
  <1>3. DOMAIN DevNames = 1..3
    BY NamesOfMounts
  <1>4. \A i, j \in 1..3 : DevNames[i] = DevNames[j] => i = j
    BY DEF DevNames
  <1> QED BY <1>1, <1>2, <1>3, <1>4 DEF Range, q

LEMMA InnerOf ==
    ASSUME NEW d \in Seq(Text), NEW w \in Text
    PROVE  Inner(Append(d, w)) <=>
              \/ Append(d, w) \in DOMAIN tree /\ tree[Append(d, w)].type = "dir"
              \/ d = <<>> /\ w \in {Proc, Dev}
  <1>1. /\ Proc \in Text /\ Dev \in Text /\ <<>> \in Seq(Text)
        /\ <<Proc>> = Append(<<>>, Proc) /\ <<Dev>> = Append(<<>>, Dev)
    BY NamesOfMounts, OneName
  <1>2. ASSUME NEW e \in Seq(Text), NEW u \in Text
        PROVE  Append(d, w) = Append(e, u) <=> d = e /\ w = u
    BY SameEnds
  <1>3. Append(d, w) = <<Proc>> <=> d = <<>> /\ w = Proc
    BY <1>1, <1>2
  <1>4. Append(d, w) = <<Dev>> <=> d = <<>> /\ w = Dev
    BY <1>1, <1>2
  <1> QED BY <1>3, <1>4 DEF Inner

(* The entries of the file system itself.                                  *)
Own(text) ==
    CASE HandlerOf(text) = "fat32" -> FatDirStat(Words(text))
      [] HandlerOf(text) = "proc" -> ProcDirStat
      [] HandlerOf(text) = "dev" -> DevDirStat

LEMMA ListedBelowRoot ==
    ASSUME NEW dir, dir # Slash, HandlerStat(dir).type = "dir", NEW X, Own(dir) \in Seq(X)
    PROVE  DirStat(dir) = Own(dir)
  <1> DEFINE mounts == MountsIn(dir)
             m == [i \in DOMAIN mounts |-> HandlerStat(mounts[i])]
             o == Own(dir)
  <1>1. mounts = <<>>
    BY MountsAre
  <1>2. DirStat(dir) = o \o m
    BY DEF DirStat, Own
  <1>3. m = <<>>
    BY <1>1
  <1> HIDE DEF m, o
  <1>4. o \o <<>> = o
    BY DEF o
  <1> QED BY <1>2, <1>3, <1>4 DEF o

LEMMA FatListsAll ==
    ASSUME VfsType, NEW dir \in Canonical, HandlerStat(dir).type = "dir",
           HandlerOf(dir) = "fat32", dir # Slash
    PROVE  ListsAll(DirStat(dir), Words(dir))
  <1> DEFINE d == Words(dir)
             q == FatDirStat(d)
  <1>1. d \in Seq(Text) /\ d # <<>> /\ TextOf(d) = dir
    BY CanonicalFacts, NamesAreText
  <1>2. d # <<Proc>> /\ d # <<Dev>>
    BY <1>1, MountHandlers
  <1> HIDE DEF d
  <1>3. /\ q \in Seq(EntryType) /\ Len(q) \in Nat
        /\ \A i \in 1..Len(q) : /\ Append(d, q[i].name) \in DOMAIN tree /\ q[i].name \in Text
                                /\ q[i].type = tree[Append(d, q[i].name)].type
        /\ \A i, j \in 1..Len(q) : q[i].name = q[j].name => i = j
        /\ \A w \in Text : Append(d, w) \in DOMAIN tree =>
              \E i \in 1..Len(q) : q[i].name = w /\ q[i].type = tree[Append(d, w)].type
    BY <1>1, FatComplete
  <1>4. DirStat(dir) = q
    BY <1>3, ListedBelowRoot DEF Own, d
  <1> HIDE DEF q
  <1>5. \A w \in Text : /\ Append(d, w) \in Nodes <=> Append(d, w) \in DOMAIN tree
                        /\ Inner(Append(d, w)) <=> /\ Append(d, w) \in DOMAIN tree
                                                   /\ tree[Append(d, w)].type = "dir"
    BY <1>1, <1>2, NodesIn, InnerOf
  <1>6. ListsAll(q, d)
    BY <1>3, <1>5 DEF ListsAll
  <1> QED BY <1>4, <1>6 DEF d

LEMMA ProcListsAll ==
    ASSUME VfsType, NEW dir \in Canonical, HandlerStat(dir).type = "dir",
           HandlerOf(dir) = "proc"
    PROVE  ListsAll(DirStat(dir), Words(dir))
  <1> DEFINE d == Words(dir)
             q == ProcDirStat
  <1>1. d \in Seq(Name) /\ TextOf(d) = dir
    BY CanonicalFacts
  <1>2. HandlerStat(dir) = ProcStat(dir)
    BY DEF HandlerStat
  <1>3. d = <<Proc>>
    <2>1. dir \in Text
      BY CanonicalFacts
    <2>2. dir = TextOf(<<Proc>>)
      BY <1>2, <2>1, ProcFacts
    <2>3. Words(TextOf(<<Proc>>)) = <<Proc>>
      BY NamesOfMounts, OneName
    <2> QED BY <2>2, <2>3
  <1>4. Proc \in Name /\ Dev \in Name /\ Proc # Dev
    BY NamesOfMounts DEF Proc, Dev
  <1>5. d # <<>> /\ d # <<Dev>> /\ d \in Seq(Text) /\ dir # Slash
    <2>1. \A v : <<v>> # <<>> /\ (v # Dev => <<v>> # <<Dev>>)
      OBVIOUS
    <2>2. d # <<>> /\ d # <<Dev>>
      BY <1>3, <1>4, <2>1
    <2>3. d \in Seq(Text)
      BY <1>1, NamesAreText
    <2> QED BY <2>2, <2>3, WordsOfSlash
  <1> HIDE DEF d
  <1>6. /\ q \in Seq(EntryType) /\ Len(q) \in Nat
        /\ \A i \in 1..Len(q) : q[i].type = "file" /\ \E pid \in running : q[i].name = NameOf(pid)
        /\ \A i, j \in 1..Len(q) : q[i].name = q[j].name => i = j
        /\ \A pid \in running : \E i \in 1..Len(q) : q[i].name = NameOf(pid)
    BY ProcComplete
  <1>7. DirStat(dir) = q
    BY <1>5, <1>6, ListedBelowRoot DEF Own
  <1> HIDE DEF q
  <1>8. \A w \in Text : /\ Append(d, w) \in Nodes <=> \E pid \in running : w = NameOf(pid)
                        /\ ~Inner(Append(d, w))
    BY <1>3, <1>5, NodesIn, InnerOf, NoTreeAtMounts
  <1>9. \A pid \in running : NameOf(pid) \in Text
    BY VfsAssumption DEF VfsType, NameOf, Text
  <1>10. ListsAll(q, d)
    BY <1>6, <1>8, <1>9 DEF ListsAll
  <1> QED BY <1>7, <1>10 DEF d

LEMMA DevListsAll ==
    ASSUME VfsType, NEW dir \in Canonical, HandlerStat(dir).type = "dir",
           HandlerOf(dir) = "dev"
    PROVE  ListsAll(DirStat(dir), Words(dir))
  <1> DEFINE d == Words(dir)
             q == DevDirStat
  <1>1. d \in Seq(Name) /\ TextOf(d) = dir /\ dir \in Text
    BY CanonicalFacts
  <1>2. HandlerStat(dir) = DevStat(dir)
    BY DEF HandlerStat
  <1>3. dir = TextOf(<<Dev>>)
    BY <1>1, <1>2, DevFacts
  <1>4. Proc \in Name /\ Dev \in Name /\ Proc # Dev
    BY NamesOfMounts DEF Proc, Dev
  <1>5. d = <<Dev>>
    BY <1>3, <1>4, OneName
  <1>6. d # <<>> /\ d # <<Proc>> /\ d \in Seq(Text) /\ dir # Slash
    <2>1. \A v : <<v>> # <<>> /\ (v # Proc => <<v>> # <<Proc>>)
      OBVIOUS
    <2>2. d # <<>> /\ d # <<Proc>>
      BY <1>4, <1>5, <2>1
    <2>3. d \in Seq(Text)
      BY <1>1, NamesAreText
    <2> QED BY <2>2, <2>3, WordsOfSlash
  <1> HIDE DEF d
  <1>7. /\ q \in Seq(EntryType) /\ Len(q) \in Nat
        /\ \A i \in 1..Len(q) : q[i].name \in Range(DevNames) /\ q[i].type = "file"
        /\ \A i, j \in 1..Len(q) : q[i].name = q[j].name => i = j
        /\ \A w \in Range(DevNames) : \E i \in 1..Len(q) : q[i].name = w
    BY DevComplete
  <1>8. DirStat(dir) = q
    BY <1>6, <1>7, ListedBelowRoot DEF Own
  <1> HIDE DEF q
  <1>9. \A w \in Text : /\ Append(d, w) \in Nodes <=> w \in Range(DevNames)
                        /\ ~Inner(Append(d, w))
    BY <1>5, <1>6, NodesIn, InnerOf, NoTreeAtMounts
  <1>10. \A name \in Range(DevNames) : name \in Text
    BY NamesOfMounts DEF Range, Name
  <1>11. ListsAll(q, d)
    BY <1>7, <1>9, <1>10 DEF ListsAll
  <1> QED BY <1>8, <1>11 DEF d

(* The root, with the mounts behind its own entries.                       *)
LEMMA RootListsAll ==
    ASSUME VfsType, HandlerStat(Slash).type = "dir", HandlerOf(Slash) = "fat32"
    PROVE  ListsAll(DirStat(Slash), <<>>)
  <1> DEFINE d == <<>>
             q == FatDirStat(d)
             mounts == MountsIn(Slash)
             m == [i \in DOMAIN mounts |-> HandlerStat(mounts[i])]
             e == q \o m
  <1>1. d \in Seq(Text) /\ Words(Slash) = d /\ d = <<>>
    BY WordsOfSlash, EmptyText
  <1> HIDE DEF d
  <1>2. /\ q \in Seq(EntryType) /\ Len(q) \in Nat
        /\ \A i \in 1..Len(q) : /\ Append(d, q[i].name) \in DOMAIN tree /\ q[i].name \in Text
                                /\ q[i].type = tree[Append(d, q[i].name)].type
        /\ \A i, j \in 1..Len(q) : q[i].name = q[j].name => i = j
        /\ \A w \in Text : Append(d, w) \in DOMAIN tree =>
              \E i \in 1..Len(q) : q[i].name = w /\ q[i].type = tree[Append(d, w)].type
    BY <1>1, FatComplete
  <1>3. DirStat(Slash) = e
    BY <1>1 DEF DirStat
  <1>4. mounts \in Seq(Text) /\ Len(mounts) \in Nat /\ DOMAIN mounts = 1..Len(mounts)
    BY MountsFacts, IndicesOf
  <1>5. /\ \A i \in 1..Len(mounts) : mounts[i] \in {TextOf(<<Proc>>), TextOf(<<Dev>>)}
        /\ \E i \in 1..Len(mounts) : mounts[i] = TextOf(<<Proc>>)
        /\ \E i \in 1..Len(mounts) : mounts[i] = TextOf(<<Dev>>)
        /\ \A i, j \in 1..Len(mounts) : mounts[i] = mounts[j] => i = j
    BY MountsAre
  <1>6. Proc \in Text /\ Dev \in Text /\ Proc # Dev
    BY NamesOfMounts DEF Proc, Dev, Name
  <1> HIDE DEF mounts
  <1>7. \A i \in 1..Len(mounts) : m[i] \in EntryType
    BY <1>4, <1>5, HandlerStatType, NamesOfMounts
  <1>8. m \in Seq(EntryType) /\ Len(m) = Len(mounts)
    BY <1>4, <1>7
  <1>9. \A i \in 1..Len(m) : m[i] = HandlerStat(mounts[i])
    BY <1>4, <1>8
  <1> HIDE DEF m
  <1>10. /\ \A i \in 1..Len(m) : m[i].name \in {Proc, Dev} /\ m[i].type = "dir"
         /\ \E i \in 1..Len(m) : m[i].name = Proc
         /\ \E i \in 1..Len(m) : m[i].name = Dev
    BY <1>5, <1>8, <1>9, MountStats
  <1>11. \A i, j \in 1..Len(m) : m[i].name = m[j].name => i = j
    BY <1>5, <1>6, <1>8, <1>9, MountStats
  <1> HIDE DEF q
  <1>12. /\ e \in Seq(EntryType) /\ Len(e) = Len(q) + Len(m)
         /\ \A i \in 1..Len(q) : i \in 1..Len(e) /\ e[i] = q[i]
         /\ \A i \in 1..Len(m) : Len(q) + i \in 1..Len(e) /\ e[Len(q) + i] = m[i]
         /\ \A i \in 1..Len(e) : \/ i \in 1..Len(q)
                                 \/ i - Len(q) \in 1..Len(m) /\ i = Len(q) + (i - Len(q))
    <2>1. q \in Seq(EntryType) /\ m \in Seq(EntryType)
      BY <1>2, <1>8
    <2> QED BY <2>1, JoinSeqs
  <1> HIDE DEF e
  <1>13. \A i \in 1..Len(e) : \/ i \in 1..Len(q) /\ e[i] = q[i]
                              \/ i - Len(q) \in 1..Len(m) /\ e[i] = m[i - Len(q)]
    BY <1>12
  <1>14. /\ \A i \in 1..Len(q) : i \in 1..Len(e) /\ e[i] = q[i]
         /\ \A i \in 1..Len(m) : \E j \in 1..Len(e) : e[j] = m[i]
    BY <1>12
  <1>15. \A w \in Text : /\ Append(d, w) \in Nodes <=> Append(d, w) \in DOMAIN tree \/ w \in {Proc, Dev}
                         /\ Inner(Append(d, w)) <=> \/ /\ Append(d, w) \in DOMAIN tree
                                                       /\ tree[Append(d, w)].type = "dir"
                                                    \/ w \in {Proc, Dev}
    <2>1. d # <<Proc>> /\ d # <<Dev>>
      BY <1>1
    <2> QED BY <1>1, <2>1, NodesIn, InnerOf
  <1>16. Append(d, Proc) \notin DOMAIN tree /\ Append(d, Dev) \notin DOMAIN tree
    <2>1. <<Proc>> = Append(<<>>, Proc) /\ <<Dev>> = Append(<<>>, Dev)
      BY NamesOfMounts, OneName
    <2>2. <<Proc>> \notin DOMAIN tree /\ <<Dev>> \notin DOMAIN tree
      BY NoTreeAtMounts
    <2> QED BY <1>1, <2>1, <2>2
  <1>17. \A i \in 1..Len(e) : /\ Append(d, e[i].name) \in Nodes
                              /\ e[i].type = "dir" => Inner(Append(d, e[i].name))
    <2> SUFFICES ASSUME NEW i \in 1..Len(e)
                 PROVE  /\ Append(d, e[i].name) \in Nodes
                        /\ e[i].type = "dir" => Inner(Append(d, e[i].name))
      OBVIOUS
    <2>1. CASE i \in 1..Len(q) /\ e[i] = q[i]
      BY <1>2, <1>15, <2>1
    <2>2. CASE i - Len(q) \in 1..Len(m) /\ e[i] = m[i - Len(q)]
      BY <1>6, <1>10, <1>15, <2>2
    <2> QED BY <1>13, <2>1, <2>2
  <1>18. ASSUME NEW i \in 1..Len(e), NEW j \in 1..Len(e), e[i].name = e[j].name
         PROVE  i = j
    <2>1. CASE i \in 1..Len(q) /\ j \in 1..Len(q)
      BY <1>2, <1>14, <1>18, <2>1
    <2>2. CASE i - Len(q) \in 1..Len(m) /\ j - Len(q) \in 1..Len(m) /\ e[i] = m[i - Len(q)] /\ e[j] = m[j - Len(q)]
      <3>1. i - Len(q) = j - Len(q)
        BY <1>11, <1>18, <2>2
      <3> QED BY <1>2, <3>1
    <2>3. ASSUME NEW a \in 1..Len(q), NEW b \in 1..Len(m), q[a].name = m[b].name
          PROVE  FALSE
      BY <1>2, <1>10, <1>16, <2>3
    <2>4. CASE i \in 1..Len(q) /\ j - Len(q) \in 1..Len(m) /\ e[j] = m[j - Len(q)]
      BY <1>14, <1>18, <2>3, <2>4
    <2>5. CASE i - Len(q) \in 1..Len(m) /\ j \in 1..Len(q) /\ e[i] = m[i - Len(q)]
      BY <1>14, <1>18, <2>3, <2>5
    <2> QED BY <1>13, <2>1, <2>2, <2>4, <2>5
  <1>19. ASSUME NEW w \in Text, Append(d, w) \in Nodes
         PROVE  \E i \in 1..Len(e) : e[i].name = w /\ (Inner(Append(d, w)) => e[i].type = "dir")
    <2>1. CASE w \in {Proc, Dev}
      <3>1. PICK i \in 1..Len(m) : m[i].name = w
        BY <1>10, <2>1
      <3>2. PICK j \in 1..Len(e) : e[j] = m[i]
        BY <1>14
      <3> QED BY <1>10, <3>1, <3>2
    <2>2. CASE w \notin {Proc, Dev}
      <3>1. Append(d, w) \in DOMAIN tree
        BY <1>15, <1>19, <2>2
      <3>2. PICK i \in 1..Len(q) : q[i].name = w /\ q[i].type = tree[Append(d, w)].type
        BY <1>2, <3>1
      <3> QED BY <1>14, <1>15, <2>2, <3>2
    <2> QED BY <2>1, <2>2
  <1>20. ListsAll(e, d)
    <2>1. \A i, j \in 1..Len(e) : e[i].name = e[j].name => i = j
      BY <1>18
    <2>2. \A w \in Text : Append(d, w) \in Nodes =>
             \E i \in 1..Len(e) : e[i].name = w /\ (Inner(Append(d, w)) => e[i].type = "dir")
      BY <1>19
    <2> QED BY <1>17, <2>1, <2>2, Zenon DEF ListsAll
  <1> QED BY <1>1, <1>3, <1>20

(* A path is that of no mount if something follows its first slash that    *)
(* cannot be the name of one.                                              *)
LEMMA FatUnlessMount ==
    ASSUME NEW path \in Text, Len(path) >= 1, path[1] = "/", Len(path) >= 2 => path[2] = "/"
    PROVE  HandlerOf(path) = "fat32"
  <1> DEFINE M == {i \in DOMAIN MountPaths : IsPrefix(MountPaths[i], path)}
             Longest(i) == \A k \in M : Len(MountPaths[k]) <= Len(MountPaths[i])
  <1>1. ASSUME NEW i \in 1..3
        PROVE  IsPrefix(MountPaths[i], path) <=> i = 1
    <2> DEFINE m == MountPaths[i]
    <2>1. m \in Seq(Symbol) /\ path \in Seq(Symbol)
      BY NamesOfMounts DEF Text
    <2>2. /\ i = 1 => Len(m) = 1 /\ m[1] = "/"
          /\ i # 1 => Len(m) = 2 /\ m[2] \in {"proc", "dev"}
      BY MountTexts
    <2> HIDE DEF m
    <2>3. IsPrefix(m, path) <=> Len(m) <= Len(path) /\ \A k \in 1..Len(m) : m[k] = path[k]
      BY <2>1, PrefixMeans
    <2>4. ASSUME i = 1 PROVE IsPrefix(m, path)
      <3>1. Len(m) = 1 /\ m[1] = path[1] /\ \A k \in 1..1 : k = 1
        BY <2>2, <2>4
      <3>2. Len(m) <= Len(path) /\ \A k \in 1..Len(m) : m[k] = path[k]
        BY <3>1
      <3> QED BY <2>3, <2>4, <3>2
    <2>5. ASSUME i # 1 PROVE ~IsPrefix(m, path)
      <3>1. Len(m) = 2 /\ 2 \in 1..2 /\ m[2] # "/"
        BY <2>2, <2>5
      <3>2. ASSUME Len(m) <= Len(path) /\ \A k \in 1..Len(m) : m[k] = path[k] PROVE FALSE
        <4>1. m[2] = path[2] /\ 2 <= Len(path) /\ Len(path) \in Nat
          BY <3>1, <3>2
        <4>2. path[2] = "/"
          BY <4>1
        <4> QED BY <3>1, <4>1, <4>2
      <3> QED BY <2>3, <2>5, <3>2
    <2> QED BY <2>4, <2>5 DEF m
  <1>2. M = {1}
    BY <1>1, NamesOfMounts
  <1>3. HandlerOf(path) = Handlers[CHOOSE i \in M : Longest(i)]
    BY <1>2 DEF HandlerOf
  <1>4. 1 \in M /\ Longest(1) /\ \A i \in M : i = 1
    <2> HIDE DEF M
    <2>1. Len(MountPaths[1]) <= Len(MountPaths[1])
      BY MountTexts
    <2> QED BY <1>2, <2>1
  <1> HIDE DEF M, Longest
  <1>5. (CHOOSE i \in M : Longest(i)) = 1
    BY <1>4
  <1>6. Handlers[1] = "fat32"
    BY DEF Handlers
  <1> QED BY <1>3, <1>5, <1>6

LEMMA RootIsFat ==
    HandlerOf(Slash) = "fat32"
  BY FatUnlessMount, SlashFacts

LEMMA SlashIsDirectory ==
    ASSUME VfsType
    PROVE  Stat(Slash).type = "dir"
  <1>1. FatStat(Words(Slash)).type = "dir"
    BY WordsOfSlash DEF FatStat, IsDirectory, Directory
  <1>2. HandlerStat(Slash).type = "dir" /\ Slash \in Text
    BY <1>1, RootIsFat, SlashFacts DEF HandlerStat
  <1> QED BY <1>2, ListingLength

(* What has others in it is a directory.                                   *)
LEMMA InnerIsDirectory ==
    ASSUME VfsType, NEW n, Inner(n)
    PROVE  Stat(TextOf(n)).type = "dir"
  <1>1. Proc \in Name /\ Dev \in Name
    BY NamesOfMounts DEF Proc, Dev
  <1>2. CASE n \in {<<Proc>>, <<Dev>>}
    <2>1. n \in Seq(Name)
      <3>1. \A w \in Name : <<w>> \in Seq(Name)
        OBVIOUS
      <3> QED BY <1>1, <1>2, <3>1
    <2>2. TextOf(n) \in Text
      BY <2>1, TextOfNames, CanonicalFacts, WordsOfText DEF Canonical
    <2> QED BY <1>2, <2>2, MountStats, ListingLength
  <1>3. CASE n \in DOMAIN tree /\ tree[n].type = "dir"
    <2>1. HandlerOf(TextOf(n)) = "fat32" /\ n \in Places
      BY <1>3 DEF VfsType, IsTree
    <2>2. CASE n = << <<>> >>
      BY <2>2, SlashIsDirectory, SlashIsCanonical, PlaceOfText
    <2>3. CASE n \in Seq(Name) /\ n # <<>>
      <3>1. Words(TextOf(n)) = n /\ TextOf(n) \in Text
        BY <2>3, WordsOfText, TextOfNames, CanonicalFacts DEF Canonical
      <3>2. FatStat(n).type = "dir"
        BY <1>3 DEF FatStat, IsDirectory, Directory
      <3>3. HandlerStat(TextOf(n)).type = "dir"
        BY <2>1, <3>1, <3>2 DEF HandlerStat
      <3> QED BY <3>1, <3>3, ListingLength
    <2> QED BY <2>1, <2>2, <2>3 DEF Places
  <1> QED BY <1>2, <1>3 DEF Inner

(* What VFS_DIR_STAT writes of a directory is what is in it.               *)
LEMMA ListingComplete ==
    ASSUME VfsType, NEW dir \in Canonical, Stat(dir).type = "dir"
    PROVE  ListsAll(DirStat(dir), Words(dir))
  <1>1. HandlerStat(dir).type = "dir"
    BY CanonicalFacts, ListingLength
  <1>2. HandlerOf(dir) # "none"
    BY <1>1 DEF HandlerStat, Failed
  <1>3. CASE HandlerOf(dir) = "fat32"
    BY <1>1, <1>3, FatListsAll, RootListsAll, WordsOfSlash
  <1> QED BY <1>1, <1>2, <1>3, HandlerIsOne, ProcListsAll, DevListsAll

-----------------------------------------------------------------------------
(* What find has found and still has to look at.                           *)

Finding(s) == s.quiet /\ s.pc \in {"find", "find stat", "find list", "found"}

OnlyMatching(found, word) ==
    \A x \in Range(found) : \E n \in Nodes : x = TextOf(n) /\ Last(n) = word

AllReached(found, rows, word) ==
    \A n \in Nodes : Last(n) = word =>
        TextOf(n) \in Range(found) \/ \E r \in Range(rows) : Within(n, Words(r))

(* Of the rows none is below another, and nothing was found below one.     *)
EachOnce(found, rows) ==
    /\ \A i, j \in 1..Len(found) : found[i] = found[j] => i = j
    /\ \A i, j \in 1..Len(rows) : i # j => Apart(Words(rows[i]), Words(rows[j]))
    /\ \A i \in 1..Len(found), j \in 1..Len(rows) : ~Within(Words(found[i]), Words(rows[j]))

AllDirectories(rows) == \A r \in Range(rows) : Stat(r).type = "dir"

Searched(s) ==
    /\ s.pc = "find" => s.found = <<>>
    /\ s.pc = "found" => s.file_list = <<>>
    /\ s.pc # "find" =>
          /\ OnlyMatching(s.found, Arg(s.line, 1))
          /\ AllReached(s.found, s.file_list, Arg(s.line, 1))
          /\ s.leftover = <<>> => EachOnce(s.found, s.file_list) /\ AllDirectories(s.file_list)
    /\ s.pc = "find list" => s.entry.type # "none"

FindInv == \A p \in Pid : Finding(sh[p]) => Searched(sh[p])

(* The paths of the entries that are picked.                               *)
LEMMA PickedPaths ==
    ASSUME NEW dir \in Canonical, NEW entries \in Seq(EntryType), NEW B \in SUBSET (1..Len(entries)),
           \A i \in 1..Len(entries) : entries[i].name # <<>>,
           \A i, j \in 1..Len(entries) : entries[i].name = entries[j].name => i = j
    PROVE  LET q == PathsOf(dir, Selected(entries, B))
               d == Words(dir)
           IN  /\ q \in Seq(Canonical) /\ Len(q) \in Nat /\ d \in Seq(Text)
               /\ \A i \in 1..Len(entries) : entries[i].name \in Name /\ entries[i].name \in Text
               /\ \A k \in 1..Len(q) : \E i \in B : /\ q[k] = TextOf(Append(d, entries[i].name))
                                                    /\ Words(q[k]) = Append(d, entries[i].name)
               /\ \A i \in B : \E k \in 1..Len(q) : /\ q[k] = TextOf(Append(d, entries[i].name))
                                                    /\ Words(q[k]) = Append(d, entries[i].name)
               /\ \A k, l \in 1..Len(q) : q[k] = q[l] => k = l
               /\ \A k, l \in 1..Len(q) : Words(q[k]) = Words(q[l]) => k = l
  <1> DEFINE d == Words(dir)
             s == Selected(entries, B)
             q == PathsOf(dir, s)
             N == Len(entries)
             m == Cardinality(B)
             a == Ascending(B)
  <1>1. N \in Nat /\ B \in SUBSET (1..N) /\ d \in Seq(Text)
    BY CanonicalFacts, NamesAreText
  <1>2. \A i \in 1..N : entries[i].name \in Name /\ entries[i].name \in Text
    <2>1. \A i \in 1..N : entries[i] \in EntryType
      OBVIOUS
    <2>2. \A e \in EntryType : e.name # <<>> => e.name \in Name
      BY DEF EntryType
    <2> HIDE DEF N
    <2>3. \A i \in 1..N : entries[i].name \in Name
      BY <2>1, <2>2 DEF N
    <2> QED BY <2>3, NamesAreText
  <1>3. s \in Seq(EntryType) /\ \A i \in 1..Len(s) : s[i].name # <<>>
    BY SelectedEntries
  <1>4. /\ Len(s) = m /\ m \in Nat /\ \A i \in 1..Len(s) : s[i] = entries[a[i]]
        /\ \A x : x \in Range(s) <=> \E i \in B : x = entries[i]
    BY SelectedFacts
  <1>5. IsAscending(a, m, B)
    <2> HIDE DEF N
    <2> QED BY <1>1, AscendingFacts
  <1> HIDE DEF s, N, a, m, d
  <1>6. /\ q \in Seq(Canonical) /\ Len(q) = Len(s)
        /\ \A i \in 1..Len(s) : s[i].name \in Name /\ q[i] = Path(dir, s[i])
    BY <1>3, PathsOfFacts
  <1> HIDE DEF q
  <1>7. Len(q) = m /\ \A k \in 1..m : q[k] = Path(dir, entries[a[k]]) /\ a[k] \in B
    BY <1>4, <1>5, <1>6 DEF IsAscending
  <1>8. \A e : e.name \in Name => /\ Path(dir, e) = TextOf(Append(d, e.name))
                                  /\ Words(Path(dir, e)) = Append(d, e.name)
    BY PathFacts DEF d
  <1>9. \A k \in 1..m : /\ q[k] = TextOf(Append(d, entries[a[k]].name))
                        /\ Words(q[k]) = Append(d, entries[a[k]].name)
                        /\ a[k] \in B
    BY <1>1, <1>2, <1>7, <1>8
  <1>10. ASSUME NEW i \in B
         PROVE  \E k \in 1..m : /\ q[k] = TextOf(Append(d, entries[i].name))
                                /\ Words(q[k]) = Append(d, entries[i].name)
    <2>1. PICK k \in 1..m : s[k] = entries[i]
      <3>1. entries[i] \in Range(s) /\ DOMAIN s = 1..m
        BY <1>3, <1>4
      <3> QED BY <3>1 DEF Range
    <2>2. entries[a[k]] = entries[i]
      BY <1>4, <2>1
    <2> QED BY <1>9, <2>2
  <1>11. ASSUME NEW k \in 1..m, NEW l \in 1..m, Words(q[k]) = Words(q[l])
         PROVE  k = l
    <2>1. Append(d, entries[a[k]].name) = Append(d, entries[a[l]].name)
      BY <1>9, <1>11
    <2>2. a[k] \in 1..N /\ a[l] \in 1..N
      BY <1>1, <1>9
    <2>3. entries[a[k]].name = entries[a[l]].name
      BY <1>1, <1>2, <2>1, <2>2, SameEnds
    <2>4. a[k] = a[l]
      BY <2>2, <2>3 DEF N
    <2>5. (k < l => a[k] < a[l]) /\ (l < k => a[l] < a[k])
      BY <1>5 DEF IsAscending
    <2>6. a[k] \in Nat /\ k \in Nat /\ l \in Nat
      BY <1>1, <1>4, <2>2
    <2> QED BY <2>4, <2>5, <2>6
  <1>12. \A k, l \in 1..m : q[k] = q[l] => k = l
    BY <1>11
  <1>13. q \in Seq(Canonical) /\ Len(q) \in Nat /\ Len(q) = m
    BY <1>4, <1>6, <1>7
  <1>14. \A k \in 1..m : \E i \in B : /\ q[k] = TextOf(Append(d, entries[i].name))
                                      /\ Words(q[k]) = Append(d, entries[i].name)
    BY <1>9
  <1> HIDE DEF q
  <1>15. /\ q \in Seq(Canonical) /\ Len(q) \in Nat /\ d \in Seq(Text)
         /\ \A i \in 1..N : entries[i].name \in Name /\ entries[i].name \in Text
         /\ \A k \in 1..Len(q) : \E i \in B : /\ q[k] = TextOf(Append(d, entries[i].name))
                                              /\ Words(q[k]) = Append(d, entries[i].name)
         /\ \A i \in B : \E k \in 1..Len(q) : /\ q[k] = TextOf(Append(d, entries[i].name))
                                              /\ Words(q[k]) = Append(d, entries[i].name)
         /\ \A k, l \in 1..Len(q) : q[k] = q[l] => k = l
         /\ \A k, l \in 1..Len(q) : Words(q[k]) = Words(q[l]) => k = l
    BY <1>1, <1>2, <1>10, <1>11, <1>12, <1>13, <1>14
  <1> QED BY <1>15 DEF q, s, d, N

(* One turn of find's loop: the row dir is replaced by those of its        *)
(* directories, and its entries of that name are found.                    *)
Picks(q, d, entries, B) ==
    /\ q \in Seq(Canonical) /\ Len(q) \in Nat
    /\ \A k \in 1..Len(q) : \E i \in B : /\ q[k] = TextOf(Append(d, entries[i].name))
                                         /\ Words(q[k]) = Append(d, entries[i].name)
    /\ \A i \in B : \E k \in 1..Len(q) : /\ q[k] = TextOf(Append(d, entries[i].name))
                                         /\ Words(q[k]) = Append(d, entries[i].name)
    /\ \A k, l \in 1..Len(q) : q[k] = q[l] => k = l
    /\ \A k, l \in 1..Len(q) : Words(q[k]) = Words(q[l]) => k = l

Turn(found, rows, word, dir, entries, matching, deeper, n, m) ==
    /\ found \in Seq(Text) /\ rows \in Seq(Canonical) /\ word \in Text /\ dir \in Canonical
    /\ \A i \in 1..Len(entries) : entries[i].name \in Text
    /\ ListsAll(entries, Words(dir))
    /\ Picks(matching, Words(dir), entries, {i \in 1..Len(entries) : entries[i].name = word})
    /\ Picks(deeper, Words(dir), entries, {i \in 1..Len(entries) : entries[i].type = "dir"})
    /\ n = found \o matching /\ m = rows \o deeper

LEMMA TurnTypes ==
    ASSUME NEW found, NEW rows, NEW word, NEW dir, NEW entries, NEW matching, NEW deeper, NEW n, NEW m,
           Turn(found, rows, word, dir, entries, matching, deeper, n, m)
    PROVE  /\ Words(dir) \in Seq(Text)
           /\ Len(found) \in Nat /\ Len(rows) \in Nat
           /\ \A i \in 1..Len(n) :
                 \/ i \in 1..Len(found) /\ n[i] = found[i]
                 \/ \E k \in 1..Len(matching) : i = Len(found) + k /\ n[i] = matching[k]
           /\ \A x : x \in Range(n) <=> x \in Range(found) \/ x \in Range(matching)
           /\ \A i \in 1..Len(m) :
                 \/ i \in 1..Len(rows) /\ m[i] = rows[i]
                 \/ \E k \in 1..Len(deeper) : i = Len(rows) + k /\ m[i] = deeper[k]
           /\ \A x : x \in Range(m) <=> x \in Range(rows) \/ x \in Range(deeper)
           /\ \A x : x \in Range(matching) <=> \E k \in 1..Len(matching) : x = matching[k]
           /\ \A x : x \in Range(deeper) <=> \E k \in 1..Len(deeper) : x = deeper[k]
           /\ \A i \in 1..Len(rows) : Words(rows[i]) \in Seq(Text)
           /\ \A k \in 1..Len(matching) : \E w \in Text : /\ matching[k] = TextOf(Append(Words(dir), w))
                                                          /\ Words(matching[k]) = Append(Words(dir), w)
           /\ \A k \in 1..Len(deeper) : \E w \in Text : Words(deeper[k]) = Append(Words(dir), w)
  <1>1. Canonical \subseteq Text
    BY CanonicalFacts
  <1>2. matching \in Seq(Text) /\ matching \in Seq(Canonical) /\ deeper \in Seq(Canonical)
    <2>1. matching \in Seq(Canonical) /\ deeper \in Seq(Canonical)
      BY DEF Turn, Picks
    <2> QED BY <1>1, <2>1
  <1>3. \A c \in Canonical : Words(c) \in Seq(Text)
    BY CanonicalFacts, NamesAreText
  <1>4. found \in Seq(Text) /\ rows \in Seq(Canonical) /\ n = found \o matching /\ m = rows \o deeper
        /\ dir \in Canonical
    BY DEF Turn
  <1>5. /\ Len(found) \in Nat
        /\ \A i \in 1..Len(n) :
              \/ i \in 1..Len(found) /\ n[i] = found[i]
              \/ \E k \in 1..Len(matching) : i = Len(found) + k /\ n[i] = matching[k]
        /\ \A x : x \in Range(n) <=> x \in Range(found) \/ x \in Range(matching)
    BY <1>2, <1>4, JoinedIndices
  <1>6. /\ Len(rows) \in Nat
        /\ \A i \in 1..Len(m) :
              \/ i \in 1..Len(rows) /\ m[i] = rows[i]
              \/ \E k \in 1..Len(deeper) : i = Len(rows) + k /\ m[i] = deeper[k]
        /\ \A x : x \in Range(m) <=> x \in Range(rows) \/ x \in Range(deeper)
    BY <1>2, <1>4, JoinedIndices
  <1>7. DOMAIN matching = 1..Len(matching) /\ DOMAIN deeper = 1..Len(deeper)
    BY <1>2
  <1>8. /\ \A x : x \in Range(matching) <=> \E k \in 1..Len(matching) : x = matching[k]
        /\ \A x : x \in Range(deeper) <=> \E k \in 1..Len(deeper) : x = deeper[k]
    BY <1>7 DEF Range
  <1>9. \A i \in 1..Len(rows) : Words(rows[i]) \in Seq(Text)
    BY <1>3, <1>4
  <1>10. /\ \A k \in 1..Len(matching) : \E w \in Text : /\ matching[k] = TextOf(Append(Words(dir), w))
                                                        /\ Words(matching[k]) = Append(Words(dir), w)
         /\ \A k \in 1..Len(deeper) : \E w \in Text : Words(deeper[k]) = Append(Words(dir), w)
    BY DEF Turn, Picks
  <1>11. Words(dir) \in Seq(Text)
    BY <1>3, <1>4
  <1> QED BY <1>5, <1>6, <1>8, <1>9, <1>10, <1>11

LEMMA TurnMatches ==
    ASSUME NEW found, NEW rows, NEW word, NEW dir, NEW entries, NEW matching, NEW deeper, NEW n, NEW m,
           Turn(found, rows, word, dir, entries, matching, deeper, n, m),
           OnlyMatching(found, word)
    PROVE  OnlyMatching(n, word)
  <1> DEFINE d == Words(dir)
  <1>1. /\ d \in Seq(Text)
        /\ \A x : x \in Range(n) <=> x \in Range(found) \/ x \in Range(matching)
        /\ \A x : x \in Range(matching) <=> \E k \in 1..Len(matching) : x = matching[k]
    BY TurnTypes
  <1> SUFFICES ASSUME NEW x \in Range(matching)
               PROVE  \E c \in Nodes : x = TextOf(c) /\ Last(c) = word
    BY <1>1 DEF OnlyMatching
  <1>2. PICK i \in 1..Len(entries) : x = TextOf(Append(d, entries[i].name)) /\ entries[i].name = word
    <2>1. PICK k \in 1..Len(matching) : x = matching[k]
      BY <1>1
    <2>2. \E i \in {j \in 1..Len(entries) : entries[j].name = word} :
             matching[k] = TextOf(Append(d, entries[i].name))
      BY DEF Turn, Picks
    <2> QED BY <2>1, <2>2
  <1>3. Append(d, entries[i].name) \in Nodes /\ word \in Text
    <2>1. ListsAll(entries, d) /\ word \in Text
      BY DEF Turn
    <2> HIDE DEF d
    <2> QED BY <2>1 DEF ListsAll
  <1>4. Last(Append(d, word)) = word
    BY <1>1, <1>3, AppendFacts
  <1> QED BY <1>2, <1>3, <1>4

LEMMA TurnReaches ==
    ASSUME VfsType,
           NEW found, NEW rows, NEW word, NEW dir, NEW entries, NEW matching, NEW deeper, NEW n, NEW m,
           Turn(found, rows, word, dir, entries, matching, deeper, n, m),
           AllReached(found, Append(rows, dir), word)
    PROVE  AllReached(n, m, word)
  <1> DEFINE d == Words(dir)
  <1>1. /\ d \in Seq(Text)
        /\ \A x : x \in Range(n) <=> x \in Range(found) \/ x \in Range(matching)
        /\ \A x : x \in Range(m) <=> x \in Range(rows) \/ x \in Range(deeper)
        /\ \A x : x \in Range(matching) <=> \E k \in 1..Len(matching) : x = matching[k]
        /\ \A x : x \in Range(deeper) <=> \E k \in 1..Len(deeper) : x = deeper[k]
    BY TurnTypes
  <1> SUFFICES ASSUME NEW c \in Nodes, Last(c) = word, TextOf(c) \notin Range(n)
               PROVE  \E r \in Range(m) : Within(c, Words(r))
    BY DEF AllReached
  <1>2. rows \in Seq(Canonical) /\ dir \in Canonical /\ word \in Text
    BY DEF Turn
  <1>3. PICK r \in Range(Append(rows, dir)) : Within(c, Words(r))
    BY <1>1 DEF AllReached
  <1>4. CASE r \in Range(rows)
    BY <1>1, <1>3, <1>4
  <1>5. CASE r = dir
    <2>1. c \in Seq(Text) /\ c # <<>> /\ Within(c, d)
      BY <1>3, <1>5, NodesArePlaces
    <2> DEFINE w == c[Len(d) + 1]
               e == Append(d, w)
    <2> HIDE DEF d
    <2>2. w \in Text /\ e \in Seq(Text) /\ e # <<>> /\ ((c = e /\ Last(c) = w) \/ Within(c, e))
      <3>1. w \in Text /\ e \in Seq(Text) /\ ((c = e /\ Last(c) = w) \/ Within(c, e))
        BY <1>1, <2>1, WithinNext
      <3>2. e # <<>>
        BY <1>1, <3>1, AppendFacts
      <3> QED BY <3>1, <3>2
    <2> HIDE DEF w
    <2>3. ListsAll(entries, d)
      BY DEF Turn, d
    <2>4. CASE c = e /\ Last(c) = w
      <3>1. PICK i \in 1..Len(entries) : entries[i].name = w
        BY <2>2, <2>3, <2>4 DEF ListsAll
      <3>2. w = word
        BY <2>4
      <3>3. \A j \in 1..Len(entries) : entries[j].name = word =>
               \E k \in 1..Len(matching) : matching[k] = TextOf(Append(d, entries[j].name))
        BY DEF Turn, Picks, d
      <3>4. PICK k \in 1..Len(matching) : matching[k] = TextOf(Append(d, entries[i].name))
        BY <3>1, <3>2, <3>3
      <3>5. TextOf(c) \in Range(matching)
        BY <1>1, <2>4, <3>1, <3>4
      <3> QED BY <1>1, <3>5
    <2>5. CASE Within(c, e)
      <3>1. e \in Nodes /\ Inner(e)
        BY <2>2, <2>5, NodesAreClosed
      <3>2. PICK i \in 1..Len(entries) : entries[i].name = w /\ entries[i].type = "dir"
        BY <2>2, <2>3, <3>1 DEF ListsAll
      <3>3. \A j \in 1..Len(entries) : entries[j].type = "dir" =>
               \E k \in 1..Len(deeper) : Words(deeper[k]) = Append(d, entries[j].name)
        BY DEF Turn, Picks, d
      <3>4. PICK k \in 1..Len(deeper) : Words(deeper[k]) = e
        BY <3>2, <3>3
      <3>5. deeper[k] \in Range(m)
        BY <1>1
      <3> QED BY <2>5, <3>4, <3>5
    <2> QED BY <2>2, <2>4, <2>5
  <1>6. r \in Range(rows) \/ r = dir
    <2>1. \A x : x \in Range(Append(rows, dir)) <=> x \in Range(rows) \/ x = dir
      BY <1>2, RangeOfAppend
    <2> QED BY <2>1
  <1> QED BY <1>4, <1>5, <1>6

(* No row is below another, and nothing was found below one.               *)
LEMMA TurnOnce ==
    ASSUME NEW found, NEW rows, NEW word, NEW dir, NEW entries, NEW matching, NEW deeper, NEW n, NEW m,
           Turn(found, rows, word, dir, entries, matching, deeper, n, m),
           EachOnce(found, Append(rows, dir)), \A i \in 1..Len(found) : Words(found[i]) \in Seq(Text)
    PROVE  EachOnce(n, m)
  <1> DEFINE d == Words(dir)
  <1>1. /\ d \in Seq(Text)
        /\ \A i \in 1..Len(n) :
              \/ i \in 1..Len(found) /\ n[i] = found[i]
              \/ \E k \in 1..Len(matching) : i = Len(found) + k /\ n[i] = matching[k]
        /\ \A i \in 1..Len(m) :
              \/ i \in 1..Len(rows) /\ m[i] = rows[i]
              \/ \E k \in 1..Len(deeper) : i = Len(rows) + k /\ m[i] = deeper[k]
        /\ \A i \in 1..Len(rows) : Words(rows[i]) \in Seq(Text)
        /\ \A k \in 1..Len(matching) : \E w \in Text : Words(matching[k]) = Append(d, w)
        /\ \A k \in 1..Len(deeper) : \E w \in Text : Words(deeper[k]) = Append(d, w)
    BY TurnTypes
  <1>2. /\ \A k, l \in 1..Len(matching) : matching[k] = matching[l] => k = l
        /\ \A k, l \in 1..Len(deeper) : Words(deeper[k]) = Words(deeper[l]) => k = l
    BY DEF Turn, Picks
  <1>3. /\ Append(rows, dir)[Len(rows) + 1] = dir /\ Len(Append(rows, dir)) = Len(rows) + 1
        /\ \A i \in 1..Len(rows) : Append(rows, dir)[i] = rows[i] /\ i # Len(rows) + 1
        /\ \A i \in 1..Len(rows) : i \in 1..(Len(rows) + 1)
        /\ Len(rows) + 1 \in 1..(Len(rows) + 1)
    <2>1. rows \in Seq(Canonical) /\ dir \in Canonical
      BY DEF Turn
    <2> QED BY <2>1
  <1>4. /\ \A i, j \in 1..Len(found) : found[i] = found[j] => i = j
        /\ \A i, j \in 1..Len(rows) : i # j => Apart(Words(rows[i]), Words(rows[j]))
        /\ \A i \in 1..Len(rows) : Apart(Words(rows[i]), d)
        /\ \A i \in 1..Len(found), j \in 1..Len(rows) : ~Within(Words(found[i]), Words(rows[j]))
        /\ \A i \in 1..Len(found) : ~Within(Words(found[i]), d)
    BY <1>3 DEF EachOnce
  <1> HIDE DEF d
  (* What is in d is not below what d is not below.                        *)
  <1>5. ASSUME NEW w \in Text, NEW x \in Seq(Text), Apart(x, d)
        PROVE  Apart(x, Append(d, w))
    <2>1. Append(d, w) \in Seq(Text)
      BY <1>1
    <2>2. /\ Within(x, Append(d, w)) => Within(x, d)
          /\ Within(Append(d, w), x) => x = d \/ Within(d, x)
          /\ Within(Append(d, w), d)
      BY <1>1, WithinAppend
    <2> QED BY <1>5, <2>2 DEF Apart
  <1>6. ASSUME NEW w \in Text, NEW v \in Text
        PROVE  ~Within(Append(d, w), Append(d, v))
    <2>1. Len(Append(d, w)) = Len(d) + 1 /\ Len(Append(d, v)) = Len(d) + 1 /\ Len(d) + 1 \in Nat
      BY <1>1
    <2> QED BY <2>1 DEF Within
  <1>7. ASSUME NEW i \in 1..Len(n), NEW j \in 1..Len(n), n[i] = n[j]
        PROVE  i = j
    <2>1. ASSUME NEW a \in 1..Len(found), NEW k \in 1..Len(matching), found[a] = matching[k]
          PROVE  FALSE
      <3>1. PICK w \in Text : Words(found[a]) = Append(d, w)
        BY <1>1, <2>1
      <3>2. Within(Append(d, w), d)
        BY <1>1, WithinAppend
      <3> QED BY <1>4, <3>1, <3>2
    <2>2. CASE i \in 1..Len(found) /\ n[i] = found[i] /\ j \in 1..Len(found) /\ n[j] = found[j]
      BY <1>4, <1>7, <2>2
    <2>3. ASSUME NEW k \in 1..Len(matching), i = Len(found) + k, n[i] = matching[k],
                 NEW l \in 1..Len(matching), j = Len(found) + l, n[j] = matching[l]
          PROVE  i = j
      BY <1>2, <1>7, <2>3
    <2> DEFINE Old(x) == x \in 1..Len(found) /\ n[x] = found[x]
               New(x) == \E k \in 1..Len(matching) : x = Len(found) + k /\ n[x] = matching[k]
    <2>4. (Old(i) \/ New(i)) /\ (Old(j) \/ New(j))
      BY <1>1
    <2>5. CASE Old(i) /\ New(j)
      BY <1>7, <2>1, <2>5
    <2>6. CASE New(i) /\ Old(j)
      <3>1. PICK k \in 1..Len(matching) : n[i] = matching[k]
        BY <2>6
      <3> QED BY <1>7, <2>1, <2>6, <3>1
    <2>7. CASE New(i) /\ New(j)
      <3>1. PICK k \in 1..Len(matching) : i = Len(found) + k /\ n[i] = matching[k]
        BY <2>7
      <3>2. PICK l \in 1..Len(matching) : j = Len(found) + l /\ n[j] = matching[l]
        BY <2>7
      <3> QED BY <2>3, <3>1, <3>2
    <2> HIDE DEF New
    <2> QED BY <2>2, <2>4, <2>5, <2>6, <2>7
  <1>8. ASSUME NEW i \in 1..Len(m), NEW j \in 1..Len(m), i # j
        PROVE  Apart(Words(m[i]), Words(m[j]))
    <2>1. ASSUME NEW a \in 1..Len(rows), NEW k \in 1..Len(deeper)
          PROVE  Apart(Words(rows[a]), Words(deeper[k])) /\ Apart(Words(deeper[k]), Words(rows[a]))
      <3>1. Apart(Words(rows[a]), Words(deeper[k]))
        BY <1>1, <1>4, <1>5
      <3> QED BY <3>1 DEF Apart
    <2>2. ASSUME NEW k \in 1..Len(deeper), NEW l \in 1..Len(deeper), k # l
          PROVE  Apart(Words(deeper[k]), Words(deeper[l]))
      <3>1. Words(deeper[k]) # Words(deeper[l])
        BY <1>2, <2>2
      <3> QED BY <1>1, <1>6, <3>1 DEF Apart
    <2> QED BY <1>1, <1>4, <1>8, <2>1, <2>2
  <1>9. ASSUME NEW i \in 1..Len(n), NEW j \in 1..Len(m)
        PROVE  ~Within(Words(n[i]), Words(m[j]))
    <2>1. ASSUME NEW a \in 1..Len(found), NEW k \in 1..Len(deeper)
          PROVE  ~Within(Words(found[a]), Words(deeper[k]))
      <3>1. PICK w \in Text : Words(deeper[k]) = Append(d, w)
        BY <1>1
      <3>2. Within(Words(found[a]), Append(d, w)) => Within(Words(found[a]), d)
        BY <1>1, WithinAppend
      <3> QED BY <1>4, <3>1, <3>2
    <2>2. ASSUME NEW k \in 1..Len(matching), NEW b \in 1..Len(rows)
          PROVE  ~Within(Words(matching[k]), Words(rows[b]))
      <3>1. PICK w \in Text : Words(matching[k]) = Append(d, w)
        BY <1>1
      <3>2. Apart(Words(rows[b]), Append(d, w))
        BY <1>1, <1>4, <1>5
      <3> QED BY <3>1, <3>2 DEF Apart
    <2>3. ASSUME NEW k \in 1..Len(matching), NEW l \in 1..Len(deeper)
          PROVE  ~Within(Words(matching[k]), Words(deeper[l]))
      BY <1>1, <1>6
    <2> QED BY <1>1, <1>4, <2>1, <2>2, <2>3
  <1> QED BY <1>7, <1>8, <1>9 DEF EachOnce

(* What find puts on its list are directories.                             *)
LEMMA TurnDirectories ==
    ASSUME VfsType,
           NEW found, NEW rows, NEW word, NEW dir, NEW entries, NEW matching, NEW deeper, NEW n, NEW m,
           Turn(found, rows, word, dir, entries, matching, deeper, n, m),
           AllDirectories(Append(rows, dir))
    PROVE  AllDirectories(m)
  <1> DEFINE d == Words(dir)
  <1>1. /\ \A x : x \in Range(m) <=> x \in Range(rows) \/ x \in Range(deeper)
        /\ \A x : x \in Range(deeper) <=> \E k \in 1..Len(deeper) : x = deeper[k]
    BY TurnTypes
  <1> SUFFICES ASSUME NEW r \in Range(m) PROVE Stat(r).type = "dir"
    BY DEF AllDirectories
  <1>2. CASE r \in Range(rows)
    <2>1. r \in Range(Append(rows, dir))
      BY <1>2, RangeOfAppend DEF Turn
    <2> QED BY <2>1 DEF AllDirectories
  <1>3. CASE r \in Range(deeper)
    <2>1. PICK k \in 1..Len(deeper) : r = deeper[k]
      BY <1>1, <1>3
    <2>2. \A l \in 1..Len(deeper) : \E i \in 1..Len(entries) :
             entries[i].type = "dir" /\ deeper[l] = TextOf(Append(d, entries[i].name))
      BY DEF Turn, Picks
    <2>3. PICK i \in 1..Len(entries) :
             entries[i].type = "dir" /\ deeper[k] = TextOf(Append(d, entries[i].name))
      BY <2>2
    <2>4. Inner(Append(d, entries[i].name))
      <3>1. ListsAll(entries, d)
        BY DEF Turn
      <3> HIDE DEF d
      <3> QED BY <2>3, <3>1 DEF ListsAll
    <2> QED BY <2>1, <2>3, <2>4, InnerIsDirectory
  <1> QED BY <1>1, <1>2, <1>3

Named(entries, word) == {i \in 1..Len(entries) : entries[i].name = word}
Directories(entries) == {i \in 1..Len(entries) : entries[i].type = "dir"}

LEMMA ListingGives ==
    ASSUME Inv, NEW p \in Pid, sh[p].pc = "find list", NEW dir, dir = Last(sh[p].file_list),
           NEW entries, entries = DirStat(dir), AllNamed(p, entries)
    PROVE  /\ Listing(p, dir, entries).found =
                 sh[p].found \o PathsOf(dir, Selected(entries, Named(entries, Arg(sh[p].line, 1))))
           /\ Listing(p, dir, entries).file_list =
                 Front(sh[p].file_list) \o PathsOf(dir, Selected(entries, Directories(entries)))
  <1> DEFINE B == Directories(entries)
             C == Named(entries, Arg(sh[p].line, 1))
             rows == Front(sh[p].file_list) \o PathsOf(dir, Selected(entries, B))
             found == sh[p].found \o PathsOf(dir, Selected(entries, C))
             pc == IF rows = <<>> THEN "found" ELSE "find stat"
             s == [sh[p] EXCEPT !.pc = pc, !.file_list = rows, !.found = found]
  <1>1. sh[p] \in ShellRecord /\ sh[p].file_list # <<>> /\ VfsType
    BY ShellHas DEF Sound
  <1>2. entries \in Seq(EntryType)
    BY <1>1, LastRow, ListingLength
  <1>3. DOMAIN entries = 1..Len(entries)
    BY <1>2, IndicesOf
  <1>4. Listing(p, dir, entries) = s
    BY <1>1, <1>3 DEF Listing, Step, ShellRecord, Pop, Named, Directories
  <1> HIDE DEF rows, found
  <1>5. s.file_list = rows /\ s.found = found
    BY <1>1 DEF ShellRecord
  <1> QED BY <1>4, <1>5 DEF rows, found

LEMMA ListingKeeps ==
    ASSUME Inv, NEW p \in Pid, NEW dir, NEW entries
    PROVE  /\ Listing(p, dir, entries).line = sh[p].line
           /\ Listing(p, dir, entries).leftover = sh[p].leftover
           /\ Listing(p, dir, entries).quiet = sh[p].quiet
  <1>1. sh[p] \in ShellRecord
    BY ShellHas
  <1> QED BY <1>1 DEF Listing, Step, ShellRecord

LEMMA NotFinding ==
    ASSUME NEW s, s.pc \notin {"find", "find stat", "find list", "found"} \/ s.quiet = FALSE
    PROVE  ~Finding(s)
  BY DEF Finding

LEMMA FindBegins ==
    ASSUME Inv, NEW p \in Pid, FindBegin(p), Finding(sh[p]) => Searched(sh[p])
    PROVE  Finding(sh'[p]) => Searched(sh'[p])
  <1>1. PICK rows \in {sh[p].leftover, <<>>} :
           Go(p, [Step(p, "find stat") EXCEPT !.file_list = <<Slash>> \o rows, !.leftover = rows])
    BY DEF FindBegin
  <1> DEFINE list == <<Slash>> \o rows
             s == [sh[p] EXCEPT !.pc = "find stat", !.file_list = list, !.leftover = rows]
             word == Arg(sh[p].line, 1)
  <1>2. sh[p] \in ShellRecord /\ sh[p].pc = "find" /\ VfsType
    BY ShellHas DEF FindBegin, At
  <1>3. Go(p, s)
    BY <1>1 DEF Step
  <1>4. rows \in Seq(Canonical)
    <2>1. sh[p].leftover \in Seq(Canonical) /\ <<>> \in Seq(Canonical)
      BY <1>2 DEF ShellRecord
    <2> QED BY <2>1
  <1>5. Slash \in Range(list) /\ (rows = <<>> => Len(list) = 1)
    <2>1. Slash \in Canonical
      BY SlashIsCanonical
    <2>2. list[1] = Slash /\ 1 \in DOMAIN list
      BY <1>4, <2>1
    <2>3. rows = <<>> => Len(list) = 1
      OBVIOUS
    <2> QED BY <2>2, <2>3 DEF Range
  <1>13. rows = <<>> => \A i \in DOMAIN list : list[i] = Slash
    OBVIOUS
  <1> HIDE DEF list
  <1>6. /\ s.pc = "find stat" /\ s.quiet = sh[p].quiet /\ s.found = sh[p].found /\ s.line = sh[p].line
        /\ s.file_list = list /\ s.leftover = rows
    BY <1>2 DEF ShellRecord
  <1> HIDE DEF s
  <1>7. sh'[p] = s
    BY <1>3, GoGives
  <1> SUFFICES ASSUME Finding(s) PROVE Searched(s)
    BY <1>7
  <1>8. s.found = <<>>
    BY <1>2, <1>6 DEF Finding, Searched
  <1>9. OnlyMatching(<<>>, word) /\ Range(<<>>) = {} /\ Len(<<>>) = 0
    BY DEF OnlyMatching, Range
  <1>10. AllReached(<<>>, list, word)
    <2> SUFFICES ASSUME NEW n \in Nodes PROVE Within(n, Words(Slash))
      BY <1>5 DEF AllReached
    <2>1. n \in Seq(Text) /\ n # <<>>
      BY <1>2, NodesArePlaces
    <2>2. Len(n) \in Nat /\ 0 < Len(n) /\ Len(<<>>) = 0
      BY <2>1
    <2>3. Within(n, <<>>)
      BY <2>2 DEF Within
    <2> QED BY <2>3, WordsOfSlash
  <1>11. rows = <<>> => EachOnce(<<>>, list)
    <2> SUFFICES ASSUME Len(list) = 1 PROVE EachOnce(<<>>, list)
      BY <1>5
    <2>1. (\A i, j \in 1..Len(list) : i = j) /\ 1..Len(<<>>) = {}
      OBVIOUS
    <2> QED BY <2>1 DEF EachOnce
  <1>12. rows = <<>> => AllDirectories(list)
    <2> SUFFICES ASSUME rows = <<>>, NEW i \in DOMAIN list PROVE Stat(list[i]).type = "dir"
      BY DEF AllDirectories, Range
    <2>1. list[i] = Slash
      BY <1>13
    <2> QED BY <1>2, <2>1, SlashIsDirectory
  <1> QED BY <1>6, <1>8, <1>9, <1>10, <1>11, <1>12 DEF Searched

LEMMA FindLeaves ==
    ASSUME Inv, NEW p \in Pid, FindAbort(p) \/ FindEnd(p)
    PROVE  sh'[p].pc = "prompt"
  <1>1. \E rows : Go(p, [Prompt(p) EXCEPT !.leftover = rows])
    BY DEF FindAbort, FindEnd
  <1>2. \A rows : [Prompt(p) EXCEPT !.leftover = rows].pc = "prompt"
    BY DEF Prompt, Idle
  <1> QED BY <1>1, <1>2, GoGives

LEMMA FindStats ==
    ASSUME Inv, NEW p \in Pid, FindStat(p), Finding(sh[p]) => Searched(sh[p])
    PROVE  Finding(sh'[p]) => Searched(sh'[p])
  <1> DEFINE entry == Stat(Last(sh[p].file_list))
             s == [sh[p] EXCEPT !.pc = "find list", !.entry = entry]
  <1>1. sh[p] \in ShellRecord /\ sh[p].pc = "find stat"
    BY ShellHas DEF FindStat, At
  <1>2. FindAbort(p) \/ (entry.type # "none" /\ Go(p, s))
    BY DEF FindStat, Step
  <1>3. CASE FindAbort(p)
    BY <1>3, FindLeaves, NotFinding
  <1>4. CASE entry.type # "none" /\ Go(p, s)
    <2> HIDE DEF entry
    <2>1. /\ s.pc = "find list" /\ s.quiet = sh[p].quiet /\ s.found = sh[p].found /\ s.line = sh[p].line
          /\ s.entry = entry
          /\ s.file_list = sh[p].file_list /\ s.leftover = sh[p].leftover
      BY <1>1 DEF ShellRecord
    <2> HIDE DEF s
    <2>2. sh'[p] = s
      BY <1>4, GoGives
    <2>3. Finding(s) => Searched(s)
      BY <1>1, <1>4, <2>1 DEF Finding, Searched
    <2> QED BY <2>2, <2>3
  <1> QED BY <1>2, <1>3, <1>4

LEMMA FindLists ==
    ASSUME Inv, NEW p \in Pid, FindList(p), Finding(sh[p]) => Searched(sh[p])
    PROVE  Finding(sh'[p]) => Searched(sh'[p])
  <1> DEFINE dir == Last(sh[p].file_list)
             entries == DirStat(dir)
             s == Listing(p, dir, entries)
             word == Arg(sh[p].line, 1)
             named == Named(entries, word)
             dirs == Directories(entries)
             matching == PathsOf(dir, Selected(entries, named))
             deeper == PathsOf(dir, Selected(entries, dirs))
             rows == Front(sh[p].file_list)
             found == sh[p].found
             n == found \o matching
             m == rows \o deeper
  <1>1. sh[p] \in ShellRecord /\ Sound(sh[p], tree) /\ sh[p].pc = "find list" /\ VfsType
    BY ShellHas DEF FindList, At
  <1>2. FindAbort(p) \/ GoWild(p) \/ (Stat(dir).type = "dir" /\ AllNamed(p, entries) /\ Go(p, s))
    BY DEF FindList
  <1>3. CASE FindAbort(p)
    BY <1>3, FindLeaves, NotFinding
  <1>4. CASE GoWild(p)
    BY <1>4, AbortGives, PromptRests, NotFinding
  <1>5. CASE Stat(dir).type = "dir" /\ AllNamed(p, entries) /\ Go(p, s)
    <2>1. /\ s.pc = (IF s.file_list = <<>> THEN "found" ELSE "find stat")
          /\ s.line = sh[p].line /\ s.leftover = sh[p].leftover /\ s.quiet = sh[p].quiet
          /\ s.found = n /\ s.file_list = m
      <3>1. dir = Last(sh[p].file_list) /\ entries = DirStat(dir) /\ AllNamed(p, entries)
        BY <1>5
      <3> HIDE DEF dir, entries
      <3>2. s.pc = (IF s.file_list = <<>> THEN "found" ELSE "find stat")
        BY <1>1, <3>1, ListingType
      <3>3. s.line = sh[p].line /\ s.leftover = sh[p].leftover /\ s.quiet = sh[p].quiet
        BY ListingKeeps
      <3>4. s.found = n /\ s.file_list = m
        BY <1>1, <3>1, ListingGives
      <3> QED BY <3>2, <3>3, <3>4
    <2> HIDE DEF s
    <2>2. sh'[p] = s
      BY <1>5, GoGives
    <2>3. sh[p].file_list # <<>>
      BY <1>1 DEF Sound
    <2>4. dir \in Canonical /\ dir \in Text /\ rows \in Seq(Canonical) /\ sh[p].file_list = Append(rows, dir)
      BY <2>3, LastRow
    <2>5. found \in Seq(Canonical) /\ found \in Seq(Text) /\ \A i \in 1..Len(found) : Words(found[i]) \in Seq(Text)
      <3>1. found \in Seq(Canonical)
        BY <1>1 DEF ShellRecord
      <3>2. \A c \in Canonical : c \in Text /\ Words(c) \in Seq(Text)
        BY CanonicalFacts, NamesAreText
      <3> HIDE DEF found
      <3>3. \A i \in 1..Len(found) : found[i] \in Canonical
        BY <3>1
      <3>4. found \in Seq(Text)
        BY <3>1, <3>2
      <3> QED BY <3>1, <3>2, <3>3, <3>4
    <2>6. word \in Text
      BY <1>1, ArgType DEF ShellRecord
    <2>7. entries \in Seq(EntryType) /\ ListsAll(entries, Words(dir))
      BY <1>1, <1>5, <2>4, ListingLength, ListingComplete
    <2>8. \A i \in 1..Len(entries) : entries[i].name # <<>>
      <3>1. \A i \in 1..Len(entries) : entries[i] \in Range(entries)
        BY <2>7, IndicesOf
      <3> QED BY <1>5, <3>1 DEF AllNamed
    <2>9. \A i, j \in 1..Len(entries) : entries[i].name = entries[j].name => i = j
      BY <2>7 DEF ListsAll
    <2>10. named \in SUBSET (1..Len(entries)) /\ dirs \in SUBSET (1..Len(entries))
      BY DEF Named, Directories
    <2> HIDE DEF dir, entries, word, named, dirs
    <2>11. /\ Picks(matching, Words(dir), entries, named)
           /\ \A i \in 1..Len(entries) : entries[i].name \in Text
      BY <2>4, <2>7, <2>8, <2>9, <2>10, PickedPaths DEF Picks
    <2>12. Picks(deeper, Words(dir), entries, dirs)
      BY <2>4, <2>7, <2>8, <2>9, <2>10, PickedPaths DEF Picks
    <2> HIDE DEF matching, deeper, rows, found
    <2>13. Turn(found, rows, word, dir, entries, matching, deeper, n, m)
      BY <2>4, <2>5, <2>6, <2>7, <2>11, <2>12 DEF Turn, named, dirs, Named, Directories
    <2> HIDE DEF n, m
    <2> SUFFICES ASSUME Finding(s) PROVE Searched(s)
      BY <2>2
    <2>14. /\ OnlyMatching(found, word) /\ AllReached(found, Append(rows, dir), word)
           /\ s.leftover = <<>> => /\ EachOnce(found, Append(rows, dir))
                                   /\ AllDirectories(Append(rows, dir))
      <3>1. Searched(sh[p])
        BY <1>1, <2>1 DEF Finding
      <3> QED BY <1>1, <2>1, <2>4, <3>1 DEF Searched, found, word
    <2>15. OnlyMatching(n, word)
      BY <2>13, <2>14, TurnMatches
    <2>16. AllReached(n, m, word)
      BY <1>1, <2>13, <2>14, TurnReaches
    <2>17. s.leftover = <<>> => EachOnce(n, m)
      BY <2>5, <2>13, <2>14, TurnOnce
    <2>18. s.leftover = <<>> => AllDirectories(m)
      BY <1>1, <2>13, <2>14, TurnDirectories
    <2> QED BY <2>1, <2>15, <2>16, <2>17, <2>18 DEF Searched, word
  <1> QED BY <1>2, <1>3, <1>4, <1>5

FindStagesOf == {"find", "find stat", "find list", "found"}
CopyStagesOf == {"prompt", "tac", "cat", "mkfile", "open copy", "read", "write", "mv"}

(* Where the calls of tac, cat, cp and mv go on.                           *)
LEMMA CopyStages ==
    ASSUME Inv, NEW p \in Pid,
           OpenSource(p) \/ MakeCopy(p) \/ OpenCopy(p) \/ ReadBlock(p) \/ WriteBlock(p)
    PROVE  sh'[p].pc \in CopyStagesOf
  <1>1. sh[p] \in ShellRecord
    BY ShellHas
  <1>2. \A pc : Step(p, pc).pc = pc
    BY <1>1 DEF Step, ShellRecord
  <1>3. \A pc, d : [Step(p, pc) EXCEPT !.from_fd = d].pc = pc /\ [Step(p, pc) EXCEPT !.to_fd = d].pc = pc
    BY <1>1 DEF Step, ShellRecord
  <1>4. ASSUME Abort(p) \/ GoWild(p)
        PROVE  sh'[p].pc \in CopyStagesOf
    BY <1>4, AbortGives, PromptRests DEF CopyStagesOf
  <1>5. CASE OpenSource(p)
    <2> DEFINE pc == CASE sh[p].line.cmd = "tac" -> "tac"
                       [] sh[p].line.cmd = "cat" -> "cat"
                       [] OTHER -> "mkfile"
               d == Opened(sh[p].path)
               s == [Step(p, pc) EXCEPT !.from_fd = d]
    <2>1. Abort(p) \/ Go(p, s)
      BY <1>5 DEF OpenSource
    <2>2. pc \in CopyStagesOf
      BY DEF CopyStagesOf
    <2> HIDE DEF pc, d
    <2>3. s.pc = pc
      BY <1>3
    <2> HIDE DEF s
    <2> QED BY <1>4, <2>1, <2>2, <2>3, GoGives
  <1>6. CASE OpenCopy(p)
    <2> DEFINE d == Opened(sh[p].to)
               s == [Step(p, "read") EXCEPT !.to_fd = d]
    <2>1. Abort(p) \/ Go(p, s)
      BY <1>6 DEF OpenCopy
    <2> HIDE DEF d
    <2>2. s.pc = "read"
      BY <1>3
    <2> HIDE DEF s
    <2> QED BY <1>4, <2>1, <2>2, GoGives DEF CopyStagesOf
  <1>7. ASSUME NEW t, NEW s, Change(p, t, s), "pc" \in DOMAIN s
        PROVE  sh'[p].pc = s.pc
    <2>1. sh'[p] = [s EXCEPT !.from_fd = Refresh(@, t), !.to_fd = Refresh(@, t)]
      BY <1>7 DEF Change
    <2> QED BY <1>7, <2>1
  <1>8. CASE MakeCopy(p)
    <2> DEFINE s == Step(p, "open copy")
    <2>1. Make(p, sh[p].to, "file", s)
      BY <1>8 DEF MakeCopy
    <2>2. s.pc = "open copy" /\ "pc" \in DOMAIN s
      BY <1>1, <1>2 DEF Step, ShellRecord
    <2> HIDE DEF s
    <2>3. Abort(p) \/ GoWild(p) \/ \E t : Change(p, t, s)
      BY <2>1 DEF Make
    <2> QED BY <1>4, <1>7, <2>2, <2>3 DEF CopyStagesOf
  <1>9. CASE ReadBlock(p)
    <2> DEFINE d == sh[p].from_fd
               text == ReadFrom(d, BLOCK)
               pos == d.pos + Len(text)
               seen == Buffer(Seen(d), pos)
               buffer == Overwrite(Resize(sh[p].buffer, BLOCK), 0, text)
               s == [sh[p] EXCEPT !.pc = "write", !.from_fd.pos = pos, !.from_fd.buffer = seen,
                                  !.buffer = buffer]
               e == IF sh[p].line.cmd = "mv" THEN Step(p, "mv") ELSE Prompt(p)
    <2>1. GoWild(p) \/ Go(p, s) \/ Go(p, e)
      <3>1. CASE Gone(d)
        BY <1>9, <3>1 DEF ReadBlock
      <3>2. CASE ~Gone(d) /\ text # <<>>
        BY <1>1, <1>9, <3>2 DEF ReadBlock, Step, ShellRecord
      <3>3. CASE ~Gone(d) /\ text = <<>>
        BY <1>9, <3>3 DEF ReadBlock
      <3> QED BY <3>1, <3>2, <3>3
    <2>2. e.pc \in {"mv", "prompt"}
      BY <1>2, PromptRests
    <2> HIDE DEF pos, seen, buffer, e
    <2>3. s.pc = "write"
      BY <1>1 DEF ShellRecord
    <2> HIDE DEF s
    <2> QED BY <1>4, <2>1, <2>2, <2>3, GoGives DEF CopyStagesOf
  <1>10. CASE WriteBlock(p)
    <2> DEFINE part == Fitting(sh[p].to_fd, sh[p].buffer)
               fd == Advance(sh[p].to_fd, part)
               failed == part # sh[p].buffer
               s == [Step(p, "read") EXCEPT !.to_fd = fd, !.failed = failed]
    <2>1. GoWild(p) \/ \E t : Change(p, t, s)
      BY <1>10 DEF WriteBlock
    <2> HIDE DEF part, fd, failed
    <2>2. s.pc = "read" /\ "pc" \in DOMAIN s
      BY <1>1 DEF Step, ShellRecord
    <2> HIDE DEF s
    <2> QED BY <1>4, <1>7, <2>1, <2>2 DEF CopyStagesOf
  <1> QED BY <1>5, <1>6, <1>8, <1>9, <1>10

LEMMA FindRuns ==
    ASSUME Inv, NEW p \in Pid, NEW line \in Lines, Run(p, line)
    PROVE  Finding(sh'[p]) => Searched(sh'[p])
  <1> DEFINE path == FullPath(p, IF line.cmd = "cd" /\ line.args = <<>> THEN Slash ELSE Arg(line, 1))
             to == FullPath(p, Arg(line, 2))
             before == IF line.cmd \in {"del -r", "mv"} THEN tree ELSE <<>>
             s == [Idle EXCEPT !.pc = FirstStep(line.cmd), !.cwd = sh[p].cwd, !.line = line,
                               !.path = path, !.to = to, !.leftover = sh[p].leftover, !.before = before]
  <1>1. sh' = [sh EXCEPT ![p] = s]
    BY DEF Run
  <1> HIDE DEF path, to, before
  <1>2. s.pc = FirstStep(line.cmd) /\ s.found = <<>>
    BY DEF Idle
  <1> HIDE DEF s
  <1>3. sh'[p] = s
    BY <1>1 DEF Inv, TypeOK
  <1>4. FirstStep(line.cmd) \notin {"find stat", "find list", "found"}
    <2>1. line.cmd \in Commands
      BY ShellAssumption
    <2> QED BY <2>1 DEF Commands, FirstStep
  <1> QED BY <1>2, <1>3, <1>4 DEF Finding, Searched

LEMMA FindWork ==
    ASSUME Inv, NEW p \in Pid, Work(p), Finding(sh[p]) => Searched(sh[p])
    PROVE  Finding(sh'[p]) => Searched(sh'[p])
  <1>1. CASE sh'[p].pc \notin FindStagesOf \/ sh'[p].quiet = FALSE
    BY <1>1, NotFinding DEF FindStagesOf
  <1>2. CASE StatArgument(p)
    BY <1>1, <1>2, StatGives DEF FindStagesOf
  <1>3. CASE FindBegin(p) \/ FindStat(p) \/ FindList(p)
    BY <1>3, FindBegins, FindStats, FindLists
  <1>4. CopyStagesOf \cap FindStagesOf = {}
    BY DEF CopyStagesOf, FindStagesOf
  <1>5. CASE sh'[p].pc \in Resting \cup {"del -r", "tac"}
    BY <1>1, <1>5 DEF Resting, FindStagesOf
  <1> QED BY <1>1, <1>2, <1>3, <1>4, <1>5, CopyStages, WorkStages

(* The files are the same ones, whoever asks.                              *)
LEMMA SearchedSame ==
    ASSUME UNCHANGED vfsVars, NEW p \in Pid, Finding(sh'[p]) => Searched(sh'[p])
    PROVE  (Finding(sh[p]) => Searched(sh[p]))'
  <1>1. Nodes' = Nodes
    BY DEF vfsVars, Nodes
  <1>2. \A r : Stat(r)' = Stat(r)
    BY StatSame
  <1>3. AllDirectories(sh[p].file_list)' <=> AllDirectories(sh'[p].file_list)
    BY <1>2 DEF AllDirectories
  <1> QED BY <1>1, <1>3 DEF Finding, Searched, OnlyMatching, AllReached, EachOnce

LEMMA FindKeepsTree ==
    ASSUME Inv, NEW p \in Pid, Work(p), Finding(sh'[p])
    PROVE  UNCHANGED vfsVars
  <1>1. sh'[p].pc \in FindStagesOf /\ sh'[p].quiet # FALSE
    BY DEF Finding, FindStagesOf
  <1>2. ~(sh'[p].pc \in Resting \cup {"del -r", "tac"})
    BY <1>1 DEF Resting, FindStagesOf
  <1>3. ~StatArgument(p)
    BY <1>1, StatGives DEF FindStagesOf
  <1>4. CopyStagesOf \cap FindStagesOf = {}
    BY DEF CopyStagesOf, FindStagesOf
  <1>5. FindBegin(p) \/ FindStat(p) \/ FindList(p)
    BY <1>1, <1>2, <1>3, <1>4, CopyStages, WorkStages
  <1>6. (\E s : Go(p, s)) \/ GoWild(p)
    BY <1>5 DEF FindBegin, FindStat, FindList, FindAbort
  <1> QED BY <1>6 DEF Go, GoWild

LEMMA FindInductive ==
    ASSUME Inv, FindInv, [Next]_vars
    PROVE  FindInv'
  <1>1. CASE UNCHANGED vars
    <2>1. sh' = sh /\ UNCHANGED vfsVars
      BY <1>1 DEF vars
    <2> SUFFICES ASSUME NEW p \in Pid PROVE (Finding(sh[p]) => Searched(sh[p]))'
      BY DEF FindInv
    <2>2. Finding(sh'[p]) => Searched(sh'[p])
      BY <2>1 DEF FindInv
    <2> QED BY <2>1, <2>2, SearchedSame
  <1>2. CASE Next
    <2> SUFFICES ASSUME NEW p \in Pid PROVE (Finding(sh[p]) => Searched(sh[p]))'
      BY DEF FindInv
    <2>1. Finding(sh[p]) => Searched(sh[p])
      BY DEF FindInv
    <2>2. PICK q \in Pid : Work(q) \/ \E line \in Lines : Run(q, line)
      BY <1>2 DEF Next
    <2>3. ASSUME ~Finding(sh'[p]) PROVE (Finding(sh[p]) => Searched(sh[p]))'
      BY <2>3 DEF Finding
    <2>4. CASE p = q /\ Work(p)
      <3>1. Finding(sh'[p]) => Searched(sh'[p])
        BY <2>1, <2>4, FindWork
      <3> QED BY <2>3, <2>4, <3>1, FindKeepsTree, SearchedSame
    <2>5. CASE p = q /\ \E line \in Lines : Run(p, line)
      <3>1. PICK line \in Lines : Run(p, line)
        BY <2>5
      <3>2. Finding(sh'[p]) => Searched(sh'[p])
        BY <3>1, FindRuns
      <3>3. UNCHANGED vfsVars
        BY <3>1 DEF Run
      <3> QED BY <3>2, <3>3, SearchedSame
    <2>6. CASE p # q
      <3>1. CASE sh'[p] = sh[p] /\ UNCHANGED vfsVars
        <4>1. Finding(sh'[p]) => Searched(sh'[p])
          BY <2>1, <3>1
        <4> QED BY <3>1, <4>1, SearchedSame
      <3>2. CASE sh'[p] = sh[p] /\ sh[p].pc \in Resting
        BY <2>3, <3>2 DEF Finding, Resting
      <3>3. CASE sh'[p].quiet = FALSE
        BY <2>3, <3>3, NotFinding
      <3>4. CASE sh'[p] = Off \/ NewShell(sh'[p])
        <4>1. Off.pc = "off" /\ (NewShell(sh'[p]) => sh'[p].pc = "start")
          BY NewShellStarts DEF Off, Idle
        <4> QED BY <2>3, <3>4, <4>1, NotFinding
      <3> QED BY <2>2, <2>6, <3>1, <3>2, <3>3, <3>4, Elsewhere
    <2> QED BY <2>2, <2>4, <2>5, <2>6
  <1> QED BY <1>1, <1>2

LEMMA FindInitially == Init => FindInv
  <1> SUFFICES ASSUME Init, NEW p \in Pid PROVE ~Finding(sh[p])
    BY DEF FindInv
  <1>1. sh[p] = [Idle EXCEPT !.pc = "start"] \/ sh[p] = Off
    BY DEF Init
  <1>2. [Idle EXCEPT !.pc = "start"].pc = "start" /\ Off.pc = "off"
    BY DEF Idle, Off
  <1> QED BY <1>1, <1>2, NotFinding

(* The name of a file is that of its path.                                 *)
LEMMA NodeNames ==
    ASSUME VfsType, NEW n \in Nodes
    PROVE  SplitPath(TextOf(n)).basename = Last(n)
  <1>1. n \in Places
    BY NodesArePlaces
  <1>2. CASE n = << <<>> >>
    <2>1. TextOf(n) = Slash
      BY <1>2, SlashIsCanonical, PlaceOfText
    <2>2. Last(n) = <<>>
      BY <1>2 DEF Last
    <2> QED BY <2>1, <2>2, SplitCanonical
  <1>3. CASE n \in Seq(Name) /\ n # <<>>
    <2>1. PICK r \in Seq(Name), w \in Name : n = Append(r, w)
      BY <1>3, SequenceEmptyOrAppend
    <2>2. Last(n) = w
      BY <2>1, AppendFacts
    <2> QED BY <2>1, <2>2, SplitCanonical
  <1> QED BY <1>1, <1>2, <1>3 DEF Places

LEMMA EverythingIsNodes == Everything = {TextOf(n) : n \in Nodes}
  BY DEF Everything, Nodes

(* find prints every file and directory of the name once, those of the     *)
(* mounts too, if nothing else changes the files meanwhile.                *)
THEOREM FindsEverything == Spec => []FindIsComplete
  <1>1. Init => Inv /\ FindInv
    BY InvInitially, FindInitially
  <1>2. (Inv /\ FindInv) /\ [Next]_vars => (Inv /\ FindInv)'
    BY InvIsInductive, FindInductive
  <1>3. Inv /\ FindInv => FindIsComplete
    <2> SUFFICES ASSUME Inv, FindInv, NEW p \in Pid, sh[p].pc = "found", sh[p].quiet
                 PROVE  /\ Range(sh[p].found) = {path \in Everything :
                                                   SplitPath(path).basename = Arg(sh[p].line, 1)}
                        /\ sh[p].leftover = <<>> => IsInjective(sh[p].found)
      BY DEF FindIsComplete
    <2> DEFINE found == sh[p].found
               word == Arg(sh[p].line, 1)
    <2>1. VfsType /\ found \in Seq(Canonical)
      BY ShellHas DEF ShellRecord
    <2>2. Searched(sh[p])
      BY DEF FindInv, Finding
    <2> HIDE DEF found, word
    <2>3. /\ OnlyMatching(found, word) /\ AllReached(found, <<>>, word)
          /\ sh[p].leftover = <<>> => EachOnce(found, <<>>)
      BY <2>2 DEF Searched, found, word
    <2>4. \A n \in Nodes : Last(n) = word => TextOf(n) \in Range(found)
      BY <2>3 DEF AllReached, Range
    <2>5. Range(found) = {path \in Everything : SplitPath(path).basename = word}
      <3>1. \A x \in Range(found) : x \in Everything /\ SplitPath(x).basename = word
        BY <2>1, <2>3, NodeNames, EverythingIsNodes DEF OnlyMatching
      <3>2. ASSUME NEW x \in Everything, SplitPath(x).basename = word
            PROVE  x \in Range(found)
        <4>1. PICK n \in Nodes : x = TextOf(n)
          BY EverythingIsNodes
        <4> QED BY <2>1, <2>4, <3>2, <4>1, NodeNames
      <3> QED BY <3>1, <3>2
    <2>6. sh[p].leftover = <<>> => IsInjective(found)
      <3>1. DOMAIN found = 1..Len(found)
        BY <2>1
      <3> QED BY <2>3, <3>1 DEF EachOnce, IsInjective
    <2> QED BY <2>5, <2>6 DEF found, word
  <1> QED BY <1>1, <1>2, <1>3, PTL DEF Spec

-----------------------------------------------------------------------------
(* The paths delete_recursive makes: that of the root is "/", so that of   *)
(* what is below it begins with two slashes. It means the same.            *)

AtOrBelow(n, d) == n = d \/ Within(n, d)

Addressed(path) ==
    /\ path \in Text
    /\ \/ path = TextOf(Words(path))
       \/ Words(path) # <<>> /\ path = Slash \o TextOf(Words(path))

LEMMA JoinThree ==
    ASSUME NEW s \in Text, NEW t \in Text, NEW u \in Text
    PROVE  (s \o t) \o u = s \o (t \o u)
  <1>1. s \in Seq(Symbol) /\ t \in Seq(Symbol) /\ u \in Seq(Symbol)
    BY DEF Text
  <1> QED BY <1>1

LEMMA CanonicalIsAddressed ==
    ASSUME NEW path \in Canonical
    PROVE  Addressed(path)
  BY CanonicalFacts DEF Addressed

LEMMA AddressedChild ==
    ASSUME NEW path, Addressed(path), NEW w \in Name
    PROVE  /\ Addressed(path \o Slash \o w)
           /\ Words(path \o Slash \o w) = Append(Words(path), w)
  <1> DEFINE d == Words(path)
             c == Append(d, w)
             u == path \o Slash \o w
             J == JoinedText(d)
  <1>1. path \in Text /\ d \in Seq(Name) /\ w \in Text /\ Slash \in Text
    BY WordsAreNames, NamesAreText, SlashFacts DEF Addressed
  <1>2. u \in Text
    BY <1>1, JoinFacts
  <1>3. Words(u) = c
    BY <1>1, WordsOfJoin
  <1>4. TextOf(c) = J \o Slash \o w /\ J \in Text /\ c # <<>>
    <2>1. d \in Seq(Text)
      BY <1>1, NamesAreText
    <2> HIDE DEF d
    <2>2. c # <<>>
      BY <1>1, AppendFacts
    <2> QED BY <1>1, <2>1, <2>2, TextOfAppend, JoinedType
  <1>5. d = <<>> => TextOf(d) = Slash /\ J = <<>>
    BY TextOfEmpty, JoinedEmpty
  <1>6. d # <<>> => TextOf(d) = J
    BY TextOfNames
  <1>7. u = TextOf(c) \/ u = Slash \o TextOf(c)
    <2> HIDE DEF d, J, c
    <2>1. CASE path = TextOf(d) /\ d # <<>>
      BY <1>4, <1>6, <2>1
    <2>2. CASE path = TextOf(d) /\ d = <<>>
      <3>1. TextOf(c) = Slash \o w
        <4>1. <<>> \o Slash = Slash
          BY <1>1 DEF Text
        <4> QED BY <1>4, <1>5, <2>2, <4>1
      <3>2. u = Slash \o (Slash \o w)
        BY <1>1, <1>5, <2>2, JoinThree
      <3> QED BY <3>1, <3>2
    <2>3. CASE path = Slash \o TextOf(d) /\ d # <<>>
      <3>1. path = Slash \o J
        BY <1>6, <2>3
      <3>2. J \o Slash \in Text
        BY <1>1, <1>4, JoinTexts
      <3>3. (Slash \o J) \o Slash = Slash \o (J \o Slash)
        BY <1>1, <1>4, JoinThree
      <3>4. (Slash \o (J \o Slash)) \o w = Slash \o ((J \o Slash) \o w)
        BY <1>1, <3>2, JoinThree
      <3> QED BY <1>4, <3>1, <3>3, <3>4
    <2> QED BY <2>1, <2>2, <2>3 DEF Addressed, d
  <1> QED BY <1>2, <1>3, <1>4, <1>7 DEF Addressed

LEMMA DoubledIsFat ==
    ASSUME NEW n \in Seq(Name), n # <<>>
    PROVE  HandlerOf(Slash \o TextOf(n)) = "fat32" /\ Slash \o TextOf(n) # Slash
  <1> DEFINE t == TextOf(n)
             u == Slash \o t
  <1>1. t \in Canonical
    BY DEF Canonical
  <1>2. t \in Text /\ t # <<>> /\ Head(t) = "/"
    BY <1>1, CanonicalFacts
  <1> HIDE DEF t
  <1>3. t \in Seq(Symbol)
    BY <1>2 DEF Text
  <1>4. Len(t) >= 1 /\ Len(t) \in Nat /\ t[1] = "/"
    BY <1>2, <1>3
  <1>5. /\ u \in Text /\ Len(u) = 1 + Len(t) /\ u[1] = "/" /\ u[2] = "/"
    <2>1. /\ u \in Text /\ Len(u) = Len(Slash) + Len(t)
          /\ \A i \in 1..Len(Slash) : u[i] = Slash[i]
          /\ \A i \in 1..(Len(Slash) + Len(t)) : i > Len(Slash) => u[i] = t[i - Len(Slash)]
      BY <1>2, SlashFacts, JoinTexts
    <2> HIDE DEF u
    <2>2. u[1] = "/"
      BY <2>1, SlashFacts
    <2>3. u[2] = t[1]
      BY <1>4, <2>1, SlashFacts
    <2> QED BY <1>4, <2>1, <2>2, <2>3, SlashFacts
  <1> HIDE DEF u
  <1>6. HandlerOf(u) = "fat32"
    BY <1>4, <1>5, FatUnlessMount
  <1>7. ASSUME u = Slash PROVE FALSE
    <2>1. Len(u) = 1
      BY <1>7, SlashFacts
    <2>2. Len(u) = 1 + Len(t) /\ Len(t) \in Nat /\ Len(t) >= 1
      BY <1>4, <1>5
    <2> QED BY <2>1, <2>2
  <1> QED BY <1>6, <1>7 DEF u, t

(* Where there is something in the tree at or below it, a path is one of   *)
(* the FAT32 file system.                                                  *)
LEMMA AddressedHandler ==
    ASSUME VfsType, NEW path, Addressed(path), Words(path) = <<>> \/ Words(path) \in DOMAIN tree
    PROVE  HandlerOf(path) = "fat32"
  <1> DEFINE d == Words(path)
  <1>1. d \in Seq(Name)
    BY WordsAreNames DEF Addressed
  <1>2. CASE path = TextOf(d) /\ d = <<>>
    BY <1>2, TextOfEmpty, RootIsFat
  <1>3. CASE path = TextOf(d) /\ d \in DOMAIN tree
    BY <1>3 DEF VfsType, IsTree
  <1>4. CASE path = Slash \o TextOf(d) /\ d # <<>>
    BY <1>1, <1>4, DoubledIsFat
  <1> QED BY <1>2, <1>3, <1>4 DEF Addressed

LEMMA DirectoryNotEmpty ==
    ASSUME VfsType, NEW d \in Seq(Text), NEW n \in DOMAIN tree, Within(n, d)
    PROVE  IsDirectory(d) /\ Cardinality(Children(d)) \in Nat /\ Cardinality(Children(d)) # 0
  <1> DEFINE c == Append(d, n[Len(d) + 1])
  <1>1. IsTree(tree) /\ n \in Seq(Text)
    BY PlacesAreTexts DEF VfsType, IsTree
  <1>2. d = <<>> \/ (d \in DOMAIN tree /\ tree[d].type = "dir")
    BY <1>1, TreeIsClosed
  <1>3. n[Len(d) + 1] \in Text /\ c \in Seq(Text) /\ (n = c \/ Within(n, c))
    BY <1>1, WithinNext
  <1>4. c # <<>> /\ c = Append(d, Last(c))
    BY <1>3, AppendFacts
  <1> HIDE DEF c
  <1>5. c \in DOMAIN tree
    BY <1>1, <1>3, <1>4, TreeIsClosed
  <1>6. c \in Children(d)
    BY <1>3, <1>4, <1>5, OneLonger DEF Children
  <1>7. IsFiniteSet(Children(d)) /\ Cardinality(Children(d)) \in Nat
    BY <1>1, ChildrenFacts
  <1>8. Cardinality(Children(d)) # 0
    BY <1>6, <1>7, FS_EmptySet
  <1> QED BY <1>2, <1>7, <1>8 DEF IsDirectory

(* If there is something at a path or below it, VFS_STAT finds it; and a   *)
(* directory with something below it is not empty.                         *)
LEMMA StatFinds ==
    ASSUME VfsType, NEW path, Addressed(path), NEW n \in DOMAIN tree, AtOrBelow(n, Words(path))
    PROVE  /\ Stat(path).type \in {"dir", "file"}
           /\ Within(n, Words(path)) => Stat(path).type = "dir" /\ Stat(path).size # 0
  <1> DEFINE d == Words(path)
  <1>1. path \in Text /\ d \in Seq(Name) /\ d \in Seq(Text)
    BY WordsAreNames, NamesAreText DEF Addressed
  <1>2. IsTree(tree) /\ n \in Seq(Text)
    BY PlacesAreTexts DEF VfsType, IsTree
  <1> HIDE DEF d
  <1>3. d = <<>> \/ d \in DOMAIN tree
    <2>1. n = d \/ Within(n, d)
      BY DEF AtOrBelow, d
    <2>2. CASE n = d
      BY <2>2
    <2>3. CASE Within(n, d)
      BY <1>1, <2>3, DirectoryNotEmpty DEF IsDirectory
    <2> QED BY <2>1, <2>2, <2>3
  <1>4. HandlerStat(path) = FatStat(d)
    <2>1. HandlerOf(path) = "fat32"
      BY <1>3, AddressedHandler DEF d
    <2> QED BY <2>1 DEF HandlerStat, d
  <1>5. Stat(path).type = FatStat(d).type
    BY <1>1, <1>4, ListingLength
  <1>6. FatStat(d).type \in {"dir", "file"}
    <2>1. CASE d = <<>>
      BY <1>1, <1>2, <2>1, FatStatFacts DEF IsDirectory
    <2>2. CASE d \in DOMAIN tree
      <3>1. tree[d] \in Node
        BY <1>2, <2>2 DEF IsTree
      <3>2. FatStat(d).type = tree[d].type
        BY <1>1, <1>2, <2>2, FatStatFacts
      <3> QED BY <3>1, <3>2 DEF Node
    <2> QED BY <1>3, <2>1, <2>2
  <1>7. ASSUME Within(n, d)
        PROVE  Stat(path).type = "dir" /\ Stat(path).size # 0
    <2>1. IsDirectory(d) /\ Cardinality(Children(d)) \in Nat /\ Cardinality(Children(d)) # 0
      BY <1>1, <1>7, DirectoryNotEmpty
    <2>2. FatStat(d).type = "dir" /\ FatStat(d).size = Cardinality(Children(d)) /\ FatStat(d) \in EntryType
      BY <1>1, <1>2, <2>1, FatStatFacts
    <2>3. Len(MountsIn(path)) \in Nat
      BY MountsFacts
    <2>4. Stat(path).size = Cardinality(Children(d)) + Len(MountsIn(path))
      <3> DEFINE e == FatStat(d)
                 k == Len(MountsIn(path))
      <3>1. Stat(path) = [e EXCEPT !.size = @ + k]
        BY <1>4, <2>2 DEF Stat
      <3> HIDE DEF e, k
      <3>2. e \in EntryType
        BY <2>2 DEF e
      <3>3. Stat(path).size = e.size + k
        BY <3>1, <3>2 DEF EntryType
      <3> QED BY <2>2, <3>3 DEF e, k
    <2> QED BY <1>5, <2>1, <2>2, <2>3, <2>4
  <1> QED BY <1>5, <1>6, <1>7 DEF d

(* e has the names of what is in d.                                        *)
ListsTree(e, d) ==
    /\ \A i, j \in 1..Len(e) : e[i].name = e[j].name => i = j
    /\ \A w \in Text : Append(d, w) \in DOMAIN tree => \E i \in 1..Len(e) : e[i].name = w

LEMMA ListsBelow ==
    ASSUME VfsType, NEW path, Addressed(path), Stat(path).type = "dir"
    PROVE  DirStat(path) \in Seq(EntryType) /\ ListsTree(DirStat(path), Words(path))
  <1> DEFINE d == Words(path)
             q == FatDirStat(d)
  <1>1. path \in Text /\ d \in Seq(Name) /\ d \in Seq(Text)
    BY WordsAreNames, NamesAreText DEF Addressed
  <1>2. DirStat(path) \in Seq(EntryType) /\ HandlerStat(path).type = "dir"
    BY <1>1, ListingLength
  <1>3. CASE path = TextOf(d)
    <2>1. path \in Canonical
      BY <1>1, <1>3 DEF Canonical
    <2>2. ListsAll(DirStat(path), d)
      BY <2>1, ListingComplete
    <2> HIDE DEF d
    <2>3. \A n \in DOMAIN tree : n \in Nodes
      BY DEF Nodes
    <2>4. ListsTree(DirStat(path), d)
      BY <2>2, <2>3 DEF ListsAll, ListsTree
    <2> QED BY <1>2, <2>4 DEF d
  <1>4. CASE path = Slash \o TextOf(d) /\ d # <<>>
    <2>1. HandlerOf(path) = "fat32" /\ path # Slash
      BY <1>1, <1>4, DoubledIsFat
    <2> HIDE DEF d
    <2>2. /\ q \in Seq(EntryType)
          /\ \A i, j \in 1..Len(q) : q[i].name = q[j].name => i = j
          /\ \A w \in Text : Append(d, w) \in DOMAIN tree =>
                \E i \in 1..Len(q) : q[i].name = w /\ q[i].type = tree[Append(d, w)].type
      BY <1>1, FatComplete
    <2>3. DirStat(path) = q
      BY <1>2, <2>1, <2>2, ListedBelowRoot DEF Own, d
    <2> HIDE DEF q
    <2>4. ListsTree(q, d)
      BY <2>2 DEF ListsTree
    <2> QED BY <1>2, <2>3, <2>4 DEF d
  <1> QED BY <1>3, <1>4 DEF Addressed

LEMMA WithinIsTransitive ==
    ASSUME NEW a \in Seq(Text), NEW b \in Seq(Text), NEW c \in Seq(Text)
    PROVE  /\ Within(a, b) /\ Within(b, c) => Within(a, c)
           /\ AtOrBelow(a, b) /\ AtOrBelow(b, c) => AtOrBelow(a, c)
           /\ Within(a, b) /\ AtOrBelow(b, c) => Within(a, c)
  <1>1. Len(a) \in Nat /\ Len(b) \in Nat /\ Len(c) \in Nat
    OBVIOUS
  <1>2. ASSUME Within(a, b), Within(b, c)
        PROVE  Within(a, c)
    <2>1. Len(c) < Len(b) /\ Len(b) < Len(a) /\ \A i \in 1..Len(c) : i \in 1..Len(b)
      BY <1>1, <1>2 DEF Within
    <2>2. (\A i \in 1..Len(b) : a[i] = b[i]) /\ (\A i \in 1..Len(c) : b[i] = c[i])
      BY <1>2 DEF Within
    <2>3. \A i \in 1..Len(c) : a[i] = c[i]
      BY <2>1, <2>2
    <2> QED BY <1>1, <2>1, <2>3 DEF Within
  <1> QED BY <1>2 DEF AtOrBelow

(* What is below two directories is in a line with them.                   *)
LEMMA BelowTwo ==
    ASSUME NEW a \in Seq(Text), NEW b \in Seq(Text), NEW c \in Seq(Text),
           AtOrBelow(a, b), AtOrBelow(a, c)
    PROVE  AtOrBelow(b, c) \/ Within(c, b)
  <1>1. Len(a) \in Nat /\ Len(b) \in Nat /\ Len(c) \in Nat
    OBVIOUS
  <1>2. CASE a = b \/ a = c
    BY <1>2 DEF AtOrBelow
  <1>3. CASE Within(a, b) /\ Within(a, c)
    <2>1. (\A i \in 1..Len(b) : a[i] = b[i]) /\ (\A i \in 1..Len(c) : a[i] = c[i])
      BY <1>3 DEF Within
    <2>2. CASE Len(c) < Len(b)
      <3>1. \A i \in 1..Len(c) : i \in 1..Len(b)
        BY <1>1, <2>2
      <3>2. Within(b, c)
        BY <2>1, <2>2, <3>1 DEF Within
      <3> QED BY <3>2 DEF AtOrBelow
    <2>3. CASE Len(b) < Len(c)
      <3>1. \A i \in 1..Len(b) : i \in 1..Len(c)
        BY <1>1, <2>3
      <3> QED BY <2>1, <2>3, <3>1 DEF Within
    <2>4. CASE Len(b) = Len(c)
      <3>1. \A i \in 1..Len(b) : b[i] = c[i]
        BY <2>1, <2>4
      <3>2. b = c
        BY <2>4, <3>1
      <3> QED BY <3>2 DEF AtOrBelow
    <2> QED BY <1>1, <2>2, <2>3, <2>4
  <1> QED BY <1>2, <1>3 DEF AtOrBelow

-----------------------------------------------------------------------------
(* What delete_recursive has removed and still has to do.                  *)

(* Of the tree b the tree t is what is left, all that is not below P.      *)
Removes(P, b, t) ==
    /\ DOMAIN t \subseteq DOMAIN b
    /\ \A n \in DOMAIN t : t[n] = b[n]
    /\ \A n \in DOMAIN b : n \notin DOMAIN t => AtOrBelow(n, P)

(* The path n is deleted by the item, or by those it is replaced by.       *)
Covers(item, n) ==
    n = Words(item.path) \/ (item.op # "delete" /\ Within(n, Words(item.path)))

WorkBelow(P, work) ==
    \A i \in 1..Len(work) : Addressed(work[i].path) /\ AtOrBelow(Words(work[i].path), P)

CoversAll(P, t, work) ==
    \A n \in DOMAIN t : AtOrBelow(n, P) => \E i \in 1..Len(work) : Covers(work[i], n)

(* What is below a directory is deleted before it, and each by one item.   *)
InOrder(work) ==
    \A i, j \in 1..Len(work) : i < j =>
        /\ ~Within(Words(work[j].path), Words(work[i].path))
        /\ work[j].op # "delete" => ~AtOrBelow(Words(work[i].path), Words(work[j].path))

(* The first item is replaced by others, of what it covers.                *)
Replaces(new, item, t) ==
    /\ new \in Seq(WorkItem)
    /\ WorkBelow(Words(item.path), new)
    /\ \A n \in DOMAIN t : Covers(item, n) => \E k \in 1..Len(new) : Covers(new[k], n)
    /\ InOrder(new)

LEMMA WorkPaths ==
    ASSUME NEW P, NEW work, WorkBelow(P, work)
    PROVE  \A i \in 1..Len(work) : Words(work[i].path) \in Seq(Text)
  BY WordsAreNames, NamesAreText DEF WorkBelow, Addressed

LEMMA ReplacedWork ==
    ASSUME NEW P \in Seq(Text), NEW work \in Seq(WorkItem), HasWork(work), NEW new, NEW b, NEW t,
           DOMAIN t \subseteq DOMAIN b,
           Replaces(new, Head(work), t),
           WorkBelow(P, work), CoversAll(P, b, work), InOrder(work)
    PROVE  /\ WorkBelow(P, new \o Tail(work))
           /\ CoversAll(P, t, new \o Tail(work))
           /\ InOrder(new \o Tail(work))
  <1> DEFINE rest == Tail(work)
             n == Len(new)
             m == Len(rest)
             all == new \o rest
             W(i) == Words(work[i].path)
             N(k) == Words(new[k].path)
             R(k) == Words(rest[k].path)
             A(k) == Words(all[k].path)
  <1>1. /\ new \in Seq(WorkItem) /\ rest \in Seq(WorkItem) /\ work[1] = Head(work)
        /\ Len(work) \in Nat /\ Len(work) >= 1 /\ m = Len(work) - 1
        /\ \A i \in 1..m : rest[i] = work[i + 1]
    BY TailOfWork DEF Replaces
  <1> HIDE DEF rest
  <1>2. n \in Nat /\ m \in Nat /\ 1 \in 1..Len(work) /\ \A j \in 1..m : j + 1 \in 1..Len(work) /\ 1 < j + 1
    BY <1>1
  <1>3. \A i \in 2..Len(work) : i - 1 \in 1..m /\ rest[i - 1] = work[i]
    <2>1. \A i \in 2..Len(work) : i - 1 \in 1..m /\ (i - 1) + 1 = i
      BY <1>1
    <2> QED BY <1>1, <2>1
  <1>4. /\ \A k \in 1..n : k \in 1..Len(all) /\ all[k] = new[k]
        /\ \A k \in 1..m : n + k \in 1..Len(all) /\ all[n + k] = rest[k]
        /\ \A i \in 1..Len(all) : \/ i \in 1..n
                                  \/ i - n \in 1..m /\ i = n + (i - n)
    BY <1>1, JoinSeqs
  <1>5. /\ \A i \in 1..Len(work) : W(i) \in Seq(Text)
        /\ \A k \in 1..n : N(k) \in Seq(Text)
    BY WorkPaths DEF Replaces
  <1>6. \A k \in 1..n : AtOrBelow(N(k), W(1)) /\ Addressed(new[k].path)
    BY <1>1 DEF Replaces, WorkBelow
  <1>7. \A k \in 1..m : R(k) = W(k + 1) /\ R(k) \in Seq(Text) /\ rest[k] = work[k + 1]
    BY <1>1, <1>2, <1>5
  <1> HIDE DEF all, n, m
  <1>8. \A i \in 1..Len(all) : \/ i \in 1..n /\ all[i] = new[i]
                               \/ \E k \in 1..m : i = n + k /\ all[i] = rest[k]
    BY <1>4
  <1>9. WorkBelow(P, all)
    <2>1. \A k \in 1..n : Addressed(new[k].path) /\ AtOrBelow(N(k), P)
      <3>1. AtOrBelow(W(1), P)
        BY <1>2 DEF WorkBelow
      <3> HIDE DEF N, W
      <3> QED BY <1>2, <1>5, <1>6, <3>1, WithinIsTransitive
    <2>2. \A k \in 1..m : Addressed(rest[k].path) /\ AtOrBelow(R(k), P)
      BY <1>2, <1>7 DEF WorkBelow
    <2> QED BY <1>8, <2>1, <2>2 DEF WorkBelow
  <1>10. CoversAll(P, t, all)
    <2> SUFFICES ASSUME NEW x \in DOMAIN t, AtOrBelow(x, P)
                 PROVE  \E i \in 1..Len(all) : Covers(all[i], x)
      BY DEF CoversAll
    <2>1. PICK i \in 1..Len(work) : Covers(work[i], x)
      BY DEF CoversAll
    <2>2. CASE i = 1
      <3>1. PICK k \in 1..n : Covers(new[k], x)
        BY <1>1, <2>1, <2>2 DEF Replaces, n
      <3> QED BY <1>4, <3>1
    <2>3. CASE i # 1
      <3>1. i \in 2..Len(work)
        BY <1>2, <2>3
      <3>2. i - 1 \in 1..m /\ rest[i - 1] = work[i]
        BY <1>3, <3>1
      <3>3. n + (i - 1) \in 1..Len(all) /\ all[n + (i - 1)] = rest[i - 1]
        BY <1>4, <3>2
      <3> QED BY <2>1, <3>2, <3>3
    <2> QED BY <2>2, <2>3
  <1>11. InOrder(all)
    <2> DEFINE Fine(a, b1) == /\ ~Within(Words(b1.path), Words(a.path))
                              /\ b1.op # "delete" => ~AtOrBelow(Words(a.path), Words(b1.path))
    <2>1. ASSUME NEW i \in 1..n, NEW j \in 1..n, i < j
          PROVE  Fine(new[i], new[j])
      BY <2>1 DEF Replaces, InOrder, n
    <2>2. ASSUME NEW i \in 1..m, NEW j \in 1..m, i < j
          PROVE  Fine(rest[i], rest[j])
      <3>1. i + 1 \in 1..Len(work) /\ j + 1 \in 1..Len(work) /\ i + 1 < j + 1
        BY <1>2, <2>2
      <3> QED BY <1>7, <3>1 DEF InOrder
    <2>3. ASSUME NEW i \in 1..n, NEW j \in 1..m
          PROVE  Fine(new[i], rest[j])
      <3>1. Fine(work[1], work[j + 1])
        BY <1>2 DEF InOrder
      <3>2. AtOrBelow(N(i), W(1)) /\ N(i) \in Seq(Text) /\ W(1) \in Seq(Text) /\ W(j + 1) \in Seq(Text)
            /\ rest[j] = work[j + 1]
        BY <1>2, <1>5, <1>6, <1>7
      <3>3. ~Within(W(j + 1), N(i))
        <4> HIDE DEF N, W
        <4>1. Within(W(j + 1), N(i)) => Within(W(j + 1), W(1))
          BY <3>2, WithinIsTransitive
        <4> QED BY <3>1, <4>1 DEF W
      <3>4. work[j + 1].op # "delete" => ~AtOrBelow(N(i), W(j + 1))
        <4> SUFFICES ASSUME work[j + 1].op # "delete", AtOrBelow(N(i), W(j + 1)) PROVE FALSE
          OBVIOUS
        <4>1. ~AtOrBelow(W(1), W(j + 1)) /\ ~Within(W(j + 1), W(1))
          BY <3>1
        <4> HIDE DEF N, W
        <4> QED BY <3>2, <4>1, BelowTwo
      <3> QED BY <3>2, <3>3, <3>4
    <2> HIDE DEF Fine
    <2>4. ASSUME NEW i \in 1..Len(all), NEW j \in 1..Len(all), i < j
          PROVE  Fine(all[i], all[j])
      <3>1. CASE j \in 1..n
        <4>1. i \in 1..n
          BY <1>2, <2>4, <3>1
        <4> QED BY <1>4, <2>1, <2>4, <3>1, <4>1
      <3>2. CASE j \notin 1..n
        <4>1. PICK l \in 1..m : j = n + l /\ all[j] = rest[l]
          BY <1>8, <3>2
        <4>2. CASE i \in 1..n
          BY <1>4, <2>3, <4>1, <4>2
        <4>3. CASE i \notin 1..n
          <5>1. PICK k \in 1..m : i = n + k /\ all[i] = rest[k]
            BY <1>8, <4>3
          <5>2. k < l
            BY <1>2, <2>4, <4>1, <5>1
          <5> QED BY <2>2, <4>1, <5>1, <5>2
        <4> QED BY <4>2, <4>3
      <3> QED BY <3>1, <3>2
    <2> QED BY <2>4 DEF InOrder, Fine
  <1> QED BY <1>9, <1>10, <1>11 DEF all, rest

LEMMA NothingReplaces ==
    ASSUME NEW item, NEW t, \A n \in DOMAIN t : ~Covers(item, n)
    PROVE  Replaces(<<>>, item, t)
  <1>1. <<>> \in Seq(WorkItem) /\ Len(<<>>) = 0 /\ 1..0 = {}
    OBVIOUS
  <1> HIDE DEF Covers
  <1>2. WorkBelow(Words(item.path), <<>>) /\ InOrder(<<>>)
    BY <1>1 DEF WorkBelow, InOrder
  <1> QED BY <1>1, <1>2 DEF Replaces

LEMMA OneReplaces ==
    ASSUME NEW item \in WorkItem, Addressed(item.path), NEW op \in {"list", "delete"}, NEW t,
           op = "delete" => \A n \in DOMAIN t : ~Within(n, Words(item.path))
    PROVE  Replaces(<<Item(op, item.path)>>, item, t)
  <1> DEFINE i == Item(op, item.path)
             new == <<i>>
  <1>1. item.path \in Text
    BY DEF WorkItem
  <1>2. /\ new \in Seq(WorkItem) /\ Len(new) = 1 /\ new[1] = i
        /\ i.op = op /\ i.path = item.path
    BY <1>1, OneItem
  <1> HIDE DEF new, i
  <1>3. \A k \in 1..Len(new) : k = 1
    BY <1>2
  <1>4. WorkBelow(Words(item.path), new)
    BY <1>2, <1>3 DEF WorkBelow, AtOrBelow
  <1>5. InOrder(new)
    <2>1. \A k, l \in 1..Len(new) : ~(k < l)
      BY <1>2
    <2> QED BY <2>1 DEF InOrder
  <1>6. ASSUME NEW n \in DOMAIN t, Covers(item, n)
        PROVE  \E k \in 1..Len(new) : Covers(new[k], n)
    <2>1. Covers(new[1], n)
      BY <1>2, <1>6 DEF Covers
    <2>2. 1 \in 1..Len(new)
      BY <1>2
    <2> QED BY <2>1, <2>2
  <1> QED BY <1>2, <1>4, <1>5, <1>6 DEF Replaces, new, i

(* The directory is replaced by its entries, and itself behind them.       *)
LEMMA ExpansionReplaces ==
    ASSUME VfsType, NEW item \in WorkItem, Addressed(item.path),
           NEW entries \in Seq(EntryType), ListsTree(entries, Words(item.path)),
           \A i \in 1..Len(entries) : entries[i].name # <<>>
    PROVE  Replaces(Expand(item.path, entries), item, tree)
  <1> DEFINE path == item.path
             d == Words(path)
             new == Expand(path, entries)
             m == Len(entries)
             c(i) == Append(d, entries[i].name)
  <1>1. path \in Text /\ d \in Seq(Name) /\ d \in Seq(Text)
    BY WordsAreNames, NamesAreText DEF Addressed
  <1>2. \A i \in 1..m : entries[i].name \in Name /\ entries[i].name \in Text
    <2>1. \A i \in 1..m : entries[i] \in EntryType
      OBVIOUS
    <2>2. \A e \in EntryType : e.name # <<>> => e.name \in Name
      BY DEF EntryType
    <2> HIDE DEF m
    <2>3. \A i \in 1..m : entries[i].name \in Name
      BY <2>1, <2>2 DEF m
    <2> QED BY <2>3, NamesAreText
  <1>3. /\ new \in Seq(WorkItem) /\ Len(new) = m + 1 /\ m \in Nat
        /\ \A i \in 1..m : new[i] = Item("stat", path \o Slash \o entries[i].name)
        /\ new[m + 1] = Item("delete", path)
    BY <1>1, ExpandFacts
  <1> HIDE DEF path, new, m
  <1>4. \A i \in 1..m : Words(path \o Slash \o entries[i].name) = c(i)
                        /\ Addressed(path \o Slash \o entries[i].name)
    BY <1>2, AddressedChild DEF path, d
  <1>5. \A i \in 1..m : /\ new[i].op = "stat" /\ Words(new[i].path) = c(i) /\ Addressed(new[i].path)
    <2>1. \A x : Item("stat", x).op = "stat" /\ Item("stat", x).path = x
      BY DEF Item
    <2> HIDE DEF c
    <2> QED BY <1>3, <1>4, <2>1
  <1>6. new[m + 1].op = "delete" /\ Words(new[m + 1].path) = d /\ Addressed(new[m + 1].path)
    <2>1. Item("delete", path).op = "delete" /\ Item("delete", path).path = path
      BY DEF Item
    <2>2. Words(path) = d /\ Addressed(path)
      BY DEF path, d
    <2> HIDE DEF d
    <2> QED BY <1>3, <2>1, <2>2
  <1>7. \A i \in 1..Len(new) : i \in 1..m \/ i = m + 1
    BY <1>3
  <1> HIDE DEF d
  <1>8. \A i \in 1..m : c(i) \in Seq(Text) /\ Within(c(i), d) /\ ~Within(d, c(i)) /\ Len(c(i)) = Len(d) + 1
    <2>1. ASSUME NEW w \in Text
          PROVE  /\ Append(d, w) \in Seq(Text) /\ Within(Append(d, w), d)
                 /\ ~Within(d, Append(d, w)) /\ Len(Append(d, w)) = Len(d) + 1
      <3>1. Append(d, w) \in Seq(Text) /\ Len(Append(d, w)) = Len(d) + 1 /\ Len(d) \in Nat
        BY <1>1
      <3>2. Within(Append(d, w), d)
        BY <1>1, WithinAppend
      <3> QED BY <3>1, <3>2 DEF Within
    <2> QED BY <1>2, <2>1
  <1>9. WorkBelow(d, new)
    <2>1. \A i \in 1..m : AtOrBelow(c(i), d)
      BY <1>8 DEF AtOrBelow
    <2>2. AtOrBelow(d, d)
      BY DEF AtOrBelow
    <2> HIDE DEF c
    <2> QED BY <1>5, <1>6, <1>7, <2>1, <2>2 DEF WorkBelow
  <1>10. ASSUME NEW i \in 1..m, NEW j \in 1..m, i # j
         PROVE  ~Within(c(j), c(i)) /\ ~AtOrBelow(c(i), c(j))
    <2>1. entries[i].name # entries[j].name
      BY <1>10 DEF ListsTree, m
    <2>2. c(i) # c(j)
      BY <1>1, <1>2, <2>1, SameEnds
    <2>3. ~Within(c(j), c(i)) /\ ~Within(c(i), c(j))
      <3>1. Len(c(i)) = Len(c(j)) /\ Len(c(i)) \in Nat
        BY <1>1, <1>8
      <3> QED BY <3>1 DEF Within
    <2> QED BY <2>2, <2>3 DEF AtOrBelow
  <1>11. InOrder(new)
    <2> SUFFICES ASSUME NEW i \in 1..Len(new), NEW j \in 1..Len(new), i < j
                 PROVE  /\ ~Within(Words(new[j].path), Words(new[i].path))
                        /\ new[j].op # "delete" => ~AtOrBelow(Words(new[i].path), Words(new[j].path))
      BY DEF InOrder
    <2>1. i \in 1..m /\ i # j
      BY <1>3
    <2>2. CASE j \in 1..m
      <3> HIDE DEF c
      <3> QED BY <1>5, <1>10, <2>1, <2>2
    <2>3. CASE j = m + 1
      <3> HIDE DEF c
      <3> QED BY <1>5, <1>6, <1>8, <2>1, <2>3
    <2> QED BY <1>7, <2>2, <2>3
  <1>12. ASSUME NEW n \in DOMAIN tree, Covers(item, n)
         PROVE  \E k \in 1..Len(new) : Covers(new[k], n)
    <2>1. n = d \/ Within(n, d)
      BY <1>12 DEF Covers, d, path
    <2>2. CASE n = d
      <3>1. m + 1 \in 1..Len(new)
        BY <1>3
      <3> QED BY <1>6, <2>2, <3>1 DEF Covers
    <2>3. CASE Within(n, d)
      <3> DEFINE w == n[Len(d) + 1]
                 x == Append(d, w)
      <3>1. IsTree(tree) /\ n \in Seq(Text)
        BY PlacesAreTexts DEF VfsType, IsTree
      <3>2. w \in Text /\ x \in Seq(Text) /\ (n = x \/ Within(n, x))
        BY <1>1, <2>3, <3>1, WithinNext
      <3> HIDE DEF w
      <3>3. x # <<>>
        BY <1>1, <3>2, AppendFacts
      <3>4. x \in DOMAIN tree
        <4> HIDE DEF x
        <4> QED BY <3>1, <3>2, <3>3, TreeIsClosed
      <3>5. PICK k \in 1..m : entries[k].name = w
        BY <3>2, <3>4 DEF ListsTree, m, d, path
      <3>6. k \in 1..Len(new) /\ c(k) = x
        BY <1>3, <3>5
      <3> HIDE DEF c, x
      <3>7. Covers(new[k], n)
        BY <1>5, <3>2, <3>6 DEF Covers
      <3> QED BY <3>6, <3>7
    <2> QED BY <2>1, <2>2, <2>3
  <1> QED BY <1>3, <1>9, <1>11, <1>12 DEF Replaces, new, path, d

Remains(s, t) ==
    /\ Removes(Words(s.path), s.before, t)
    /\ WorkBelow(Words(s.path), s.work)
    /\ CoversAll(Words(s.path), t, s.work)
    /\ InOrder(s.work)

ListsDirectory(s) == Head(s.work).op = "list" => Stat(Head(s.work).path).type = "dir"

Deleting(s) == s.quiet /\ (s.pc = "del -r" \/ (s.pc = "stat" /\ s.line.cmd = "del -r"))

Unfinished(s) ==
    /\ s.pc = "stat" => s.before = tree
    /\ s.pc = "del -r" => Remains(s, tree) /\ ListsDirectory(s)

DeleteInv == \A p \in Pid : Deleting(sh[p]) => Unfinished(sh[p])

(* Shell p goes on as r, with that work.                                   *)
Continues(p, r, work) ==
    /\ work = <<>> => r.pc = "prompt"
    /\ work # <<>> => /\ r.pc = "del -r" /\ r.work = work
                      /\ r.path = sh[p].path /\ r.before = sh[p].before /\ r.quiet = sh[p].quiet

DeletesOn(p, work) ==
    /\ Removes(Words(sh[p].path), sh[p].before, tree')
    /\ WorkBelow(Words(sh[p].path), work)
    /\ CoversAll(Words(sh[p].path), tree', work)
    /\ InOrder(work)
    /\ Continues(p, sh'[p], work)
    /\ work # <<>> /\ Head(work).op = "list" => Stat(Head(work).path).type = "dir" /\ UNCHANGED vfsVars

Removing(p) == sh[p].pc = "del -r"

LEMMA WithWorkContinues ==
    ASSUME Inv, NEW p \in Pid, Removing(p), NEW work \in Seq(WorkItem),
           work # <<>> => HasWork(work), NEW entry
    PROVE  /\ WithWork(p, work).pc = "prompt" <=> work = <<>>
           /\ Continues(p, WithWork(p, work), work)
           /\ work # <<>> => Continues(p, [WithWork(p, work) EXCEPT !.entry = entry], work)
  <1> DEFINE s == WithWork(p, work)
             r == [s EXCEPT !.entry = entry]
  <1>1. sh[p] \in ShellRecord
    BY ShellHas
  <1>2. CASE work = <<>>
    <2>1. s.pc = "prompt"
      BY <1>2, WithWorkFacts DEF Removing
    <2> QED BY <1>2, <2>1 DEF Continues
  <1>3. CASE work # <<>>
    <2>1. s = [sh[p] EXCEPT !.work = work]
      BY <1>3 DEF WithWork
    <2> HIDE DEF s
    <2>2. /\ s.pc = sh[p].pc /\ s.work = work /\ s \in ShellRecord
          /\ s.path = sh[p].path /\ s.before = sh[p].before /\ s.quiet = sh[p].quiet
      BY <1>1, <1>3, <2>1 DEF ShellRecord
    <2>3. /\ r.pc = sh[p].pc /\ r.work = work
          /\ r.path = sh[p].path /\ r.before = sh[p].before /\ r.quiet = sh[p].quiet
      BY <2>2 DEF ShellRecord
    <2>5. s.pc = "del -r" /\ r.pc = "del -r"
      BY <2>2, <2>3, Zenon DEF Removing
    <2>6. s.pc # "prompt"
      BY <2>5
    <2> HIDE DEF r
    <2>4. Continues(p, s, work) /\ Continues(p, r, work) /\ s.pc # "prompt"
      BY <1>3, <2>2, <2>3, <2>5, <2>6, Zenon DEF Continues
    <2> QED BY <1>3, <2>4 DEF s, r
  <1> QED BY <1>2, <1>3

LEMMA FirstReplaced ==
    ASSUME Inv, NEW p \in Pid, Removing(p), Remains(sh[p], tree),
           NEW t, DOMAIN t \subseteq DOMAIN tree, NEW new, Replaces(new, Todo(p), t)
    PROVE  /\ WorkBelow(Words(sh[p].path), new \o Tail(sh[p].work))
           /\ CoversAll(Words(sh[p].path), t, new \o Tail(sh[p].work))
           /\ InOrder(new \o Tail(sh[p].work))
  <1> DEFINE P == Words(sh[p].path)
             old == sh[p].work
  <1>1. P \in Seq(Text)
    BY ShellHas, CanonicalFacts, NamesAreText
  <1>2. old \in Seq(WorkItem) /\ HasWork(old)
    BY TodoFacts DEF Removing
  <1>3. WorkBelow(P, old) /\ CoversAll(P, tree, old) /\ InOrder(old)
    BY DEF Remains
  <1>4. Replaces(new, Head(old), t)
    BY DEF Todo
  <1> HIDE DEF P, old
  <1>5. /\ WorkBelow(P, new \o Tail(old))
        /\ CoversAll(P, t, new \o Tail(old))
        /\ InOrder(new \o Tail(old))
    BY <1>1, <1>2, <1>3, <1>4, ReplacedWork
  <1> QED BY <1>5 DEF P, old

(* Only what replaced the first item may begin with a listing.             *)
LEMMA WorkReplaced ==
    ASSUME Inv, NEW p \in Pid, Removing(p),
           NEW new \in Seq(WorkItem), \A i \in 2..Len(new) : new[i].op # "list",
           NEW work, work = new \o Tail(sh[p].work)
    PROVE  /\ work \in Seq(WorkItem) /\ (work # <<>> => HasWork(work))
           /\ work # <<>> /\ Head(work).op = "list" => new # <<>> /\ Head(work) = Head(new)
  <1> DEFINE rest == Tail(sh[p].work)
  <1>1. rest \in Seq(WorkItem) /\ \A i \in 1..Len(rest) : rest[i].op # "list"
    BY TodoFacts DEF Removing
  <1>2. work = new \o rest
    OBVIOUS
  <1> HIDE DEF rest
  <1>3. /\ new \o rest \in Seq(WorkItem)
        /\ new \o rest # <<>> => HasWork(new \o rest)
        /\ new # <<>> => Head(new \o rest) = Head(new)
        /\ new = <<>> => new \o rest = rest
    BY <1>1, MoreWork
  <1>4. ASSUME work # <<>>, Head(work).op = "list", new = <<>> PROVE FALSE
    <2>1. rest # <<>> /\ Head(rest).op = "list"
      BY <1>2, <1>3, <1>4
    <2>2. Len(rest) \in Nat /\ Len(rest) # 0
      BY <1>1, <2>1, EmptySeq
    <2>3. Head(rest) = rest[1] /\ 1 \in 1..Len(rest)
      <3>1. \A k \in Nat : k # 0 => 1 \in 1..k
        OBVIOUS
      <3>2. 1 \in 1..Len(rest)
        BY <2>2, <3>1
      <3>3. Head(rest) = rest[1]
        BY <1>1, <2>1
      <3> QED BY <3>2, <3>3
    <2> QED BY <1>1, <2>1, <2>3
  <1> QED BY <1>2, <1>3, <1>4

LEMMA TodoAddressed ==
    ASSUME Inv, NEW p \in Pid, Removing(p), Remains(sh[p], tree)
    PROVE  Addressed(Todo(p).path) /\ Todo(p) \in WorkItem
           /\ AtOrBelow(Words(Todo(p).path), Words(sh[p].path))
  <1> DEFINE work == sh[p].work
  <1>1. work \in Seq(WorkItem) /\ HasWork(work) /\ Todo(p) \in WorkItem /\ Todo(p) = Head(work)
    BY TodoFacts DEF Todo, Removing
  <1>2. WorkBelow(Words(sh[p].path), work)
    BY DEF Remains
  <1> HIDE DEF work
  <1>3. Len(work) \in Nat /\ Len(work) >= 1 /\ work[1] = Head(work)
    BY <1>1, TailOfWork
  <1>4. 1 \in 1..Len(work) /\ Todo(p) = work[1]
    <2>1. \A k \in Nat : k >= 1 => 1 \in 1..k
      OBVIOUS
    <2>2. 1 \in 1..Len(work)
      BY <1>3, <2>1
    <2> QED BY <1>1, <1>3, <2>2
  <1> QED BY <1>1, <1>2, <1>4 DEF WorkBelow

LEMMA DeletingStat ==
    ASSUME Inv, NEW p \in Pid, DeleteStat(p), Remains(sh[p], tree)
    PROVE  \E work : DeletesOn(p, work)
  <1> DEFINE item == Todo(p)
             path == item.path
             entry == Stat(path)
             rest == Tail(sh[p].work)
             next == CASE entry.type = "none" -> <<>>
                       [] entry.type = "dir" /\ entry.size # 0 -> <<Item("list", path)>>
                       [] OTHER -> <<Item("delete", path)>>
             work == next \o rest
             w == WithWork(p, work)
             s == IF w.pc = "prompt" THEN w ELSE [w EXCEPT !.entry = entry]
  <1>1. Removing(p) /\ Go(p, s)
    BY DEF DeleteStat, At, Removing
  <1>2. VfsType /\ Addressed(path) /\ item \in WorkItem /\ path \in Text
    BY <1>1, ShellHas, TodoAddressed DEF Addressed
  <1>3. \/ next = <<>> /\ entry.type = "none"
        \/ next = <<Item("list", path)>> /\ entry.type = "dir"
        \/ next = <<Item("delete", path)>> /\ ~(entry.type = "dir" /\ entry.size # 0)
    OBVIOUS
  <1> HIDE DEF next
  <1>4. Replaces(next, item, tree)
    <2>1. CASE next = <<>> /\ entry.type = "none"
      <3>1. \A n \in DOMAIN tree : ~Covers(item, n)
        <4> SUFFICES ASSUME NEW n \in DOMAIN tree, Covers(item, n) PROVE FALSE
          OBVIOUS
        <4>1. AtOrBelow(n, Words(path))
          BY DEF Covers, AtOrBelow
        <4> HIDE DEF path
        <4>2. Stat(path).type \in {"dir", "file"}
          BY <1>2, <4>1, StatFinds
        <4> QED BY <2>1, <4>2
      <3> QED BY <2>1, <3>1, NothingReplaces
    <2>2. CASE next = <<Item("list", path)>>
      BY <1>2, <2>2, OneReplaces
    <2>3. CASE next = <<Item("delete", path)>> /\ ~(entry.type = "dir" /\ entry.size # 0)
      <3>1. ASSUME NEW n \in DOMAIN tree PROVE ~Within(n, Words(path))
        <4> HIDE DEF path
        <4> QED BY <1>2, <2>3, StatFinds DEF AtOrBelow
      <3> QED BY <1>2, <2>3, <3>1, OneReplaces
    <2> QED BY <1>3, <2>1, <2>2, <2>3
  <1>5. Len(next) <= 1 /\ Len(next) \in Nat /\ (next # <<>> => Head(next).path = path)
    <2>1. /\ Item("list", path).path = path /\ Item("delete", path).path = path
      BY DEF Item
    <2> DEFINE a == Item("list", path)
               b == Item("delete", path)
    <2>2. a.path = path /\ b.path = path /\ (next = <<>> \/ next = <<a>> \/ next = <<b>>)
      BY <1>3, <2>1
    <2> HIDE DEF a, b, path
    <2>3. CASE next = <<>>
      BY <2>3
    <2>4. CASE next = <<a>>
      BY <2>2, <2>4
    <2>5. CASE next = <<b>>
      BY <2>2, <2>5
    <2> QED BY <2>2, <2>3, <2>4, <2>5
  <1>6. \A i \in 2..Len(next) : next[i].op # "list"
    BY <1>5
  <1>7. /\ work \in Seq(WorkItem) /\ (work # <<>> => HasWork(work))
        /\ work # <<>> /\ Head(work).op = "list" => next # <<>> /\ Head(work) = Head(next)
    <2>1. next \in Seq(WorkItem)
      BY <1>4 DEF Replaces
    <2> HIDE DEF work
    <2>2. work = next \o Tail(sh[p].work)
      BY DEF work
    <2> QED BY <1>1, <1>6, <2>1, <2>2, WorkReplaced
  <1>8. /\ WorkBelow(Words(sh[p].path), work)
         /\ CoversAll(Words(sh[p].path), tree, work)
         /\ InOrder(work)
    BY <1>1, <1>4, FirstReplaced
  <1> HIDE DEF work, entry, path
  <1>9. Continues(p, s, work)
    <2>1. /\ w.pc = "prompt" <=> work = <<>>
          /\ Continues(p, w, work)
          /\ work # <<>> => Continues(p, [w EXCEPT !.entry = entry], work)
      BY <1>1, <1>7, WithWorkContinues
    <2> HIDE DEF w
    <2> QED BY <2>1
  <1> HIDE DEF s
  <1>10. sh'[p] = s /\ tree' = tree /\ UNCHANGED vfsVars
    BY <1>1, GoGives DEF Go
  <1>11. work # <<>> /\ Head(work).op = "list" => Stat(Head(work).path).type = "dir"
    <2> SUFFICES ASSUME work # <<>>, Head(work).op = "list" PROVE Stat(Head(work).path).type = "dir"
      OBVIOUS
    <2>1. next # <<>> /\ Head(next).op = "list" /\ Head(work).path = path
      BY <1>5, <1>7
    <2>2. next # <<Item("delete", path)>>
      <3>1. Item("delete", path).op # "list"
        BY DEF Item
      <3> DEFINE b == Item("delete", path)
      <3>2. b.op # "list"
        BY <3>1
      <3> HIDE DEF b
      <3>3. next # <<b>>
        BY <2>1, <3>2
      <3> QED BY <3>3 DEF b
    <2> QED BY <1>3, <2>1, <2>2 DEF entry
  <1>12. DeletesOn(p, work)
    BY <1>7, <1>9, <1>10, <1>11, <1>8 DEF DeletesOn, Remains
  <1> QED BY <1>12

LEMMA DeletingList ==
    ASSUME Inv, NEW p \in Pid, DeleteList(p), Remains(sh[p], tree), ListsDirectory(sh[p])
    PROVE  wild' \/ \E work : DeletesOn(p, work)
  <1> DEFINE item == Todo(p)
             path == item.path
             rest == Tail(sh[p].work)
             entries == DirStat(path)
             new == Expand(path, entries)
             work == new \o rest
             s == WithWork(p, work)
  <1>1. Removing(p) /\ item.op = "list"
    BY DEF DeleteList, At, Removing
  <1>2. VfsType /\ Addressed(path) /\ item \in WorkItem /\ path \in Text
    BY <1>1, ShellHas, TodoAddressed DEF Addressed
  <1>3. Stat(path).type = "dir"
    BY <1>1 DEF ListsDirectory, Todo
  <1>4. CASE GoWild(p)
    BY <1>4 DEF GoWild
  <1>5. CASE ~GoWild(p)
    <2> DEFINE Skipped == WithWork(p, rest)
    <2>15. Go(p, s) /\ AllNamed(p, entries)
      <3> HIDE DEF s, Skipped, entries
      <3>1. (CASE TakesForTable(path) \/ (Stat(path).type = "dir" /\ ~AllNamed(p, entries)) -> GoWild(p)
               [] ~TakesForTable(path) /\ Stat(path).type # "dir" -> Go(p, Skipped)
               [] OTHER -> Go(p, s))
        BY DEF DeleteList, s, Skipped, entries
      <3> QED BY <1>3, <1>5, <3>1
    <2>1. Go(p, s)
      BY <2>15
    <2>2. entries \in Seq(EntryType) /\ ListsTree(entries, Words(path))
      BY <1>2, <1>3, ListsBelow
    <2>3. \A i \in 1..Len(entries) : entries[i].name # <<>>
      <3> HIDE DEF entries
      <3>1. \A i \in 1..Len(entries) : entries[i] \in Range(entries)
        BY <2>2 DEF Range
      <3>2. \A e \in Range(entries) : e.name # <<>>
        BY <2>15 DEF AllNamed
      <3> QED BY <3>1, <3>2
    <2>4. Replaces(new, item, tree)
      <3> HIDE DEF entries, item
      <3> QED BY <1>2, <2>2, <2>3, ExpansionReplaces
    <2>5. /\ WorkBelow(Words(sh[p].path), work)
          /\ CoversAll(Words(sh[p].path), tree, work)
          /\ InOrder(work)
      <3>1. Replaces(new, Todo(p), tree) /\ DOMAIN tree \subseteq DOMAIN tree
        BY <2>4
      <3> HIDE DEF new, item, path, entries
      <3> QED BY <1>1, <3>1, FirstReplaced
    <2>6. new \in Seq(WorkItem) /\ new # <<>> /\ \A i \in 1..Len(new) : new[i].op # "list"
      <3> HIDE DEF path, entries
      <3> QED BY <1>2, <2>2, ExpandFacts
    <2>7. \A i \in 2..Len(new) : new[i].op # "list"
      <3> HIDE DEF new
      <3> QED BY <2>6
    <2>8. Head(new).op # "list"
      <3> HIDE DEF new
      <3>1. Len(new) \in Nat /\ Len(new) # 0 /\ Head(new) = new[1]
        BY <2>6, EmptySeq
      <3>2. 1 \in 1..Len(new)
        BY <3>1
      <3> QED BY <2>6, <3>1, <3>2
    <2>9. /\ work \in Seq(WorkItem) /\ (work # <<>> => HasWork(work))
          /\ work # <<>> /\ Head(work).op = "list" => new # <<>> /\ Head(work) = Head(new)
      <3> HIDE DEF work, new
      <3>1. work = new \o Tail(sh[p].work)
        BY DEF work
      <3> QED BY <1>1, <2>6, <2>7, <3>1, WorkReplaced
    <2> HIDE DEF work, new
    <2>10. Continues(p, s, work)
      BY <1>1, <2>9, WithWorkContinues
    <2> HIDE DEF s
    <2>11. sh'[p] = s /\ tree' = tree
      BY <2>1, GoGives
    <2>12. ~(work # <<>> /\ Head(work).op = "list")
      BY <2>8, <2>9
    <2>13. DeletesOn(p, work)
      BY <2>5, <2>10, <2>11, <2>12 DEF DeletesOn, Remains
    <2> QED BY <2>13
  <1> QED BY <1>4, <1>5

(* Nothing is left below a directory when it is deleted.                   *)
LEMMA NothingBelow ==
    ASSUME Inv, NEW p \in Pid, Removing(p), Todo(p).op = "delete", Remains(sh[p], tree),
           NEW c \in DOMAIN tree
    PROVE  ~Within(c, Words(Todo(p).path))
  <1> DEFINE P == Words(sh[p].path)
             d == Words(Todo(p).path)
             work == sh[p].work
             W(i) == Words(work[i].path)
  <1> SUFFICES ASSUME Within(c, d) PROVE FALSE
    OBVIOUS
  <1>1. work \in Seq(WorkItem) /\ HasWork(work) /\ Todo(p) = Head(work)
    BY TodoFacts DEF Todo, Removing
  <1>2. WorkBelow(P, work) /\ CoversAll(P, tree, work) /\ InOrder(work)
    BY DEF Remains
  <1>3. P \in Seq(Text)
    BY ShellHas, CanonicalFacts, NamesAreText
  <1>4. c \in Seq(Text)
    BY ShellHas, PlacesAreTexts DEF VfsType, IsTree
  <1>5. d \in Seq(Text) /\ AtOrBelow(d, P)
    BY TodoAddressed, WordsAreNames, NamesAreText DEF Addressed
  <1>6. Len(work) \in Nat /\ Len(work) >= 1 /\ work[1] = Todo(p)
    <2> HIDE DEF work
    <2> QED BY <1>1, TailOfWork
  <1>7. \A i \in 1..Len(work) : W(i) \in Seq(Text)
    <2> HIDE DEF work, P
    <2> QED BY <1>2, WorkPaths
  <1>8. AtOrBelow(c, P)
    <2> HIDE DEF P, d
    <2>1. AtOrBelow(c, d)
      BY DEF AtOrBelow
    <2> QED BY <1>3, <1>4, <1>5, <2>1, WithinIsTransitive
  <1>9. PICK i \in 1..Len(work) : Covers(work[i], c)
    <2> HIDE DEF P, work
    <2> QED BY <1>2, <1>8 DEF CoversAll
  <1> HIDE DEF P, work
  <1>10. CASE i = 1
    <2>1. c = d
      BY <1>6, <1>9, <1>10 DEF Covers
    <2> QED BY <1>5, <2>1 DEF Within
  <1>11. CASE i # 1
    <2>1. 1 \in 1..Len(work) /\ 1 < i
      BY <1>6, <1>11
    <2>2. ~Within(W(i), W(1)) /\ (work[i].op # "delete" => ~AtOrBelow(W(1), W(i))) /\ W(1) = d
      BY <1>2, <1>6, <2>1 DEF InOrder
    <2>3. c = W(i) \/ (work[i].op # "delete" /\ Within(c, W(i)))
      BY <1>9 DEF Covers
    <2>4. W(i) \in Seq(Text)
      BY <1>7
    <2> HIDE DEF W, d
    <2>5. c # W(i)
      BY <2>2
    <2>6. AtOrBelow(c, d) /\ (Within(c, W(i)) => AtOrBelow(c, W(i)))
      BY DEF AtOrBelow
    <2>7. ~(AtOrBelow(d, W(i)) \/ Within(W(i), d))
      BY <2>2, <2>3, <2>5
    <2> QED BY <1>4, <1>5, <2>3, <2>4, <2>5, <2>6, <2>7, BelowTwo
  <1> QED BY <1>10, <1>11

LEMMA AfterDelete ==
    ASSUME Inv, NEW p \in Pid, Removing(p), Todo(p).op = "delete", Remains(sh[p], tree),
           NEW t, DOMAIN t = DOMAIN tree \ {Words(Todo(p).path)}, \A n \in DOMAIN t : t[n] = tree[n],
           NEW work, work = Tail(sh[p].work)
    PROVE  /\ work \in Seq(WorkItem) /\ (work # <<>> => HasWork(work))
           /\ ~(work # <<>> /\ Head(work).op = "list")
           /\ Removes(Words(sh[p].path), sh[p].before, t)
           /\ WorkBelow(Words(sh[p].path), work)
           /\ CoversAll(Words(sh[p].path), t, work)
           /\ InOrder(work)
  <1> DEFINE P == Words(sh[p].path)
             d == Words(Todo(p).path)
             none == <<>>
  <1>1. none \in Seq(WorkItem) /\ \A i \in 2..Len(none) : none[i].op # "list"
    OBVIOUS
  <1>2. Tail(sh[p].work) \in Seq(WorkItem)
    BY TodoFacts DEF Removing
  <1>3. none \o Tail(sh[p].work) = work
    BY <1>2
  <1>4. \A n \in DOMAIN t : ~Covers(Todo(p), n)
    BY DEF Covers
  <1>5. Replaces(none, Todo(p), t)
    BY <1>4, NothingReplaces
  <1>6. none = <<>>
    OBVIOUS
  <1> HIDE DEF none
  <1>7. /\ work \in Seq(WorkItem) /\ (work # <<>> => HasWork(work))
        /\ work # <<>> /\ Head(work).op = "list" => none # <<>> /\ Head(work) = Head(none)
    BY <1>1, <1>3, WorkReplaced
  <1>8. /\ WorkBelow(Words(sh[p].path), none \o Tail(sh[p].work))
        /\ CoversAll(Words(sh[p].path), t, none \o Tail(sh[p].work))
        /\ InOrder(none \o Tail(sh[p].work))
    BY <1>5, FirstReplaced
  <1>9. Removes(P, sh[p].before, tree) /\ AtOrBelow(d, P)
    BY TodoAddressed DEF Remains
  <1> HIDE DEF P, d
  <1>10. Removes(P, sh[p].before, t)
    <2>1. DOMAIN t = DOMAIN tree \ {d}
      BY DEF d
    <2> QED BY <1>9, <2>1 DEF Removes
  <1> QED BY <1>3, <1>6, <1>7, <1>8, <1>10 DEF P

LEMMA DeletingDelete ==
    ASSUME Inv, NEW p \in Pid, DeleteDelete(p), Remains(sh[p], tree)
    PROVE  wild' \/ \E work : DeletesOn(p, work)
  <1> SUFFICES ASSUME ~GoWild(p) PROVE \E work : DeletesOn(p, work)
    BY DEF GoWild
  <1> DEFINE path == Todo(p).path
             d == Words(path)
             work == Tail(sh[p].work)
             s == WithWork(p, work)
  <1>1. Removing(p) /\ Todo(p).op = "delete"
    BY DEF DeleteDelete, At, Removing
  <1>2. VfsType /\ Addressed(path) /\ Todo(p) \in WorkItem
    BY <1>1, ShellHas, TodoAddressed
  <1>3. work \in Seq(WorkItem) /\ (work # <<>> => HasWork(work))
    <2> DEFINE t == Without(d)
    <2>1. DOMAIN t = DOMAIN tree \ {d} /\ \A n \in DOMAIN t : t[n] = tree[n]
      BY WithoutFacts
    <2> HIDE DEF t
    <2> QED BY <1>1, <1>2, <2>1, AfterDelete
  <1>4. IF CanDelete(path) THEN Change(p, Without(d), s) ELSE Go(p, s)
    <2>1. Delete(p, path, s)
      BY DEF DeleteDelete
    <2> HIDE DEF s, path
    <2>2. (CASE CanDelete(path) -> Change(p, Without(Words(path)), s)
             [] EmptyRoot(path) -> GoWild(p)
             [] OTHER -> Go(p, s))
      BY <2>1 DEF Delete
    <2> QED BY <2>2
  <1>5. ~CanDelete(path) => d \notin DOMAIN tree
    <2> SUFFICES ASSUME d \in DOMAIN tree PROVE CanDelete(path)
      OBVIOUS
    <2>1. HandlerOf(path) = "fat32"
      BY <1>2, AddressedHandler
    <2>2. Children(d) = {}
      <3> SUFFICES ASSUME NEW c \in Children(d) PROVE FALSE
        OBVIOUS
      <3>1. Within(c, d) /\ c \in DOMAIN tree
        <4>1. d \in Seq(Text)
          BY <1>2, WordsAreNames, NamesAreText DEF Addressed
        <4>2. c \in DOMAIN tree /\ Len(c) = Len(d) + 1 /\ IsPrefix(d, c)
          BY DEF Children
        <4>3. c \in Seq(Text)
          BY <1>2, <4>2, PlacesAreTexts DEF VfsType, IsTree
        <4> HIDE DEF d
        <4> QED BY <4>1, <4>2, <4>3, PrefixMeans DEF Within
      <3> QED BY <1>1, <3>1, NothingBelow
    <2> QED BY <2>1, <2>2 DEF CanDelete
  <1>6. /\ tree' = IF CanDelete(path) THEN Without(d) ELSE tree
        /\ sh'[p].pc = s.pc /\ sh'[p].work = s.work /\ sh'[p].path = s.path
        /\ sh'[p].before = s.before /\ sh'[p].quiet = s.quiet
    <2>1. CASE CanDelete(path)
      <3>1. s \in ShellRecord
        BY <1>1, TodoFacts, <1>3, WithWorkFacts DEF Removing
      <3> HIDE DEF s, d
      <3>2. Change(p, Without(d), s)
        BY <1>4, <2>1
      <3> QED BY <2>1, <3>1, <3>2, ChangeGives
    <2>2. CASE ~CanDelete(path)
      <3> HIDE DEF s, d
      <3>1. Go(p, s)
        BY <1>4, <2>2
      <3>2. sh'[p] = s /\ tree' = tree
        BY <3>1, GoGives
      <3> QED BY <2>2, <3>2
    <2> QED BY <2>1, <2>2
  <1>7. DOMAIN tree' = DOMAIN tree \ {d} /\ \A n \in DOMAIN tree' : tree'[n] = tree[n]
    <2>1. CASE CanDelete(path)
      <3> HIDE DEF d
      <3> QED BY <1>6, <2>1, WithoutFacts
    <2>2. CASE ~CanDelete(path)
      BY <1>5, <1>6, <2>2
    <2> QED BY <2>1, <2>2
  <1>8. /\ Removes(Words(sh[p].path), sh[p].before, tree')
        /\ WorkBelow(Words(sh[p].path), work)
        /\ CoversAll(Words(sh[p].path), tree', work)
        /\ InOrder(work)
        /\ ~(work # <<>> /\ Head(work).op = "list")
    BY <1>1, <1>7, AfterDelete
  <1>9. Continues(p, s, work)
    <2> HIDE DEF work
    <2> QED BY <1>1, <1>3, WithWorkContinues
  <1>10. Continues(p, sh'[p], work)
    <2> HIDE DEF s, work, path, d
    <2> QED BY <1>6, <1>9 DEF Continues
  <1> HIDE DEF work
  <1>11. DeletesOn(p, work)
    BY <1>8, <1>10 DEF DeletesOn
  <1> QED BY <1>11

LEMMA NotDeleting ==
    ASSUME NEW s, s.pc \notin {"stat", "del -r"} \/ s.quiet = FALSE
    PROVE  ~Deleting(s)
  BY DEF Deleting

(* The calls of delete_recursive do not make a shell quiet.                *)
LEMMA DeleteKeepsQuiet ==
    ASSUME Inv, NEW p \in Pid, DeleteStat(p) \/ DeleteList(p) \/ DeleteDelete(p)
    PROVE  sh'[p].pc = "prompt" \/ sh'[p].quiet = sh[p].quiet
  <1>1. Removing(p) /\ sh[p] \in ShellRecord
    BY ShellHas DEF DeleteStat, DeleteList, DeleteDelete, At, Removing
  <1>2. \A work : \/ WithWork(p, work).pc = "prompt"
                  \/ /\ WithWork(p, work).quiet = sh[p].quiet
                     /\ \A e : [WithWork(p, work) EXCEPT !.entry = e].quiet = sh[p].quiet
    <2> TAKE work
    <2> DEFINE r == [sh[p] EXCEPT !.work = work]
    <2>1. r.quiet = sh[p].quiet /\ \A e : [r EXCEPT !.entry = e].quiet = sh[p].quiet
      BY <1>1 DEF ShellRecord
    <2>2. WithWork(p, work) = Prompt(p) \/ WithWork(p, work) = r
      BY DEF WithWork
    <2> HIDE DEF r
    <2> QED BY <2>1, <2>2, PromptRests
  <1>3. CASE DeleteStat(p)
    <2>1. PICK work, e : LET w == WithWork(p, work)
                         IN  Go(p, IF w.pc = "prompt" THEN w ELSE [w EXCEPT !.entry = e])
      BY <1>3 DEF DeleteStat
    <2> DEFINE w == WithWork(p, work)
               r == IF w.pc = "prompt" THEN w ELSE [w EXCEPT !.entry = e]
    <2>2. r.pc = "prompt" \/ r.quiet = sh[p].quiet
      <3>1. w.pc = "prompt" \/ [w EXCEPT !.entry = e].quiet = sh[p].quiet
        BY <1>2
      <3> HIDE DEF w
      <3> QED BY <3>1
    <2>3. Go(p, r)
      BY <2>1
    <2> HIDE DEF r
    <2> QED BY <2>2, <2>3, GoGives
  <1>4. ASSUME NEW work, Go(p, WithWork(p, work))
        PROVE  sh'[p].pc = "prompt" \/ sh'[p].quiet = sh[p].quiet
    BY <1>2, <1>4, GoGives
  <1>5. CASE DeleteList(p)
    <2>1. GoWild(p) \/ \E work : Go(p, WithWork(p, work))
      BY <1>5 DEF DeleteList
    <2> QED BY <1>4, <2>1, AbortGives, PromptRests
  <1>6. CASE DeleteDelete(p)
    <2> DEFINE work == Tail(sh[p].work)
               none == <<>>
               s == WithWork(p, work)
    <2>1. GoWild(p) \/ Go(p, s) \/ \E t : Change(p, t, s)
      BY <1>6 DEF DeleteDelete, Delete
    <2>2. none \in Seq(WorkItem) /\ \A i \in 2..Len(none) : none[i].op # "list"
      OBVIOUS
    <2>3. work \in Seq(WorkItem) /\ \A i \in 1..Len(work) : work[i].op # "list"
      BY <1>1, TodoFacts DEF Removing
    <2>4. none = <<>>
      OBVIOUS
    <2> HIDE DEF work, none
    <2>5. work # <<>> => HasWork(work)
      BY <2>2, <2>3, <2>4, MoreWork
    <2>6. s \in ShellRecord
      BY <1>1, <2>3, <2>5, WithWorkFacts DEF Removing
    <2>7. s.pc = "prompt" \/ s.quiet = sh[p].quiet
      BY <1>2
    <2> HIDE DEF s
    <2>8. ASSUME NEW t, Change(p, t, s)
          PROVE  sh'[p].pc = s.pc /\ sh'[p].quiet = s.quiet
      BY <2>6, <2>8, ChangeGives
    <2> QED BY <2>1, <2>7, <2>8, GoGives, AbortGives, PromptRests
  <1> QED BY <1>3, <1>5, <1>6

(* What the shell goes on with is what DeleteInv says.                     *)
LEMMA DeletesOnKeeps ==
    ASSUME NEW p \in Pid, NEW work, DeletesOn(p, work)
    PROVE  (Deleting(sh[p]) => Unfinished(sh[p]))'
  <1>1. CASE work = <<>>
    <2>1. sh'[p].pc = "prompt"
      BY <1>1 DEF DeletesOn, Continues
    <2> QED BY <2>1, NotDeleting
  <1>2. CASE work # <<>>
    <2>1. /\ sh'[p].pc # "stat" /\ sh'[p].work = work
          /\ sh'[p].path = sh[p].path /\ sh'[p].before = sh[p].before
      BY <1>2 DEF DeletesOn, Continues
    <2>2. Remains(sh'[p], tree')
      BY <2>1 DEF DeletesOn, Remains
    <2>3. ListsDirectory(sh[p])'
      <3>1. Head(work).op = "list" => Stat(Head(work).path).type = "dir" /\ UNCHANGED vfsVars
        BY <1>2 DEF DeletesOn
      <3>2. UNCHANGED vfsVars => Stat(Head(work).path)' = Stat(Head(work).path)
        BY StatSame
      <3> QED BY <2>1, <3>1, <3>2 DEF ListsDirectory
    <2> QED BY <2>1, <2>2, <2>3 DEF Unfinished
  <1> QED BY <1>1, <1>2

LEMMA DeleteRuns ==
    ASSUME Inv, NEW p \in Pid, NEW line \in Lines, Run(p, line)
    PROVE  (Deleting(sh[p]) => Unfinished(sh[p]))'
  <1> DEFINE path == FullPath(p, IF line.cmd = "cd" /\ line.args = <<>> THEN Slash ELSE Arg(line, 1))
             to == FullPath(p, Arg(line, 2))
             before == IF line.cmd \in {"del -r", "mv"} THEN tree ELSE <<>>
             s == [Idle EXCEPT !.pc = FirstStep(line.cmd), !.cwd = sh[p].cwd, !.line = line,
                               !.path = path, !.to = to, !.leftover = sh[p].leftover, !.before = before]
  <1>1. sh' = [sh EXCEPT ![p] = s] /\ UNCHANGED vfsVars
    BY DEF Run
  <1>2. line.cmd = "del -r" => before = tree
    OBVIOUS
  <1> HIDE DEF path, to, before
  <1>3. s.pc = FirstStep(line.cmd) /\ s.line = line /\ s.before = before
    BY DEF Idle
  <1> HIDE DEF s
  <1>4. sh'[p] = s /\ tree' = tree
    BY <1>1 DEF Inv, TypeOK, vfsVars
  <1>5. FirstStep(line.cmd) # "del -r"
    <2>1. line.cmd \in Commands
      BY ShellAssumption
    <2> QED BY <2>1 DEF Commands, FirstStep
  <1> QED BY <1>2, <1>3, <1>4, <1>5 DEF Deleting, Unfinished

(* The entry of the argument is asked for once more.                       *)
LEMMA DeleteBegins ==
    ASSUME Inv, NEW p \in Pid, StatArgument(p), Deleting(sh[p]) => Unfinished(sh[p])
    PROVE  (Deleting(sh[p]) => Unfinished(sh[p]))'
  <1> SUFFICES ASSUME Deleting(sh'[p]) PROVE Unfinished(sh[p])'
    BY DEF Deleting
  <1> DEFINE P == Words(sh[p].path)
             item == Item("stat", sh[p].path)
             work == <<item>>
  <1>1. sh'[p].pc \notin {"prompt", "ls", "del", "open"}
    BY DEF Deleting
  <1>2. /\ tree' = tree /\ sh[p].pc = "stat" /\ sh[p].line.cmd = "del -r"
        /\ SameCommand(sh'[p], sh[p]) /\ sh'[p].work = work /\ sh'[p].pc # "stat"
    <2>1. /\ tree' = tree /\ sh[p].pc = "stat" /\ sh'[p].pc = "del -r"
          /\ sh[p].line.cmd = "del -r" /\ SameCommand(sh'[p], sh[p]) /\ sh'[p].work = work
      BY <1>1, StatGives
    <2> HIDE DEF work, item
    <2> QED BY <2>1
  <1>3. sh[p].before = tree
    BY <1>2 DEF SameCommand, Deleting, Unfinished
  <1>4. /\ work \in Seq(WorkItem) /\ Len(work) = 1 /\ work[1] = item
        /\ item.op = "stat" /\ item.path = sh[p].path
    BY ShellHas, OneItem
  <1> HIDE DEF item, work
  <1>5. WorkBelow(P, work)
    BY <1>4, ShellHas, CanonicalIsAddressed DEF WorkBelow, AtOrBelow
  <1>6. CoversAll(P, tree, work)
    <2>1. \A n \in DOMAIN tree : AtOrBelow(n, P) => Covers(work[1], n)
      BY <1>4 DEF Covers, AtOrBelow
    <2>2. 1 \in 1..Len(work)
      BY <1>4
    <2> QED BY <2>1, <2>2 DEF CoversAll
  <1>7. InOrder(work)
    <2>1. \A k, l \in 1..Len(work) : ~(k < l)
      BY <1>4
    <2> QED BY <2>1 DEF InOrder
  <1>8. Removes(P, tree, tree)
    BY DEF Removes
  <1>9. Remains(sh'[p], tree')
    BY <1>2, <1>3, <1>5, <1>6, <1>7, <1>8 DEF SameCommand, Remains
  <1>10. ListsDirectory(sh[p])'
    <2>1. Head(work) = work[1]
      BY <1>4
    <2> QED BY <1>2, <1>4, <2>1 DEF ListsDirectory
  <1> QED BY <1>2, <1>9, <1>10 DEF Unfinished

LEMMA DeleteWork ==
    ASSUME Inv, NEW p \in Pid, Work(p), Deleting(sh[p]) => Unfinished(sh[p])
    PROVE  (Deleting(sh[p]) => Unfinished(sh[p]))'
  <1>1. CASE ~Deleting(sh'[p])
    BY <1>1 DEF Deleting
  <1>2. CASE StatArgument(p)
    BY <1>2, DeleteBegins
  <1>3. ASSUME DeleteStat(p) \/ DeleteList(p) \/ DeleteDelete(p), Deleting(sh'[p])
        PROVE  Unfinished(sh[p])'
    <2>1. sh'[p].pc # "prompt" /\ sh'[p].quiet
      BY <1>3 DEF Deleting
    <2>2. Removing(p)
      BY <1>3 DEF DeleteStat, DeleteList, DeleteDelete, At, Removing
    <2>3. sh[p].quiet
      BY <1>3, <2>1, DeleteKeepsQuiet
    <2>4. Remains(sh[p], tree) /\ ListsDirectory(sh[p])
      BY <2>2, <2>3 DEF Removing, Deleting, Unfinished
    <2>5. wild' \/ \E work : DeletesOn(p, work)
      BY <1>3, <2>4, DeletingStat, DeletingList, DeletingDelete
    <2>6. CASE \E work : DeletesOn(p, work)
      <3>1. PICK work : DeletesOn(p, work)
        BY <2>6
      <3>2. (Deleting(sh[p]) => Unfinished(sh[p]))'
        BY <3>1, DeletesOnKeeps
      <3> QED BY <1>3, <3>2 DEF Deleting
    <2>7. CASE wild'
      <3>1. ~(\E s : Go(p, s)) /\ ~(\E t, s : Change(p, t, s))
        BY <1>3, <2>7 DEF Go, Change, DeleteStat, DeleteList, DeleteDelete, At
      <3>2. GoWild(p)
        BY <1>3, <3>1 DEF DeleteStat, DeleteList, DeleteDelete, Delete
      <3> QED BY <2>1, <3>2, AbortGives, PromptRests
    <2> QED BY <2>5, <2>6, <2>7
  <1>4. CASE sh'[p].quiet = FALSE \/ sh'[p].pc \in Resting \cup CopyStagesOf
    <2>1. "stat" \notin Resting \cup CopyStagesOf /\ "del -r" \notin Resting \cup CopyStagesOf
      BY DEF Resting, CopyStagesOf
    <2> QED BY <1>1, <1>4, <2>1, NotDeleting
  <1>5. CASE sh'[p].pc \in {"tac", "find stat", "find list", "found"}
    BY <1>1, <1>5, NotDeleting
  <1>6. ASSUME DeleteStat(p) \/ DeleteList(p) \/ DeleteDelete(p)
        PROVE  (Deleting(sh[p]) => Unfinished(sh[p]))'
    BY <1>1, <1>3, <1>6
  <1> QED BY <1>2, <1>4, <1>5, <1>6, CopyStages, WorkStages

LEMMA DeletingSame ==
    ASSUME UNCHANGED vfsVars, NEW p \in Pid, sh'[p] = sh[p], Deleting(sh[p]) => Unfinished(sh[p])
    PROVE  (Deleting(sh[p]) => Unfinished(sh[p]))'
  <1>1. tree' = tree
    BY DEF vfsVars
  <1>2. Stat(Head(sh[p].work).path)' = Stat(Head(sh'[p].work).path)
    BY StatSame
  <1>3. ListsDirectory(sh[p])' <=> ListsDirectory(sh[p])
    BY <1>2 DEF ListsDirectory
  <1>4. Deleting(sh[p])' <=> Deleting(sh[p])
    BY DEF Deleting
  <1>5. Remains(sh[p], tree)' <=> Remains(sh[p], tree)
    BY <1>1 DEF Remains
  <1> QED BY <1>1, <1>3, <1>4, <1>5 DEF Unfinished

LEMMA DeleteInductive ==
    ASSUME Inv, DeleteInv, [Next]_vars
    PROVE  DeleteInv'
  <1> SUFFICES ASSUME NEW p \in Pid PROVE (Deleting(sh[p]) => Unfinished(sh[p]))'
    BY DEF DeleteInv
  <1>1. Deleting(sh[p]) => Unfinished(sh[p])
    BY DEF DeleteInv
  <1>2. ASSUME ~Deleting(sh'[p]) PROVE (Deleting(sh[p]) => Unfinished(sh[p]))'
    BY <1>2 DEF Deleting
  <1>3. CASE UNCHANGED vars
    <2>1. sh'[p] = sh[p] /\ UNCHANGED vfsVars
      BY <1>3 DEF vars
    <2> QED BY <1>1, <2>1, DeletingSame
  <1>4. CASE Next
    <2>1. PICK q \in Pid : Work(q) \/ \E line \in Lines : Run(q, line)
      BY <1>4 DEF Next
    <2>2. CASE p = q
      BY <1>1, <2>1, <2>2, DeleteWork, DeleteRuns
    <2>3. CASE p # q
      <3>1. CASE sh'[p] = sh[p] /\ UNCHANGED vfsVars
        BY <1>1, <3>1, DeletingSame
      <3>2. CASE sh'[p].pc \in Resting \/ sh'[p].quiet = FALSE
        <4>1. "stat" \notin Resting /\ "del -r" \notin Resting
          BY DEF Resting
        <4> QED BY <1>2, <3>2, <4>1, NotDeleting
      <3>3. CASE sh'[p] = Off \/ NewShell(sh'[p])
        <4>1. Off.pc \in Resting /\ (NewShell(sh'[p]) => sh'[p].pc \in Resting)
          BY NewShellStarts DEF Off, Idle, Resting
        <4> QED BY <3>2, <3>3, <4>1
      <3> QED BY <2>1, <2>3, <3>1, <3>2, <3>3, Elsewhere
    <2> QED BY <2>2, <2>3
  <1> QED BY <1>3, <1>4

LEMMA DeleteInitially == Init => DeleteInv
  <1> SUFFICES ASSUME Init, NEW p \in Pid PROVE ~Deleting(sh[p])
    BY DEF DeleteInv
  <1>1. sh[p] = [Idle EXCEPT !.pc = "start"] \/ sh[p] = Off
    BY DEF Init
  <1>2. [Idle EXCEPT !.pc = "start"].pc = "start" /\ Off.pc = "off"
    BY DEF Idle, Off
  <1> QED BY <1>1, <1>2, NotDeleting

LEMMA OnlyDeletes ==
    ASSUME NEW p \in Pid, Work(p), Removing(p)
    PROVE  DeleteStat(p) \/ DeleteList(p) \/ DeleteDelete(p)
  <1>1. ~(OpenStdin(p) \/ StatArgument(p) \/ Ls(p) \/ Mkdir(p) \/ Touch(p) \/ Del(p))
    BY Zenon DEF Removing, At, OpenStdin, StatArgument, Ls, Mkdir, Touch, Del
  <1>2. ~(OpenSource(p) \/ MakeCopy(p) \/ OpenCopy(p) \/ ReadBlock(p) \/ WriteBlock(p))
    BY Zenon DEF Removing, At, OpenSource, MakeCopy, OpenCopy, ReadBlock, WriteBlock
  <1>3. ~(MoveDelete(p) \/ Tac(p) \/ Cat(p) \/ FindBegin(p) \/ FindStat(p) \/ FindList(p))
    BY Zenon DEF Removing, At, MoveDelete, Tac, Cat, FindBegin, FindStat, FindList
  <1>4. ~(FindEnd(p) \/ Exec(p) \/ Exit(p) \/ Kill(p))
    BY Zenon DEF Removing, At, FindEnd, Exec, Exit, Kill
  <1> QED BY <1>1, <1>2, <1>3, <1>4, Zenon DEF Work

(* What is removed is what lies at and below the path, and all of it.      *)
LEMMA RemovedAll ==
    ASSUME NEW P \in Seq(Text), NEW b \in PartTrees, NEW t, IsTree(t),
           Removes(P, b, t), CoversAll(P, t, <<>>)
    PROVE  t = [n \in {m \in DOMAIN b : ~IsPrefix(P, m)} |-> b[n]]
  <1>1. t = [n \in DOMAIN t |-> t[n]]
    BY DEF IsTree
  <1>2. \A n \in DOMAIN b : IsPrefix(P, n) <=> AtOrBelow(n, P)
    <2> SUFFICES ASSUME NEW n \in DOMAIN b PROVE IsPrefix(P, n) <=> AtOrBelow(n, P)
      OBVIOUS
    <2>1. n \in Seq(Text)
      BY PlacesAreTexts DEF PartTrees
    <2>2. IsPrefix(P, n) <=> Len(P) <= Len(n) /\ \A i \in 1..Len(P) : P[i] = n[i]
      BY <2>1, PrefixMeans
    <2>3. Len(P) \in Nat /\ Len(n) \in Nat
      BY <2>1
    <2>4. Len(P) = Len(n) /\ (\A i \in 1..Len(P) : P[i] = n[i]) => n = P
      BY <2>1
    <2> QED BY <2>2, <2>3, <2>4 DEF AtOrBelow, Within
  <1>3. \A n \in DOMAIN t : n \in DOMAIN b /\ t[n] = b[n] /\ ~AtOrBelow(n, P)
    <2>1. \A n \in DOMAIN t : ~AtOrBelow(n, P)
      BY DEF CoversAll
    <2> QED BY <2>1 DEF Removes
  <1>4. \A n \in DOMAIN b : n \notin DOMAIN t => AtOrBelow(n, P)
    BY DEF Removes
  <1> DEFINE kept == {m \in DOMAIN b : ~IsPrefix(P, m)}
  <1>5. DOMAIN t = kept
    BY <1>2, <1>3, <1>4
  <1> HIDE DEF kept
  <1>6. t = [n \in kept |-> b[n]]
    BY <1>1, <1>3, <1>5
  <1> QED BY <1>6 DEF kept

(* del -r of a directory with entries removes it and what is below it, and *)
(* nothing else, if nothing else changes the files meanwhile.              *)
THEOREM DeletesAllBelow == Spec => DeletesExactlyBelow
  <1>1. Init => Inv /\ DeleteInv
    BY InvInitially, DeleteInitially
  <1>2. (Inv /\ DeleteInv) /\ [Next]_vars => (Inv /\ DeleteInv)'
    BY InvIsInductive, DeleteInductive
  <1>3. (Inv /\ DeleteInv) /\ [Next]_vars =>
           [\A p \in Pid :
              sh[p].pc = "del -r" /\ sh'[p].pc = "prompt" /\ sh[p].quiet /\ ~wild' =>
                  tree' = LET kept == {names \in DOMAIN sh[p].before :
                                          ~IsPrefix(Words(sh[p].path), names)}
                          IN  [names \in kept |-> sh[p].before[names]]]_vars
    <2> SUFFICES ASSUME Inv, DeleteInv, Next, NEW p \in Pid,
                        Removing(p), sh'[p].pc = "prompt", sh[p].quiet, ~wild'
                 PROVE  tree' = [names \in {m \in DOMAIN sh[p].before :
                                               ~IsPrefix(Words(sh[p].path), m)}
                                    |-> sh[p].before[names]]
      BY DEF Removing
    <2>1. PICK q \in Pid : Work(q) \/ \E line \in Lines : Run(q, line)
      BY DEF Next
    <2>2. q = p
      <3> SUFFICES ASSUME q # p PROVE FALSE
        OBVIOUS
      <3>1. sh'[p].pc # sh[p].pc /\ sh[p].pc \notin Resting
        BY DEF Removing, Resting
      <3>2. Off.pc = "off" /\ (NewShell(sh'[p]) => sh'[p].pc = "start")
        BY NewShellStarts DEF Off, Idle
      <3> QED BY <2>1, <3>1, <3>2, Elsewhere
    <2>3. DeleteStat(p) \/ DeleteList(p) \/ DeleteDelete(p)
      <3>1. ~\E line \in Lines : Run(p, line)
        BY DEF Run, At, Removing
      <3> QED BY <2>1, <2>2, <3>1, OnlyDeletes
    <2>4. Remains(sh[p], tree) /\ ListsDirectory(sh[p])
      BY DEF Removing, DeleteInv, Deleting, Unfinished
    <2>5. PICK work : DeletesOn(p, work)
      BY <2>3, <2>4, DeletingStat, DeletingList, DeletingDelete
    <2>6. work = <<>>
      <3>1. work # <<>> => sh'[p].pc = "del -r"
        BY <2>5 DEF DeletesOn, Continues
      <3> QED BY <3>1
    <2> DEFINE P == Words(sh[p].path)
               b == sh[p].before
    <2>7. Removes(P, b, tree') /\ CoversAll(P, tree', <<>>)
      BY <2>5, <2>6 DEF DeletesOn
    <2>8. P \in Seq(Text) /\ b \in PartTrees
      BY ShellHas, CanonicalFacts, NamesAreText DEF ShellRecord
    <2>9. IsTree(tree)'
      BY InvIsInductive DEF Inv, TypeOK
    <2>10. IsTree(tree')
      BY <2>9 DEF IsTree
    <2> HIDE DEF P, b
    <2>11. tree' = [n \in {m \in DOMAIN b : ~IsPrefix(P, m)} |-> b[n]]
      BY <2>7, <2>8, <2>10, RemovedAll
    <2> QED BY <2>11 DEF P, b
  <1> QED BY <1>1, <1>2, <1>3, PTL DEF Spec, DeletesExactlyBelow

-----------------------------------------------------------------------------
(* What is listed while nothing else changes the files.                    *)

ListsDir(s) == s.quiet /\ s.pc = "ls" => s.entry.type = "dir"

LsInv == \A p \in Pid : ListsDir(sh[p])

LEMMA LsWork ==
    ASSUME Inv, NEW p \in Pid, Work(p)
    PROVE  ListsDir(sh'[p])
  <1> SUFFICES ASSUME sh'[p].quiet, sh'[p].pc = "ls" PROVE sh'[p].entry.type = "dir"
    BY DEF ListsDir
  <1>1. "ls" \notin Resting /\ "ls" \notin CopyStagesOf
    BY DEF Resting, CopyStagesOf
  <1>2. sh'[p].pc \notin {"open", "del -r", "tac", "find stat", "find list", "found"}
    OBVIOUS
  <1>3. StatArgument(p)
    BY <1>1, <1>2, WorkStages, CopyStages
  <1> QED BY <1>2, <1>3, StatGives

LEMMA LsRuns ==
    ASSUME Inv, NEW p \in Pid, NEW line \in Lines, Run(p, line)
    PROVE  sh'[p].pc # "ls"
  <1> DEFINE path == FullPath(p, IF line.cmd = "cd" /\ line.args = <<>> THEN Slash ELSE Arg(line, 1))
             to == FullPath(p, Arg(line, 2))
             before == IF line.cmd \in {"del -r", "mv"} THEN tree ELSE <<>>
             s == [Idle EXCEPT !.pc = FirstStep(line.cmd), !.cwd = sh[p].cwd, !.line = line,
                               !.path = path, !.to = to, !.leftover = sh[p].leftover, !.before = before]
  <1>1. sh' = [sh EXCEPT ![p] = s]
    BY DEF Run
  <1> HIDE DEF path, to, before
  <1>2. s.pc = FirstStep(line.cmd)
    BY DEF Idle
  <1> HIDE DEF s
  <1>3. sh'[p] = s
    BY <1>1 DEF Inv, TypeOK
  <1>4. FirstStep(line.cmd) # "ls"
    BY DEF FirstStep
  <1> QED BY <1>2, <1>3, <1>4

LEMMA LsInductive ==
    ASSUME Inv, LsInv, [Next]_vars
    PROVE  LsInv'
  <1> SUFFICES ASSUME NEW p \in Pid PROVE ListsDir(sh'[p])
    BY DEF LsInv, ListsDir
  <1>1. ListsDir(sh[p])
    BY DEF LsInv
  <1>2. CASE UNCHANGED vars
    BY <1>1, <1>2 DEF vars
  <1>3. CASE Next
    <2>1. PICK q \in Pid : Work(q) \/ \E line \in Lines : Run(q, line)
      BY <1>3 DEF Next
    <2>2. CASE p = q
      BY <2>1, <2>2, LsWork, LsRuns DEF ListsDir
    <2>3. CASE p # q
      <3>1. CASE sh'[p] = sh[p]
        BY <1>1, <3>1
      <3>2. CASE sh'[p].quiet = FALSE
        BY <3>2 DEF ListsDir
      <3>3. CASE sh'[p] = Off \/ NewShell(sh'[p])
        <4>1. Off.pc = "off" /\ (NewShell(sh'[p]) => sh'[p].pc = "start")
          BY NewShellStarts DEF Off, Idle
        <4> QED BY <3>3, <4>1 DEF ListsDir
      <3> QED BY <2>1, <2>3, <3>1, <3>2, <3>3, Elsewhere
    <2> QED BY <2>2, <2>3
  <1> QED BY <1>2, <1>3

LEMMA LsInitially == Init => LsInv
  <1> SUFFICES ASSUME Init, NEW p \in Pid PROVE sh[p].pc # "ls"
    BY DEF LsInv, ListsDir
  <1>1. sh[p] = [Idle EXCEPT !.pc = "start"] \/ sh[p] = Off
    BY DEF Init
  <1>2. [Idle EXCEPT !.pc = "start"].pc = "start" /\ Off.pc = "off"
    BY DEF Idle, Off
  <1> QED BY <1>1, <1>2

(* No listing is longer than its array, and none is one of a file but that *)
(* of a row a find before this one has left, if nothing else changes the   *)
(* files meanwhile.                                                        *)
THEOREM ListingsAreFit == Spec => []ListingsFit
  <1> DEFINE All == Inv /\ LsInv /\ FindInv /\ DeleteInv
  <1>1. Init => All
    BY InvInitially, LsInitially, FindInitially, DeleteInitially
  <1>2. All /\ [Next]_vars => All'
    BY InvIsInductive, LsInductive, FindInductive, DeleteInductive
  <1>3. All => ListingsFit
    <2> SUFFICES ASSUME Inv, LsInv, FindInv, DeleteInv,
                        NEW p \in Pid, sh[p].quiet, NEW path \in Listed(p)
                 PROVE  \/ Stat(path).type = "dir" /\ Fits(p, DirStat(path))
                        \/ Stat(path).type = "file" /\ Stray(p)
      BY DEF ListingsFit
    <2>1. /\ sh[p].entry = Stat(path) /\ Stat(path) \in EntryType
          /\ Stat(path).type = "dir" => Fits(p, DirStat(path))
      BY ListedFacts
    <2>2. CASE sh[p].pc = "ls"
      BY <2>1, <2>2 DEF LsInv, ListsDir
    <2>3. CASE sh[p].pc = "find list"
      <3>1. path = Last(sh[p].file_list)
        BY <2>3 DEF Listed
      <3>2. Searched(sh[p])
        BY <2>3 DEF FindInv, Finding
      <3>3. Stat(path).type \in {"dir", "file"}
        BY <2>1, <2>3, <3>2 DEF Searched, EntryType
      <3>4. sh[p].leftover = <<>> => Stat(path).type = "dir"
        <4> SUFFICES ASSUME sh[p].leftover = <<>> PROVE Stat(path).type = "dir"
          OBVIOUS
        <4>1. AllDirectories(sh[p].file_list)
          BY <2>3, <3>2 DEF Searched
        <4>2. path \in Range(sh[p].file_list)
          <5>1. sh[p].file_list # <<>>
            BY <2>3, ShellHas DEF Sound
          <5> DEFINE rows == sh[p].file_list
                     front == Front(rows)
                     last == Last(rows)
          <5>2. /\ front \in Seq(Canonical) /\ last \in Canonical
                /\ rows = Append(front, last) /\ path = last
            BY <3>1, <5>1, LastRow
          <5> HIDE DEF front, last, rows
          <5>3. path \in Range(rows)
            BY <5>2, RangeOfAppend
          <5> QED BY <5>3 DEF rows
        <4> QED BY <4>1, <4>2 DEF AllDirectories
      <3> QED BY <2>1, <2>3, <3>3, <3>4 DEF Stray
    <2>4. CASE Removing(p) /\ Todo(p).op = "list" /\ path = Todo(p).path
      <3>1. ListsDirectory(sh[p])
        BY <2>4 DEF Removing, DeleteInv, Deleting, Unfinished
      <3> QED BY <2>1, <2>4, <3>1 DEF ListsDirectory, Todo
    <2>5. sh[p].pc \in {"ls", "find list"} \/ (Removing(p) /\ Todo(p).op = "list" /\ path = Todo(p).path)
      BY DEF Listed, Removing
    <2> QED BY <2>2, <2>3, <2>4, <2>5
  <1> QED BY <1>1, <1>2, <1>3, PTL DEF Spec
=============================================================================
