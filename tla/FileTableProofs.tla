--------------------------- MODULE FileTableProofs ---------------------------
(***************************************************************************)
(* FileTable: for every number of processes, descriptors and files, the    *)
(* descriptors are exclusive, what leaks is known, and the foreground list *)
(* and the layers of the screen are those of the open files.               *)
(***************************************************************************)
EXTENDS FileTable, ProofLemmas

-----------------------------------------------------------------------------
(* The inductive invariant: the screen.                                    *)

Layer == {Base} \cup Ft

Cell == Char \cup {Empty}

DisplayType == [layers : Seq(Layer), cell : UNION {[L -> Cell] : L \in SUBSET Layer},
                shown : Cell, overprinted : BOOLEAN]

Value(s, i) == s.cell[s.layers[i]]

(* The i-th layer is the highest of the first n that is not transparent. *)
IsTop(s, n, i) ==
    /\ i \in 1..n
    /\ Value(s, i) # Empty
    /\ \A j \in (i + 1)..n : Value(s, j) = Empty

Shows(s) == \E i \in 1..Len(s.layers) : IsTop(s, Len(s.layers), i) /\ s.shown = Value(s, i)

DisplayInv(s) ==
    /\ s \in DisplayType
    /\ s.layers # <<>> /\ s.layers[1] = Base
    /\ IsInjective(s.layers)
    /\ DOMAIN s.cell = Range(s.layers)
    /\ s.cell[Base] # Empty
    /\ s.overprinted \/ Shows(s)

(* The inductive invariant: files and devices. *)
FileKind == {"none", "plain", "proc", "stdin", "stdout_layered"}

WorldInv(w) ==
    /\ w.files \in [Ft -> FileKind]
    /\ w.foreground \in Seq(Ft) /\ IsInjective(w.foreground)
    /\ Range(w.foreground) = {t \in Ft : w.files[t] = "stdin"}
    /\ DisplayInv(w.display)
    /\ Range(w.display.layers) = {Base} \cup {t \in Ft : w.files[t] = "stdout_layered"}

Index == Fd \cup {Beyond}

OpenInv == \A p \in alive : \A i \in Index : fd[p][i] \in Ft => files[fd[p][i]] # "none"

OneInv == \A p, q \in alive : \A i, j \in Index :
              fd[p][i] \in Ft /\ fd[p][i] = fd[q][j] => p = q /\ i = j

LeakInv == \A t \in Ft : files[t] # "none"
                             => \/ \E p \in alive : \E i \in Index : fd[p][i] = t
                                \/ files[t] = "proc"
                                \/ t \in spilled

(* A file whose index was stored behind fd[] is known to have been. *)
TableInv ==
    /\ alive \subseteq Process
    /\ fd \in [Process -> [Index -> Ft \cup {Free, HeapWord}]]
    /\ \A p \in Process : \A i \in Fd : fd[p][i] # HeapWord
    /\ spilled \subseteq {t \in Ft : files[t] # "none"}
    /\ \A p \in alive : fd[p][Beyond] \in Ft => fd[p][Beyond] \in spilled
    /\ OpenInv
    /\ OneInv
    /\ LeakInv

FileInv == TableInv /\ WorldInv(World)

-----------------------------------------------------------------------------
(* The screen.                                                             *)

LEMMA TopmostIs ==
    ASSUME NEW s, NEW n \in Nat, NEW i, IsTop(s, n, i)
    PROVE  Topmost(s, n) = Value(s, i)
  <1> DEFINE solid == {j \in 1..n : Value(s, j) # Empty}
  <1>1. i \in solid /\ \A j \in solid : i >= j
    BY DEF IsTop
  <1>2. Max(solid) = i
    <2>1. solid \subseteq Nat
      OBVIOUS
    <2> HIDE DEF solid
    <2>2. \A k \in solid : (\A j \in solid : k >= j) => k = i
      BY <1>1, <2>1
    <2> QED BY <1>1, <2>2 DEF Max
  <1>3. Topmost(s, n) = s.cell[s.layers[Max(solid)]]
    BY DEF Topmost, Value
  <1> QED BY <1>2, <1>3 DEF Value

(* Where something is solid there is a highest layer that is. *)
LEMMA TopExists ==
    ASSUME NEW s, NEW n \in Nat, NEW k \in 1..n, Value(s, k) # Empty
    PROVE  \E i \in k..n : IsTop(s, n, i)
  <1> DEFINE deep == {d \in Nat : \E j \in k..n : d = n - j /\ Value(s, j) # Empty}
  <1>1. n - k \in deep
    OBVIOUS
  <1>2. PICK d \in deep : \A e \in deep : d <= e
    <2>1. deep \in SUBSET Nat /\ deep # {}
      BY <1>1
    <2> HIDE DEF deep
    <2> QED BY <2>1, SmallestElement
  <1>3. PICK i \in k..n : d = n - i /\ Value(s, i) # Empty
    OBVIOUS
  <1>4. ASSUME NEW j \in (i + 1)..n, Value(s, j) # Empty
        PROVE  FALSE
    <2>1. n - j \in deep
      BY <1>3, <1>4
    <2>2. d <= n - j
      BY <1>2, <2>1
    <2> QED BY <1>3, <2>2
  <1> QED BY <1>3, <1>4 DEF IsTop

(* Where the layers are. *)
LEMMA DisplayFacts ==
    ASSUME NEW s, DisplayInv(s)
    PROVE  /\ s.layers \in Seq(Layer) /\ Len(s.layers) \in Nat \ {0}
           /\ Range(s.layers) = {s.layers[i] : i \in 1..Len(s.layers)}
           /\ Base \in Range(s.layers) /\ \A i \in 1..Len(s.layers) : s.layers[i] \in Range(s.layers)
           /\ \A i, j \in 1..Len(s.layers) : s.layers[i] = s.layers[j] => i = j
           /\ s.cell \in [Range(s.layers) -> Cell]
           /\ 1 \in 1..Len(s.layers) /\ Value(s, 1) # Empty
  <1>1. s.layers \in Seq(Layer) /\ s.layers # <<>> /\ s.layers[1] = Base
    BY DEF DisplayInv, DisplayType
  <1>2. Len(s.layers) \in Nat \ {0} /\ 1 \in 1..Len(s.layers)
    BY <1>1
  <1>3. Range(s.layers) = {s.layers[i] : i \in 1..Len(s.layers)}
    BY <1>1, RangeByIndex
  <1>4. \A i, j \in 1..Len(s.layers) : s.layers[i] = s.layers[j] => i = j
    BY <1>1, InjectiveByIndex DEF DisplayInv
  <1>5. s.cell \in [Range(s.layers) -> Cell]
    BY DEF DisplayInv, DisplayType
  <1> QED BY <1>1, <1>2, <1>3, <1>4, <1>5 DEF DisplayInv, Value

LEMMA PositionFacts ==
    ASSUME NEW s, DisplayInv(s), NEW i \in 1..Len(s.layers)
    PROVE  PositionIn(s, s.layers[i]) = i
  BY DisplayFacts DEF PositionIn

(* framebuffer_write_to_layer. *)
LEMMA WriteToLayerFacts ==
    ASSUME NEW s, DisplayInv(s), NEW l \in Range(s.layers), NEW c \in Cell, l = Base => c # Empty
    PROVE  /\ DisplayInv(WriteToLayer(s, l, c))
           /\ WriteToLayer(s, l, c).layers = s.layers
           /\ WriteToLayer(s, l, c).cell[l] = c
  <1>1. PICK p \in 1..Len(s.layers) : s.layers[p] = l
    <2>1. Range(s.layers) = {s.layers[i] : i \in 1..Len(s.layers)}
      BY DisplayFacts
    <2> QED BY <2>1
  <1>2. PositionIn(s, l) = p
    BY <1>1, PositionFacts
  <1> DEFINE n == Len(s.layers)
             over == \E i \in (p + 1)..n : Value(s, i) # Empty
             uncovered == IF c = Empty THEN Topmost(s, p - 1) ELSE c
             cell == [s.cell EXCEPT ![l] = c]
             shown == IF over THEN s.shown ELSE uncovered
             overprinted == s.overprinted /\ over
             t == WriteToLayer(s, l, c)
  <1>3. IsOverridden(s, l) <=> over
    BY <1>2 DEF IsOverridden, Value
  <1>4. t = [s EXCEPT !.cell = cell, !.shown = shown, !.overprinted = overprinted]
    BY <1>2, <1>3 DEF WriteToLayer
  <1>5. s \in DisplayType /\ s.overprinted \in BOOLEAN
    BY DEF DisplayInv, DisplayType
  <1> HIDE DEF t, cell, shown, overprinted
  <1>6. /\ t.layers = s.layers /\ t.cell = cell /\ t.shown = shown /\ t.overprinted = overprinted
        /\ t = [layers |-> s.layers, cell |-> cell, shown |-> shown, overprinted |-> overprinted]
    BY <1>4, <1>5 DEF DisplayType
  <1>7. /\ cell \in [Range(s.layers) -> Cell] /\ cell[l] = c
        /\ \A k \in Range(s.layers) \ {l} : cell[k] = s.cell[k]
    BY DisplayFacts DEF cell
  <1>8. /\ n \in Nat \ {0} /\ Value(t, p) = c
        /\ \A i \in 1..n : i # p => Value(t, i) = Value(s, i)
        /\ \A i \in 1..n : s.layers[i] \in Range(s.layers)
    <2>1. n \in Nat \ {0} /\ \A i \in 1..n : s.layers[i] \in Range(s.layers)
      BY DisplayFacts
    <2>2. \A i, j \in 1..n : s.layers[i] = s.layers[j] => i = j
      BY DisplayFacts
    <2>3. ASSUME NEW i \in 1..n, i # p
          PROVE  Value(t, i) = Value(s, i)
      <3>1. s.layers[i] \in Range(s.layers) \ {l}
        BY <1>1, <2>1, <2>2, <2>3
      <3> QED BY <1>6, <1>7, <3>1 DEF Value
    <2>4. Value(t, p) = c
      BY <1>1, <1>6, <1>7 DEF Value
    <2> QED BY <2>1, <2>3, <2>4
  <1>9. s.overprinted \/ Shows(s)
    BY DEF DisplayInv
  <1>10. \A i \in 1..n : IsTop(s, n, i) => Value(s, i) \in Cell
    BY <1>8, DisplayFacts DEF Value
  <1> HIDE DEF n
  <1>11. shown \in Cell /\ (overprinted \/ Shows(t))
    <2>1. CASE over
      <3>1. PICK j \in (p + 1)..n : Value(s, j) # Empty
        BY <2>1
      <3>2. PICK i \in j..n : IsTop(s, n, i)
        BY <1>8, <3>1, TopExists
      <3>3. IsTop(t, n, i) /\ Value(t, i) = Value(s, i) /\ i \in 1..n
        BY <1>8, <3>1, <3>2 DEF IsTop
      <3>4. Shows(s) => s.shown = Value(s, i)
        BY <1>8, <3>2 DEF Shows, IsTop, n
      <3>5. shown = s.shown /\ overprinted = s.overprinted /\ s.shown \in Cell
        BY <1>5, <2>1 DEF shown, overprinted, DisplayType
      <3> QED BY <1>6, <1>9, <3>3, <3>4, <3>5 DEF Shows, n
    <2>2. CASE ~over /\ c # Empty
      <3>1. IsTop(t, n, p)
        BY <1>8, <2>2 DEF IsTop, n
      <3>2. shown = c
        BY <2>2 DEF shown
      <3> QED BY <1>6, <1>8, <3>1, <3>2 DEF Shows, n
    <2>3. CASE ~over /\ c = Empty
      <3>1. p # 1
        BY <1>1, <2>3 DEF DisplayInv
      <3>2. p - 1 \in Nat /\ 1 \in 1..(p - 1) /\ Value(s, 1) # Empty
        BY <3>1, DisplayFacts
      <3>3. PICK i \in 1..(p - 1) : IsTop(s, p - 1, i)
        BY <3>2, TopExists
      <3>4. shown = Value(s, i)
        BY <2>3, <3>2, <3>3, TopmostIs DEF shown
      <3>5. i \in 1..n /\ Value(t, i) = Value(s, i)
        BY <1>8, <3>3 DEF n
      <3>6. IsTop(t, n, i)
        <4> SUFFICES ASSUME NEW j \in (i + 1)..n
                     PROVE  Value(t, j) = Empty
          BY <3>3, <3>5 DEF IsTop
        <4>1. j \in (i + 1)..(p - 1) \/ j = p \/ j \in (p + 1)..n
          BY <1>8, <3>3
        <4>2. j \in 1..n
          BY <1>8, <3>3
        <4> QED BY <1>8, <2>3, <3>3, <4>1, <4>2 DEF IsTop
      <3> QED BY <1>6, <1>8, <3>4, <3>5, <3>6, DisplayFacts DEF Shows, n, Value
    <2> QED BY <2>1, <2>2, <2>3
  <1>12. t \in DisplayType
    <2>1. overprinted \in BOOLEAN
      BY <1>5 DEF overprinted
    <2>2. Range(s.layers) \subseteq Layer /\ s.layers \in Seq(Layer)
      <3>1. s.layers \in Seq(Layer)
        BY DisplayFacts
      <3> QED BY <3>1 DEF Range
    <2> QED BY <1>6, <1>7, <1>11, <2>1, <2>2 DEF DisplayType
  <1>13. t.cell[Base] # Empty /\ DOMAIN t.cell = Range(t.layers)
    BY <1>6, <1>7, DisplayFacts DEF DisplayInv
  <1>14. DisplayInv(t)
    BY <1>6, <1>11, <1>12, <1>13 DEF DisplayInv
  <1> QED BY <1>6, <1>7, <1>14 DEF t

(* framebuffer_create_layer: the new layer covers nothing. *)
LEMMA CreateLayerFacts ==
    ASSUME NEW s, DisplayInv(s), NEW l \in Ft, l \notin Range(s.layers)
    PROVE  /\ DisplayInv(CreateLayer(s, l))
           /\ Range(CreateLayer(s, l).layers) = Range(s.layers) \cup {l}
  <1> DEFINE n == Len(s.layers)
             layers == Append(s.layers, l)
             cell == [k \in DOMAIN s.cell \cup {l} |-> IF k = l THEN Empty ELSE s.cell[k]]
             t == CreateLayer(s, l)
  <1>1. t = [s EXCEPT !.layers = layers, !.cell = cell]
    BY DEF CreateLayer
  <1>2. s \in DisplayType /\ l \in Layer /\ Base # l
    BY FileTableAssumption DEF DisplayInv, Layer, Ft, Base
  <1>3. /\ layers \in Seq(Layer) /\ Range(layers) = Range(s.layers) \cup {l} /\ IsInjective(layers)
    BY <1>2, DisplayFacts, AppendToQueue DEF DisplayInv
  <1>4. /\ n \in Nat \ {0} /\ Len(layers) = n + 1 /\ layers[n + 1] = l
        /\ \A i \in 1..n : layers[i] = s.layers[i] /\ layers[i] \in Range(s.layers)
    <2>1. /\ s.layers \in Seq(Layer) /\ n \in Nat \ {0}
          /\ \A i \in 1..n : s.layers[i] \in Range(s.layers)
      BY DisplayFacts
    <2> QED BY <1>2, <2>1, AppendProperties
  <1>5. /\ cell \in [Range(layers) -> Cell] /\ cell[l] = Empty
        /\ \A k \in Range(s.layers) : cell[k] = s.cell[k]
    <2>1. DOMAIN s.cell = Range(s.layers) /\ s.cell \in [Range(s.layers) -> Cell]
      BY DisplayFacts
    <2>2. DOMAIN s.cell \cup {l} = Range(layers)
      BY <1>3, <2>1
    <2>3. \A k \in Range(layers) : (IF k = l THEN Empty ELSE s.cell[k]) \in Cell
      BY <1>3, <2>1 DEF Cell
    <2> QED BY <1>3, <2>1, <2>2, <2>3
  <1> HIDE DEF t, layers, cell
  <1>6. /\ t.layers = layers /\ t.cell = cell /\ t.shown = s.shown /\ t.overprinted = s.overprinted
        /\ t = [layers |-> layers, cell |-> cell, shown |-> s.shown, overprinted |-> s.overprinted]
    BY <1>1, <1>2 DEF DisplayType
  <1>7. Value(t, n + 1) = Empty /\ \A i \in 1..n : Value(t, i) = Value(s, i)
    BY <1>4, <1>5, <1>6 DEF Value
  <1>8. s.overprinted \/ Shows(s)
    BY DEF DisplayInv
  <1> HIDE DEF n
  <1>9. ASSUME Shows(s)
        PROVE  Shows(t)
    <2>1. PICK i \in 1..n : IsTop(s, n, i) /\ s.shown = Value(s, i)
      BY <1>9 DEF Shows, n
    <2>2. i \in 1..(n + 1) /\ Value(t, i) # Empty
      BY <1>4, <1>7, <2>1 DEF IsTop
    <2>3. ASSUME NEW j \in (i + 1)..(n + 1)
          PROVE  Value(t, j) = Empty
      <3>1. (j \in (i + 1)..n /\ j \in 1..n) \/ j = n + 1
        BY <1>4, <2>1
      <3> QED BY <1>7, <2>1, <3>1 DEF IsTop
    <2>4. IsTop(t, n + 1, i)
      BY <2>2, <2>3 DEF IsTop
    <2> QED BY <1>4, <1>6, <1>7, <2>1, <2>2, <2>4 DEF Shows
  <1>10. t \in DisplayType
    <2>1. Range(layers) \subseteq Layer
      BY <1>3 DEF Range
    <2> QED BY <1>2, <1>3, <1>5, <1>6, <2>1 DEF DisplayType
  <1>11. t.layers # <<>> /\ t.layers[1] = Base /\ t.cell[Base] # Empty
    <2>1. s.layers[1] = Base /\ s.cell[Base] # Empty /\ Base \in Range(s.layers) /\ 1 \in 1..n
      BY DisplayFacts DEF DisplayInv, n
    <2> QED BY <1>3, <1>4, <1>5, <1>6, <2>1
  <1>12. DisplayInv(t)
    BY <1>3, <1>5, <1>6, <1>8, <1>9, <1>10, <1>11 DEF DisplayInv
  <1> QED BY <1>3, <1>6, <1>12 DEF t

(* A layer that is transparent leaves. *)
LEMMA UnlinkFacts ==
    ASSUME NEW s, DisplayInv(s), NEW l \in Range(s.layers), l # Base, s.cell[l] = Empty
    PROVE  /\ DisplayInv(Unlink(s, l))
           /\ Range(Unlink(s, l).layers) = Range(s.layers) \ {l}
  <1> DEFINE n == Len(s.layers)
             layers == RemoveFirst(s.layers, l)
             cell == [k \in DOMAIN s.cell \ {l} |-> s.cell[k]]
             t == Unlink(s, l)
  <1>1. t = [s EXCEPT !.layers = layers, !.cell = cell]
    BY DEF Unlink
  <1>2. s \in DisplayType /\ s.layers \in Seq(Layer) /\ IsInjective(s.layers) /\ n \in Nat \ {0}
    BY DisplayFacts DEF DisplayInv
  <1>3. layers \in Seq(Layer) /\ Range(layers) = Range(s.layers) \ {l} /\ IsInjective(layers)
    BY <1>2, RemoveFromQueue
  <1>4. PICK p \in 1..n : s.layers[p] = l
    <2>1. Range(s.layers) = {s.layers[i] : i \in 1..n}
      BY DisplayFacts
    <2> QED BY <2>1
  <1>5. /\ Len(layers) = n - 1
        /\ \A j \in 1..(n - 1) : layers[j] = IF j < p THEN s.layers[j] ELSE s.layers[j + 1]
    <2>1. RemoveFirst(s.layers, s.layers[p]) = RemoveAt(s.layers, p)
      BY <1>2, <1>4, RemoveFirstIsRemoveAt
    <2>2. layers = RemoveAt(s.layers, p)
      BY <1>4, <2>1
    <2> HIDE DEF layers
    <2> QED BY <1>2, <1>4, <2>2, RemoveAtPosition
  <1>6. p # 1
    BY <1>4 DEF DisplayInv
  <1>7. /\ cell \in [Range(layers) -> Cell]
        /\ \A k \in Range(layers) : cell[k] = s.cell[k]
    <2>1. DOMAIN s.cell = Range(s.layers) /\ s.cell \in [Range(s.layers) -> Cell]
      BY DisplayFacts
    <2>2. DOMAIN s.cell \ {l} = Range(layers)
      BY <1>3, <2>1
    <2> QED BY <1>3, <2>1, <2>2
  <1> HIDE DEF t, layers, cell
  <1>8. /\ t.layers = layers /\ t.cell = cell /\ t.shown = s.shown /\ t.overprinted = s.overprinted
        /\ t = [layers |-> layers, cell |-> cell, shown |-> s.shown, overprinted |-> s.overprinted]
    BY <1>1, <1>2 DEF DisplayType
  <1>9. \A j \in 1..(n - 1) : Value(t, j) = IF j < p THEN Value(s, j) ELSE Value(s, j + 1)
    <2>1. \A j \in 1..(n - 1) : layers[j] \in Range(layers)
      BY <1>3, <1>5, RangeByIndex
    <2>2. \A j \in 1..(n - 1) : Value(t, j) = s.cell[layers[j]]
      BY <1>7, <1>8, <2>1 DEF Value
    <2> QED BY <1>5, <2>2 DEF Value
  <1>10. Value(s, p) = Empty
    BY <1>4 DEF Value
  <1> HIDE DEF n
  <1>11. ASSUME Shows(s)
         PROVE  Shows(t)
    <2>1. PICK i \in 1..n : IsTop(s, n, i) /\ s.shown = Value(s, i)
      BY <1>11 DEF Shows, n
    <2>2. i # p
      BY <1>10, <2>1 DEF IsTop
    <2> DEFINE k == IF i < p THEN i ELSE i - 1
    <2>3. k \in 1..(n - 1) /\ Value(t, k) = Value(s, i)
      <3>1. k \in 1..(n - 1)
        BY <1>2, <1>4, <2>1, <2>2
      <3>2. k < p => k = i
        BY <1>2, <1>4, <2>1, <2>2
      <3>3. ~(k < p) => k + 1 = i
        BY <1>2, <1>4, <2>1, <2>2
      <3> HIDE DEF k
      <3> QED BY <1>9, <3>1, <3>2, <3>3
    <2>4. ASSUME NEW j \in (k + 1)..(n - 1)
          PROVE  Value(t, j) = Empty
      <3>1. j \in 1..(n - 1)
        BY <1>2, <2>3
      <3>2. CASE j < p
        <4>1. j \in (i + 1)..n
          BY <1>2, <1>4, <2>1, <3>2
        <4> QED BY <1>9, <2>1, <3>1, <3>2, <4>1 DEF IsTop
      <3>3. CASE ~(j < p)
        <4>1. j + 1 \in (i + 1)..n
          BY <1>2, <1>4, <2>1, <3>3
        <4> QED BY <1>9, <2>1, <3>1, <3>3, <4>1 DEF IsTop
      <3> QED BY <3>2, <3>3
    <2>5. Value(s, i) # Empty
      BY <2>1 DEF IsTop
    <2> HIDE DEF k
    <2>6. IsTop(t, n - 1, k)
      BY <2>3, <2>4, <2>5 DEF IsTop
    <2> QED BY <1>5, <1>8, <2>1, <2>3, <2>6 DEF Shows
  <1>12. t \in DisplayType
    <2>1. Range(layers) \subseteq Layer
      BY <1>3 DEF Range
    <2> QED BY <1>2, <1>3, <1>7, <1>8, <2>1 DEF DisplayType
  <1>13. t.layers # <<>> /\ t.layers[1] = Base /\ t.cell[Base] # Empty
    <2>1. s.layers[1] = Base /\ s.cell[Base] # Empty /\ Base \in Range(s.layers)
      BY DisplayFacts DEF DisplayInv
    <2>2. 1 \in 1..(n - 1) /\ 1 < p
      BY <1>2, <1>4, <1>6
    <2>3. layers[1] = s.layers[1]
      BY <1>5, <2>2
    <2>4. layers # <<>>
      BY <1>3, <1>5, <2>2
    <2>5. cell[Base] = s.cell[Base]
      BY <1>3, <1>7, <2>1
    <2> QED BY <1>8, <2>1, <2>3, <2>4, <2>5
  <1>14. DisplayInv(t)
    <2>1. s.overprinted \/ Shows(s)
      BY DEF DisplayInv
    <2> QED BY <1>3, <1>7, <1>8, <1>11, <1>12, <1>13, <2>1 DEF DisplayInv
  <1> QED BY <1>3, <1>8, <1>14 DEF t

(* framebuffer_remove_layer: what the layer covered is drawn again. *)
LEMMA RemoveLayerFacts ==
    ASSUME NEW s, DisplayInv(s), NEW l \in Ft, l \in Range(s.layers)
    PROVE  /\ DisplayInv(RemoveLayer(s, l))
           /\ Range(RemoveLayer(s, l).layers) = Range(s.layers) \ {l}
  <1>1. l # Base
    BY FileTableAssumption DEF Ft, Base
  <1>2. Contains(s.layers, l)
    <2>1. Range(s.layers) = {s.layers[i] : i \in 1..Len(s.layers)}
      BY DisplayFacts
    <2> QED BY <2>1 DEF Contains
  <1>3. CASE s.cell[l] = Empty
    <2>1. RemoveLayer(s, l) = Unlink(s, l)
      BY <1>2, <1>3 DEF RemoveLayer
    <2> QED BY <1>1, <1>3, <2>1, UnlinkFacts
  <1>4. CASE s.cell[l] # Empty
    <2> DEFINE u == WriteToLayer(s, l, Empty)
    <2>1. RemoveLayer(s, l) = Unlink(u, l)
      BY <1>2, <1>4 DEF RemoveLayer
    <2>2. DisplayInv(u) /\ u.layers = s.layers /\ u.cell[l] = Empty
      <3>1. Empty \in Cell
        BY DEF Cell
      <3> QED BY <1>1, <3>1, WriteToLayerFacts
    <2> HIDE DEF u
    <2> QED BY <1>1, <2>1, <2>2, UnlinkFacts
  <1> QED BY <1>3, <1>4

(* framebuffer_put. *)
LEMMA PutFacts ==
    ASSUME NEW s, DisplayInv(s), NEW c \in Char
    PROVE  DisplayInv(Put(s, c)) /\ Put(s, c).layers = s.layers
  <1> DEFINE n == Len(s.layers)
             over == IsOverridden(s, Base)
             cell == [s.cell EXCEPT ![Base] = c]
             t == Put(s, c)
  <1>1. t = [s EXCEPT !.cell = cell, !.shown = c, !.overprinted = over]
    BY DEF Put
  <1>2. s \in DisplayType /\ c \in Cell /\ c # Empty
    BY FileTableAssumption DEF DisplayInv, Cell
  <1>3. over \in BOOLEAN /\ (~over => \A i \in 2..n : Value(s, i) = Empty)
    <2>1. s.layers[1] = Base /\ 1 \in 1..n
      BY DisplayFacts DEF DisplayInv
    <2>2. PositionIn(s, Base) = 1
      <3>1. PositionIn(s, s.layers[1]) = 1
        BY <2>1, PositionFacts
      <3> QED BY <2>1, <3>1
    <2> QED BY <2>2 DEF IsOverridden, Value
  <1>4. /\ cell \in [Range(s.layers) -> Cell] /\ cell[Base] = c
        /\ \A k \in Range(s.layers) \ {Base} : cell[k] = s.cell[k]
    <2>1. s.cell \in [Range(s.layers) -> Cell] /\ Base \in Range(s.layers)
      BY DisplayFacts
    <2> QED BY <1>2, <2>1
  <1> HIDE DEF t, cell, over
  <1>5. /\ t.layers = s.layers /\ t.cell = cell /\ t.shown = c /\ t.overprinted = over
        /\ t = [layers |-> s.layers, cell |-> cell, shown |-> c, overprinted |-> over]
    BY <1>1, <1>2 DEF DisplayType
  <1>6. ASSUME ~over
        PROVE  Shows(t)
    <2>1. /\ s.layers[1] = Base /\ 1 \in 1..n /\ n \in Nat
          /\ \A i \in 1..n : s.layers[i] \in Range(s.layers)
      BY DisplayFacts DEF DisplayInv
    <2>2. \A i, j \in 1..n : s.layers[i] = s.layers[j] => i = j
      BY DisplayFacts
    <2>3. Value(t, 1) = c
      BY <1>4, <1>5, <2>1 DEF Value
    <2>4. ASSUME NEW i \in 2..n
          PROVE  Value(t, i) = Empty
      <3>1. i \in 1..n /\ i # 1
        BY <2>1
      <3>2. s.layers[i] \in Range(s.layers) \ {Base}
        BY <2>1, <2>2, <3>1
      <3>3. Value(t, i) = Value(s, i)
        BY <1>4, <1>5, <3>2 DEF Value
      <3> QED BY <1>3, <1>6, <3>3
    <2>5. IsTop(t, n, 1)
      BY <1>2, <2>1, <2>3, <2>4 DEF IsTop
    <2> QED BY <1>5, <2>1, <2>3, <2>5 DEF Shows
  <1>7. t \in DisplayType
    <2>1. Range(s.layers) \subseteq Layer /\ s.layers \in Seq(Layer)
      <3>1. s.layers \in Seq(Layer)
        BY DisplayFacts
      <3> QED BY <3>1 DEF Range
    <2> QED BY <1>2, <1>3, <1>4, <1>5, <2>1 DEF DisplayType
  <1>8. DisplayInv(t)
    BY <1>2, <1>3, <1>4, <1>5, <1>6, <1>7 DEF DisplayInv
  <1> QED BY <1>5, <1>8 DEF t

-----------------------------------------------------------------------------
(* Closing.                                                                *)

(* vfs.close keeps the devices and the file table in step, and closes this *)
(* file alone.                                                             *)
LEMMA CloseFileFacts ==
    ASSUME NEW w, WorldInv(w), NEW t \in Ft
    PROVE  /\ WorldInv(CloseFile(w, t))
           /\ CloseFile(w, t).files[t] = IF w.files[t] = "proc" THEN "proc" ELSE "none"
           /\ \A u \in Ft \ {t} : CloseFile(w, t).files[u] = w.files[u]
  <1>1. CASE w.files[t] = "proc"
    BY <1>1 DEF CloseFile
  <1>2. CASE w.files[t] # "proc"
    <2> DEFINE files1 == [w.files EXCEPT ![t] = "none"]
               list == IF w.files[t] = "stdin" THEN RemoveFirst(w.foreground, t) ELSE w.foreground
               screen == IF w.files[t] = "stdout_layered" THEN RemoveLayer(w.display, t)
                                                          ELSE w.display
               v == CloseFile(w, t)
    <2>1. v = [files |-> files1, foreground |-> list, display |-> screen]
      BY <1>2 DEF CloseFile, StdinClose
    <2>2. v.files = files1 /\ v.foreground = list /\ v.display = screen
      BY <2>1
    <2>3. /\ files1 \in [Ft -> FileKind] /\ files1[t] = "none"
          /\ \A u \in Ft \ {t} : files1[u] = w.files[u]
      BY DEF WorldInv, FileKind
    <2>4. /\ list \in Seq(Ft) /\ IsInjective(list)
          /\ Range(list) = {u \in Ft : files1[u] = "stdin"}
      <3> DEFINE out == RemoveFirst(w.foreground, t)
      <3>1. /\ out \in Seq(Ft) /\ IsInjective(out)
            /\ Range(out) = Range(w.foreground) \ {t}
        BY RemoveFromQueue DEF WorldInv
      <3>4. list = IF w.files[t] = "stdin" THEN out ELSE w.foreground
        OBVIOUS
      <3> HIDE DEF out, files1, list
      <3>2. CASE w.files[t] = "stdin"
        <4>1. list = out /\ files1[t] # "stdin"
          BY <2>3, <3>2, <3>4
        <4> QED BY <2>3, <3>1, <4>1 DEF WorldInv
      <3>3. CASE w.files[t] # "stdin"
        BY <2>3, <3>3, <3>4 DEF WorldInv
      <3> QED BY <3>2, <3>3
    <2>5. /\ DisplayInv(screen)
          /\ Range(screen.layers) = {Base} \cup {u \in Ft : files1[u] = "stdout_layered"}
      <3>1. t # Base
        BY FileTableAssumption DEF Ft, Base
      <3>2. CASE w.files[t] = "stdout_layered"
        <4>1. screen = RemoveLayer(w.display, t)
          BY <3>2
        <4> HIDE DEF screen, files1
        <4>2. /\ DisplayInv(w.display) /\ t \in Range(w.display.layers)
              /\ Range(w.display.layers) = {Base} \cup {u \in Ft : w.files[u] = "stdout_layered"}
          BY <3>2 DEF WorldInv
        <4>3. DisplayInv(screen) /\ Range(screen.layers) = Range(w.display.layers) \ {t}
          BY <4>1, <4>2, RemoveLayerFacts
        <4> QED BY <2>3, <3>1, <4>2, <4>3
      <3>3. CASE w.files[t] # "stdout_layered"
        <4> HIDE DEF files1
        <4> QED BY <2>3, <3>3 DEF WorldInv
      <3> QED BY <3>2, <3>3
    <2> HIDE DEF files1, list, screen, v
    <2>6. WorldInv(v)
      BY <2>2, <2>3, <2>4, <2>5 DEF WorldInv
    <2> QED BY <1>2, <2>2, <2>3, <2>6 DEF v
  <1> QED BY <1>1, <1>2

(* The loop of cleanup_fd, one descriptor after the other. *)
ClosedStep(p, w, n) ==
    IF n = 0 THEN World
    ELSE IF fd[p][n - 1] = Free THEN w[n - 1]
    ELSE CloseFile(w[n - 1], fd[p][n - 1])

LEMMA ClosedBelowDef ==
    ASSUME NEW p
    PROVE  ClosedBelow(p) = [n \in 0..PROCESS_MAX_FD |-> ClosedStep(p, ClosedBelow(p), n)]
  <1> DEFINE IsRun(w, k) == w = [n \in 0..k |-> ClosedStep(p, w, n)]
             S == {k \in Nat : \E w : IsRun(w, k)}
  <1>1. 0 \in S
    <2>1. IsRun([n \in 0..0 |-> World], 0)
      BY DEF ClosedStep
    <2> QED BY <2>1
  <1>2. ASSUME NEW k \in Nat, k \in S
        PROVE  k + 1 \in S
    <2>1. PICK w : IsRun(w, k)
      BY <1>2
    <2> DEFINE v == [n \in 0..(k + 1) |-> ClosedStep(p, w, n)]
    <2>2. \A n \in 0..k : v[n] = w[n]
      BY <2>1
    <2>3. ASSUME NEW n \in 0..(k + 1)
          PROVE  ClosedStep(p, v, n) = ClosedStep(p, w, n)
      <3>1. n # 0 => n - 1 \in 0..k
        OBVIOUS
      <3> HIDE DEF v
      <3> QED BY <2>2, <3>1 DEF ClosedStep
    <2>4. IsRun(v, k + 1)
      BY <2>3
    <2>5. k + 1 \in Nat
      OBVIOUS
    <2> HIDE DEF IsRun
    <2> QED BY <2>4, <2>5
  <1>3. PROCESS_MAX_FD \in S
    <2> HIDE DEF S
    <2>1. Nat \subseteq S
      BY <1>1, <1>2, SetInduction
    <2> QED BY <2>1, FileTableAssumption
  <1>4. PICK w : IsRun(w, PROCESS_MAX_FD)
    BY <1>3
  <1>5. ClosedBelow(p) = CHOOSE v : IsRun(v, PROCESS_MAX_FD)
    BY DEF ClosedBelow, ClosedStep
  <1>6. IsRun(ClosedBelow(p), PROCESS_MAX_FD)
    <2> HIDE DEF IsRun
    <2> QED BY <1>4, <1>5
  <1> QED BY <1>6

(* cleanup_fd closes the files that the descriptors point to, except those *)
(* of /proc, and no others.                                                *)
LEMMA CleanupFdFacts ==
    ASSUME FileInv, NEW p \in Process
    PROVE  /\ WorldInv(CleanupFd(p))
           /\ \A t \in Ft : CleanupFd(p).files[t] =
                  IF (\E i \in Fd : fd[p][i] = t) /\ files[t] # "proc" THEN "none" ELSE files[t]
  <1> DEFINE W == ClosedBelow(p)
             Closed(n, t) == (\E i \in 0..(n - 1) : fd[p][i] = t) /\ files[t] # "proc"
             Right(n) == /\ WorldInv(W[n])
                         /\ \A t \in Ft : W[n].files[t] = IF Closed(n, t) THEN "none" ELSE files[t]
             S == {n \in Nat : n <= PROCESS_MAX_FD => Right(n)}
  <1>0. \A i \in 0..(PROCESS_MAX_FD - 1) : fd[p][i] \in Ft \cup {Free}
    BY DEF FileInv, TableInv, Index, Fd
  <1>1. /\ W[0] = World
        /\ \A n \in Nat : n + 1 <= PROCESS_MAX_FD =>
               W[n + 1] = IF fd[p][n] = Free THEN W[n] ELSE CloseFile(W[n], fd[p][n])
    <2>1. \A n \in 0..PROCESS_MAX_FD : W[n] = ClosedStep(p, W, n)
      <3> DEFINE F == [n \in 0..PROCESS_MAX_FD |-> ClosedStep(p, W, n)]
      <3>1. W = F
        BY ClosedBelowDef
      <3>2. \A n \in 0..PROCESS_MAX_FD : F[n] = ClosedStep(p, W, n)
        OBVIOUS
      <3> HIDE DEF F, W
      <3> QED BY <3>1, <3>2
    <2> HIDE DEF W
    <2>2. W[0] = World
      BY <2>1, FileTableAssumption DEF ClosedStep
    <2>3. ASSUME NEW n \in Nat, n + 1 <= PROCESS_MAX_FD
          PROVE  W[n + 1] = IF fd[p][n] = Free THEN W[n] ELSE CloseFile(W[n], fd[p][n])
      <3>1. n + 1 \in 0..PROCESS_MAX_FD /\ n + 1 # 0 /\ (n + 1) - 1 = n
        BY <2>3, FileTableAssumption
      <3> QED BY <2>1, <3>1 DEF ClosedStep
    <2> QED BY <2>2, <2>3
  <1> HIDE DEF W
  <1>2. 0 \in S
    <2>1. WorldInv(World) /\ World.files = files
      BY DEF FileInv, World
    <2> QED BY <1>1, <2>1
  <1>3. ASSUME NEW n \in Nat, n \in S
        PROVE  n + 1 \in S
    <2> SUFFICES ASSUME n + 1 <= PROCESS_MAX_FD
                 PROVE  Right(n + 1)
      OBVIOUS
    <2>1. Right(n)
      BY <1>3, FileTableAssumption
    <2>2. n \in 0..(PROCESS_MAX_FD - 1) /\ fd[p][n] \in Ft \cup {Free} /\ Free \notin Ft
      BY <1>0, FileTableAssumption DEF Ft, Free
    <2>3. \A t \in Ft : Closed(n + 1, t) <=> Closed(n, t) \/ (fd[p][n] = t /\ files[t] # "proc")
      <3>1. \A i : i \in 0..((n + 1) - 1) <=> i \in 0..(n - 1) \/ i = n
        OBVIOUS
      <3> QED BY <3>1
    <2> HIDE DEF Closed
    <2>4. CASE fd[p][n] = Free
      BY <1>1, <2>1, <2>2, <2>3, <2>4
    <2>5. CASE fd[p][n] # Free
      <3> DEFINE u == fd[p][n]
      <3>1. u \in Ft /\ W[n + 1] = CloseFile(W[n], u)
        BY <1>1, <2>2, <2>5
      <3>2. u = fd[p][n]
        OBVIOUS
      <3> HIDE DEF u
      <3>3. /\ WorldInv(W[n + 1])
            /\ W[n + 1].files[u] = IF W[n].files[u] = "proc" THEN "proc" ELSE "none"
            /\ \A t \in Ft \ {u} : W[n + 1].files[t] = W[n].files[t]
        BY <2>1, <3>1, CloseFileFacts
      <3>4. ASSUME NEW t \in Ft
            PROVE  W[n + 1].files[t] = IF Closed(n + 1, t) THEN "none" ELSE files[t]
        <4>1. CASE t = u
          <5>1. Closed(n + 1, t) <=> files[t] # "proc"
            BY <2>3, <3>2, <4>1 DEF Closed
          <5>2. W[n].files[t] = "proc" <=> files[t] = "proc"
            BY <2>1 DEF Closed
          <5> QED BY <3>3, <4>1, <5>1, <5>2
        <4>2. CASE t # u
          BY <2>1, <2>3, <3>2, <3>3, <4>2
        <4> QED BY <4>1, <4>2
      <3> QED BY <3>3, <3>4
    <2> QED BY <2>4, <2>5
  <1>4. PROCESS_MAX_FD \in S
    <2> HIDE DEF S
    <2>1. Nat \subseteq S
      BY <1>2, <1>3, SetInduction
    <2> QED BY <2>1, FileTableAssumption
  <1>5. Right(PROCESS_MAX_FD) /\ CleanupFd(p) = W[PROCESS_MAX_FD]
    BY <1>4, FileTableAssumption DEF CleanupFd, W
  <1> QED BY <1>5 DEF Fd

-----------------------------------------------------------------------------
(* Descriptors.                                                            *)

LEMMA Indices ==
    /\ Free \notin Ft /\ HeapWord \notin Ft /\ Free # HeapWord
    /\ Beyond \notin Fd /\ Beyond \in Index /\ Fd \subseteq Index
    /\ \A i \in Index : i \in Fd \/ i = Beyond
  BY FileTableAssumption DEF Free, HeapWord, Ft, Fd, Beyond, Index

(* get_free_fd_of_current_process finds a free descriptor or the word     *)
(* behind them.                                                            *)
LEMMA GetFreeFdFacts ==
    ASSUME NEW p
    PROVE  GetFreeFd(p) \in Index /\ (GetFreeFd(p) \in Fd => fd[p][GetFreeFd(p)] = Free)
  <1> DEFINE IsFree(i) == /\ i \in Fd => fd[p][i] = Free
                          /\ \A j \in Fd : j < i => fd[p][j] # Free
             free == {i \in Fd : fd[p][i] = Free}
  <1>1. \E i \in Index : IsFree(i)
    <2>1. CASE free = {}
      <3>1. IsFree(Beyond)
        BY <2>1, Indices
      <3> QED BY <3>1, Indices
    <2>2. CASE free # {}
      <3>1. free \in SUBSET Nat
        BY DEF Fd
      <3>2. PICK i \in free : \A j \in free : i <= j
        <4> HIDE DEF free
        <4> QED BY <2>2, <3>1, SmallestElement
      <3>3. IsFree(i)
        <4> SUFFICES ASSUME NEW j \in Fd, j < i, fd[p][j] = Free
                     PROVE  FALSE
          BY <3>2
        <4>1. i <= j /\ i \in Nat /\ j \in Nat
          BY <3>2 DEF Fd
        <4> QED BY <4>1
      <3> QED BY <3>2, <3>3, Indices
    <2> QED BY <2>1, <2>2
  <1>2. GetFreeFd(p) = CHOOSE i \in Index : IsFree(i)
    BY DEF GetFreeFd, Index
  <1>3. GetFreeFd(p) \in Index /\ IsFree(GetFreeFd(p))
    <2> HIDE DEF IsFree
    <2> QED BY <1>1, <1>2
  <1> QED BY <1>3

(* A file is opened. *)
LEMMA RegisterKeeps ==
    ASSUME FileInv, NEW p \in Process, NEW t \in Ft, NEW kind \in Kind, Register(p, t, kind)
    PROVE  TableInv' /\ files' \in [Ft -> FileKind] /\ files[t] = "none" /\ files'[t] = kind
                     /\ \A u \in Ft \ {t} : files'[u] = files[u]
  <1> DEFINE i == GetFreeFd(p)
             row == [fd[p] EXCEPT ![i] = t]
  <1>1. /\ p \in alive /\ files[t] = "none"
        /\ files' = [files EXCEPT ![t] = kind]
        /\ fd' = [fd EXCEPT ![p] = row]
        /\ spilled' = IF i = Beyond THEN spilled \cup {t} ELSE spilled
        /\ alive' = alive
    BY DEF Register, SetFt, IsFreeFt
  <1>2. i \in Index /\ (i \in Fd => fd[p][i] = Free)
    BY GetFreeFdFacts
  <1>3. files \in [Ft -> FileKind] /\ kind \in FileKind /\ kind # "none"
    BY DEF FileInv, WorldInv, World, Kind, FileKind
  <1>4. /\ files' \in [Ft -> FileKind] /\ files'[t] = kind
        /\ \A u \in Ft \ {t} : files'[u] = files[u]
    BY <1>1, <1>3
  <1>5. fd \in [Process -> [Index -> Ft \cup {Free, HeapWord}]] /\ alive \subseteq Process
    BY DEF FileInv, TableInv
  <1> HIDE DEF i
  <1>6. /\ row \in [Index -> Ft \cup {Free, HeapWord}] /\ row[i] = t
        /\ \A j \in Index \ {i} : row[j] = fd[p][j]
    BY <1>2, <1>5
  <1> HIDE DEF row
  <1>7. /\ fd' \in [Process -> [Index -> Ft \cup {Free, HeapWord}]]
        /\ fd'[p][i] = t
        /\ \A j \in Index \ {i} : fd'[p][j] = fd[p][j]
        /\ \A q \in Process \ {p} : fd'[q] = fd[q]
    BY <1>1, <1>5, <1>6
  <1>8. \A q \in alive : \A j \in Index : (q = p /\ j = i) \/ fd'[q][j] = fd[q][j]
    BY <1>5, <1>7
  <1>9. \A q \in alive : \A j \in Index : fd[q][j] # t
    BY <1>1 DEF FileInv, TableInv, OpenInv
  <1>10. (\A q \in Process : \A j \in Fd : fd[q][j] # HeapWord)'
    BY <1>5, <1>7, Indices DEF FileInv, TableInv
  <1>11. (spilled \subseteq {u \in Ft : files[u] # "none"})'
    BY <1>1, <1>3, <1>4 DEF FileInv, TableInv
  <1>12. (\A q \in alive : fd[q][Beyond] \in Ft => fd[q][Beyond] \in spilled)'
    BY <1>1, <1>7, <1>8, Indices DEF FileInv, TableInv
  <1>13. OpenInv'
    BY <1>1, <1>3, <1>4, <1>7, <1>8 DEF FileInv, TableInv, OpenInv
  <1>14. OneInv'
    BY <1>1, <1>7, <1>8, <1>9 DEF FileInv, TableInv, OneInv
  <1>15. LeakInv'
    <2> SUFFICES ASSUME NEW u \in Ft, files'[u] # "none", files'[u] # "proc", u \notin spilled'
                 PROVE  \E q \in alive : \E j \in Index : fd'[q][j] = u
      BY <1>1 DEF LeakInv
    <2>1. CASE u = t
      BY <1>1, <1>2, <1>7, <2>1
    <2>2. CASE u # t
      <3>1. files[u] = files'[u] /\ u \notin spilled
        BY <1>1, <1>4, <2>2
      <3>2. PICK q \in alive : \E j \in Index : fd[q][j] = u
        BY <3>1 DEF FileInv, TableInv, LeakInv
      <3>3. PICK j \in Index : fd[q][j] = u
        BY <3>2
      <3>4. ~(q = p /\ j = i)
        <4> SUFFICES ASSUME q = p, j = i
                     PROVE  FALSE
          OBVIOUS
        <4>1. i = Beyond
          BY <1>2, <3>3, Indices
        <4>2. u \in spilled
          BY <3>3, <4>1 DEF FileInv, TableInv
        <4> QED BY <3>1, <4>2
      <3> QED BY <1>8, <3>3, <3>4
    <2> QED BY <2>1, <2>2
  <1>16. TableInv'
    BY <1>1, <1>5, <1>7, <1>10, <1>11, <1>12, <1>13, <1>14, <1>15 DEF TableInv
  <1> QED BY <1>1, <1>4, <1>16

LEMMA OpenPlainKeeps ==
    ASSUME FileInv, NEW p \in Process, NEW t \in Ft, NEW kind \in Kind, OpenPlain(p, t, kind)
    PROVE  FileInv'
  <1>1. /\ TableInv' /\ files' \in [Ft -> FileKind] /\ files[t] = "none" /\ files'[t] = kind
        /\ \A u \in Ft \ {t} : files'[u] = files[u]
    BY RegisterKeeps DEF OpenPlain
  <1>2. kind \in {"plain", "proc"} /\ UNCHANGED <<foreground, display>>
    BY DEF OpenPlain
  <1>3. WorldInv(World)'
    BY <1>1, <1>2 DEF FileInv, WorldInv, World
  <1> QED BY <1>1, <1>3 DEF FileInv

(* What is put in front of a list. *)
LEMMA InFront ==
    ASSUME NEW S, NEW s \in Seq(S), IsInjective(s), NEW t \in S, t \notin Range(s)
    PROVE  /\ <<t>> \o s \in Seq(S) /\ IsInjective(<<t>> \o s)
           /\ Range(<<t>> \o s) = Range(s) \cup {t}
  <1> DEFINE u == <<t>> \o s
             n == Len(s)
  <1>1. <<t>> \in Seq(S) /\ Len(<<t>>) = 1 /\ <<t>>[1] = t /\ n \in Nat
    OBVIOUS
  <1>2. /\ u \in Seq(S) /\ Len(u) = n + 1 /\ u[1] = t
        /\ \A i \in 1..n : u[i + 1] = s[i]
    <2>1. /\ u \in Seq(S) /\ Len(u) = n + 1
          /\ \A i \in 1..(n + 1) : u[i] = IF i <= 1 THEN <<t>>[i] ELSE s[i - 1]
      BY <1>1, ConcatProperties
    <2>2. u[1] = t
      BY <1>1, <2>1
    <2> HIDE DEF u, n
    <2>3. ASSUME NEW i \in 1..n
          PROVE  u[i + 1] = s[i]
      <3>1. i + 1 \in 1..(n + 1) /\ ~(i + 1 <= 1) /\ (i + 1) - 1 = i
        BY <1>1
      <3> QED BY <2>1, <3>1
    <2> QED BY <2>1, <2>2, <2>3
  <1>3. Range(u) = {u[i] : i \in 1..Len(u)} /\ Range(s) = {s[i] : i \in 1..n}
    <2>1. Range(s) = {s[i] : i \in 1..n}
      BY RangeByIndex
    <2> HIDE DEF u
    <2>2. Range(u) = {u[i] : i \in 1..Len(u)}
      BY <1>2, RangeByIndex
    <2> QED BY <2>1, <2>2
  <1>4. \A i, j \in 1..n : s[i] = s[j] => i = j
    BY InjectiveByIndex
  <1> HIDE DEF u, n
  <1>5. \A i \in 1..(n + 1) : i # 1 => i - 1 \in 1..n /\ u[i] = s[i - 1] /\ u[i] \in Range(s)
    <2> SUFFICES ASSUME NEW i \in 1..(n + 1), i # 1
                 PROVE  i - 1 \in 1..n /\ u[i] = s[i - 1] /\ u[i] \in Range(s)
      OBVIOUS
    <2>1. i - 1 \in 1..n /\ (i - 1) + 1 = i
      BY <1>1
    <2>2. u[i] = s[i - 1]
      BY <1>2, <2>1
    <2> QED BY <1>3, <2>1, <2>2
  <1>6. IsInjective(u)
    <2>1. \A i, j \in 1..Len(u) : u[i] = u[j] => i = j
      <3> SUFFICES ASSUME NEW i \in 1..(n + 1), NEW j \in 1..(n + 1), u[i] = u[j]
                   PROVE  i = j
        BY <1>2
      <3>1. CASE i = 1 \/ j = 1
        BY <1>2, <1>5, <3>1
      <3>2. CASE i # 1 /\ j # 1
        <4>1. i - 1 = j - 1
          BY <1>4, <1>5, <3>2
        <4> QED BY <1>1, <4>1
      <3> QED BY <3>1, <3>2
    <2> QED BY <1>2, <2>1, InjectiveByIndex
  <1>7. Range(u) = Range(s) \cup {t}
    <2>1. Range(u) \subseteq Range(s) \cup {t}
      BY <1>2, <1>3, <1>5
    <2>2. t \in Range(u)
      <3>1. 1 \in 1..Len(u)
        BY <1>1, <1>2
      <3> QED BY <1>2, <1>3, <3>1
    <2>3. ASSUME NEW x \in Range(s)
          PROVE  x \in Range(u)
      <3>1. PICK i \in 1..n : x = s[i]
        BY <1>3
      <3>2. i + 1 \in 1..Len(u) /\ u[i + 1] = x
        BY <1>1, <1>2, <3>1
      <3> QED BY <1>3, <3>2
    <2> QED BY <2>1, <2>2, <2>3
  <1> QED BY <1>2, <1>6, <1>7 DEF u

LEMMA OpenStdinKeeps ==
    ASSUME FileInv, NEW p \in Process, NEW t \in Ft, OpenStdin(p, t)
    PROVE  FileInv'
  <1>1. /\ TableInv' /\ files' \in [Ft -> FileKind] /\ files[t] = "none" /\ files'[t] = "stdin"
        /\ \A u \in Ft \ {t} : files'[u] = files[u]
    BY RegisterKeeps DEF OpenStdin, Kind
  <1>2. foreground' = <<t>> \o foreground /\ display' = display
    BY DEF OpenStdin
  <1>3. /\ foreground' \in Seq(Ft) /\ IsInjective(foreground')
        /\ Range(foreground') = Range(foreground) \cup {t}
    <2>1. foreground \in Seq(Ft) /\ IsInjective(foreground) /\ t \notin Range(foreground)
      BY <1>1 DEF FileInv, WorldInv, World
    <2> QED BY <1>2, <2>1, InFront
  <1>4. WorldInv(World)'
    BY <1>1, <1>2, <1>3 DEF FileInv, WorldInv, World
  <1> QED BY <1>1, <1>4 DEF FileInv

LEMMA OpenLayerKeeps ==
    ASSUME FileInv, NEW p \in Process, NEW t \in Ft, OpenLayer(p, t)
    PROVE  FileInv'
  <1>1. /\ TableInv' /\ files' \in [Ft -> FileKind] /\ files[t] = "none"
        /\ files'[t] = "stdout_layered" /\ \A u \in Ft \ {t} : files'[u] = files[u]
    BY RegisterKeeps DEF OpenLayer, Kind
  <1>2. foreground' = foreground /\ display' = CreateLayer(display, t)
    BY DEF OpenLayer
  <1>3. /\ DisplayInv(display')
        /\ Range(display'.layers) = Range(display.layers) \cup {t}
    <2>1. DisplayInv(display) /\ t \notin Range(display.layers)
      BY <1>1, FileTableAssumption DEF FileInv, WorldInv, World, Base, Ft
    <2> QED BY <1>2, <2>1, CreateLayerFacts
  <1>4. WorldInv(World)'
    BY <1>1, <1>2, <1>3 DEF FileInv, WorldInv, World
  <1> QED BY <1>1, <1>4 DEF FileInv

LEMMA BecomesKeeps ==
    ASSUME NEW w, WorldInv(w), Becomes(w)
    PROVE  WorldInv(World)'
  BY DEF Becomes, WorldInv, World

LEMMA CloseKeeps ==
    ASSUME FileInv, NEW p \in Process, NEW i \in Index, Close(p, i)
    PROVE  FileInv'
  <1> DEFINE t == fd[p][i]
             w == CloseFile(World, t)
  <1>1. /\ p \in alive /\ t \in Ft /\ alive' = alive
        /\ Becomes(w)
        /\ fd' = IF files[t] = "proc" THEN fd ELSE [fd EXCEPT ![p][i] = Free]
    BY DEF Close
  <1>2. World.files = files /\ WorldInv(World) /\ TableInv
    BY DEF FileInv, World
  <1>3. /\ WorldInv(w)
        /\ w.files[t] = IF files[t] = "proc" THEN "proc" ELSE "none"
        /\ \A u \in Ft \ {t} : w.files[u] = files[u]
    BY <1>1, <1>2, CloseFileFacts
  <1>4. t = fd[p][i]
    OBVIOUS
  <1> HIDE DEF t, w
  <1>5. WorldInv(World)'
    BY <1>1, <1>3, BecomesKeeps
  <1>6. files' = w.files /\ spilled' = {u \in spilled : w.files[u] # "none"}
    BY <1>1 DEF Becomes
  <1>7. TableInv'
    <2>1. CASE files[t] = "proc"
      <3>1. \A u \in Ft : files'[u] = files[u]
        BY <1>1, <1>3, <1>6, <2>1
      <3>2. spilled' = spilled /\ fd' = fd
        <4>1. spilled \subseteq {u \in Ft : files[u] # "none"}
          BY <1>2 DEF TableInv
        <4> QED BY <1>1, <1>6, <2>1, <3>1, <4>1
      <3> QED BY <1>1, <1>2, <3>1, <3>2 DEF TableInv, OpenInv, OneInv, LeakInv
    <2>2. CASE files[t] # "proc"
      <3>1. files'[t] = "none" /\ \A u \in Ft \ {t} : files'[u] = files[u]
        BY <1>3, <1>6, <2>2
      <3>2. fd \in [Process -> [Index -> Ft \cup {Free, HeapWord}]]
        BY <1>2 DEF TableInv
      <3> DEFINE row == [fd[p] EXCEPT ![i] = Free]
      <3>3. fd' = [fd EXCEPT ![p] = row]
        BY <1>1, <2>2
      <3>4. /\ row \in [Index -> Ft \cup {Free, HeapWord}] /\ row[i] = Free
            /\ \A j \in Index \ {i} : row[j] = fd[p][j]
        BY <3>2
      <3> HIDE DEF row
      <3>5. /\ fd' \in [Process -> [Index -> Ft \cup {Free, HeapWord}]]
            /\ fd'[p][i] = Free
            /\ \A j \in Index \ {i} : fd'[p][j] = fd[p][j]
            /\ \A q \in Process \ {p} : fd'[q] = fd[q]
        BY <3>2, <3>3, <3>4
      <3>6. alive \subseteq Process
        BY <1>2 DEF TableInv
      <3>7. \A q \in alive : \A j \in Index : /\ (q = p /\ j = i) \/ fd'[q][j] = fd[q][j]
                                              /\ fd'[q][j] \in Ft => fd'[q][j] = fd[q][j]
        BY <3>5, <3>6, Indices
      <3>8. \A q \in alive : \A j \in Index : fd[q][j] = t => q = p /\ j = i
        BY <1>1, <1>2, <1>4 DEF TableInv, OneInv
      <3>9. \A q \in alive : \A j \in Index : fd'[q][j] \in Ft => fd'[q][j] # t
        BY <3>5, <3>7, <3>8, Indices
      <3>10. spilled' = spilled \ {t}
        <4>1. spilled \subseteq {u \in Ft : files[u] # "none"}
          BY <1>2 DEF TableInv
        <4> QED BY <1>1, <1>6, <3>1, <4>1
      <3>11. (\A q \in Process : \A j \in Fd : fd[q][j] # HeapWord)'
        BY <1>2, <3>2, <3>5, Indices DEF TableInv
      <3>12. (spilled \subseteq {u \in Ft : files[u] # "none"})'
        BY <1>2, <3>1, <3>10 DEF TableInv
      <3>13. (\A q \in alive : fd[q][Beyond] \in Ft => fd[q][Beyond] \in spilled)'
        BY <1>1, <1>2, <3>7, <3>9, <3>10, Indices DEF TableInv
      <3>14. OpenInv'
        BY <1>1, <1>2, <3>1, <3>7, <3>9 DEF TableInv, OpenInv
      <3>15. OneInv'
        BY <1>1, <1>2, <3>7 DEF TableInv, OneInv
      <3>16. LeakInv'
        <4> SUFFICES ASSUME NEW u \in Ft, files'[u] # "none", files'[u] # "proc", u \notin spilled'
                     PROVE  \E q \in alive : \E j \in Index : fd'[q][j] = u
          BY <1>1 DEF LeakInv
        <4>1. u # t /\ files[u] = files'[u] /\ u \notin spilled
          BY <3>1, <3>10
        <4>2. PICK q \in alive : \E j \in Index : fd[q][j] = u
          BY <1>2, <4>1 DEF TableInv, LeakInv
        <4>3. PICK j \in Index : fd[q][j] = u
          BY <4>2
        <4> QED BY <1>4, <3>7, <4>1, <4>3
      <3> QED BY <1>1, <3>5, <3>6, <3>11, <3>12, <3>13, <3>14, <3>15, <3>16 DEF TableInv
    <2> QED BY <2>1, <2>2
  <1> QED BY <1>5, <1>7 DEF FileInv

(* A new process has no descriptors. *)
LEMMA CreateKeeps ==
    ASSUME FileInv, NEW p \in Process, Create(p)
    PROVE  FileInv'
  <1>1. /\ p \notin alive /\ alive' = alive \cup {p}
        /\ fd' = [fd EXCEPT ![p] = NoDescriptors]
        /\ files' = files /\ foreground' = foreground /\ display' = display /\ spilled' = spilled
    BY DEF Create
  <1>2. /\ NoDescriptors \in [Index -> Ft \cup {Free, HeapWord}]
        /\ \A i \in Index : NoDescriptors[i] \notin Ft
        /\ \A i \in Fd : NoDescriptors[i] # HeapWord
    BY Indices DEF NoDescriptors, Index
  <1>3. TableInv
    BY DEF FileInv
  <1>4. /\ fd' \in [Process -> [Index -> Ft \cup {Free, HeapWord}]]
        /\ fd'[p] = NoDescriptors
        /\ \A q \in Process \ {p} : fd'[q] = fd[q]
        /\ alive \subseteq Process
    <2>1. fd \in [Process -> [Index -> Ft \cup {Free, HeapWord}]] /\ alive \subseteq Process
      BY <1>3 DEF TableInv
    <2> HIDE DEF NoDescriptors
    <2> QED BY <1>1, <1>2, <2>1
  <1>5. \A q \in alive' : \A i \in Index : fd'[q][i] \in Ft => q \in alive /\ fd'[q][i] = fd[q][i]
    BY <1>1, <1>2, <1>4
  <1>6. \A q \in alive : fd'[q] = fd[q]
    BY <1>1, <1>4
  <1>7. (\A q \in Process : \A j \in Fd : fd[q][j] # HeapWord)'
    BY <1>2, <1>3, <1>4 DEF TableInv
  <1>8. (\A q \in alive : fd[q][Beyond] \in Ft => fd[q][Beyond] \in spilled)'
    BY <1>1, <1>3, <1>5, Indices DEF TableInv
  <1>9. OpenInv'
    BY <1>1, <1>3, <1>5 DEF TableInv, OpenInv
  <1>10. OneInv'
    <2> SUFFICES ASSUME NEW q \in alive', NEW r \in alive', NEW i \in Index, NEW j \in Index,
                        fd'[q][i] \in Ft, fd'[q][i] = fd'[r][j]
                 PROVE  q = r /\ i = j
      BY DEF OneInv
    <2>1. /\ q \in alive /\ r \in alive
          /\ fd[q][i] = fd'[q][i] /\ fd[r][j] = fd'[r][j]
      BY <1>5
    <2> QED BY <1>3, <2>1 DEF TableInv, OneInv
  <1>11. LeakInv'
    BY <1>1, <1>3, <1>6 DEF TableInv, LeakInv
  <1>12. TableInv'
    BY <1>1, <1>3, <1>4, <1>7, <1>8, <1>9, <1>10, <1>11 DEF TableInv
  <1>13. WorldInv(World)'
    BY <1>1 DEF FileInv, WorldInv, World
  <1> QED BY <1>12, <1>13 DEF FileInv

(* What a process leaves open when it ends was stored behind fd[], or is   *)
(* of /proc.                                                               *)
LEMMA DestroyKeeps ==
    ASSUME FileInv, NEW p \in Process, Destroy(p)
    PROVE  FileInv'
  <1> DEFINE w == CleanupFd(p)
  <1>1. /\ p \in alive /\ alive' = alive \ {p}
        /\ Becomes(w)
        /\ fd' = [fd EXCEPT ![p] = NoDescriptors]
    BY DEF Destroy
  <1>2. /\ WorldInv(w)
        /\ \A t \in Ft : w.files[t] = IF (\E i \in Fd : fd[p][i] = t) /\ files[t] # "proc"
                                        THEN "none" ELSE files[t]
    BY CleanupFdFacts
  <1> HIDE DEF w
  <1>3. TableInv /\ p \in Process
    BY DEF FileInv
  <1>4. /\ files' = w.files /\ spilled' = {t \in spilled : files'[t] # "none"}
    BY <1>1 DEF Becomes
  <1>5. /\ NoDescriptors \in [Index -> Ft \cup {Free, HeapWord}]
        /\ \A i \in Fd : NoDescriptors[i] # HeapWord
    BY Indices DEF NoDescriptors, Index
  <1>6. /\ fd' \in [Process -> [Index -> Ft \cup {Free, HeapWord}]]
        /\ fd'[p] = NoDescriptors
        /\ \A q \in Process \ {p} : fd'[q] = fd[q]
        /\ alive \subseteq Process
    <2>1. fd \in [Process -> [Index -> Ft \cup {Free, HeapWord}]] /\ alive \subseteq Process
      BY <1>3 DEF TableInv
    <2> HIDE DEF NoDescriptors
    <2> QED BY <1>1, <1>5, <2>1
  <1>7. \A q \in alive' : q \in alive /\ q # p /\ fd'[q] = fd[q]
    BY <1>1, <1>6
  <1>8. ASSUME NEW q \in alive', NEW i \in Index, fd[q][i] \in Ft
        PROVE  files'[fd[q][i]] = files[fd[q][i]]
    <2>1. \A j \in Fd : fd[p][j] # fd[q][i]
      BY <1>1, <1>3, <1>7, <1>8, Indices DEF TableInv, OneInv
    <2> QED BY <1>2, <1>4, <1>8, <2>1
  <1>9. (\A q \in Process : \A j \in Fd : fd[q][j] # HeapWord)'
    BY <1>3, <1>5, <1>6 DEF TableInv
  <1>10. (spilled \subseteq {u \in Ft : files[u] # "none"})'
    BY <1>3, <1>4 DEF TableInv
  <1>11. OpenInv'
    BY <1>3, <1>7, <1>8 DEF TableInv, OpenInv
  <1>12. (\A q \in alive : fd[q][Beyond] \in Ft => fd[q][Beyond] \in spilled)'
    <2> SUFFICES ASSUME NEW q \in alive', fd'[q][Beyond] \in Ft
                 PROVE  fd'[q][Beyond] \in spilled'
      OBVIOUS
    <2> DEFINE t == fd[q][Beyond]
    <2>1. fd'[q][Beyond] = t /\ t \in Ft /\ t \in spilled /\ files[t] # "none"
      BY <1>3, <1>7 DEF TableInv
    <2>2. files'[t] = files[t]
      BY <1>8, <2>1, Indices
    <2> QED BY <1>4, <2>1, <2>2
  <1>13. OneInv'
    BY <1>3, <1>7 DEF TableInv, OneInv
  <1>14. LeakInv'
    <2> SUFFICES ASSUME NEW u \in Ft, files'[u] # "none", files'[u] # "proc", u \notin spilled'
                 PROVE  \E q \in alive' : \E j \in Index : fd'[q][j] = u
      BY DEF LeakInv
    <2>1. files[u] = files'[u] /\ u \notin spilled /\ \A j \in Fd : fd[p][j] # u
      BY <1>2, <1>4
    <2>2. PICK q \in alive : \E j \in Index : fd[q][j] = u
      BY <1>3, <2>1 DEF TableInv, LeakInv
    <2>3. PICK j \in Index : fd[q][j] = u
      BY <2>2
    <2>4. q # p
      <3>1. fd[p][Beyond] # u
        BY <1>1, <1>3, <2>1 DEF TableInv
      <3> QED BY <2>1, <2>3, <3>1, Indices
    <2> QED BY <1>1, <1>7, <2>3, <2>4
  <1>15. TableInv'
    <2>1. (alive \subseteq Process)'
      BY <1>1, <1>6
    <2> QED BY <1>6, <1>9, <1>10, <1>11, <1>12, <1>13, <1>14, <2>1 DEF TableInv
  <1>16. WorldInv(World)'
    BY <1>1, <1>2, BecomesKeeps
  <1> QED BY <1>15, <1>16 DEF FileInv

(* What only draws. *)
LEMMA DrawingKeeps ==
    ASSUME FileInv, UNCHANGED <<alive, fd, files, foreground, spilled>>,
           DisplayInv(display'), display'.layers = display.layers
    PROVE  FileInv'
  <1>1. TableInv'
    BY DEF FileInv, TableInv, OpenInv, OneInv, LeakInv
  <1>2. WorldInv(World)'
    BY DEF FileInv, WorldInv, World
  <1> QED BY <1>1, <1>2 DEF FileInv

LEMMA EchoKeeps == ASSUME FileInv, NEW c \in Char, Echo(c) PROVE FileInv'
  <1>1. DisplayInv(display)
    BY DEF FileInv, WorldInv, World
  <1>2. DisplayInv(display') /\ display'.layers = display.layers
    BY <1>1, PutFacts DEF Echo
  <1> QED BY <1>2, DrawingKeeps DEF Echo

LEMMA ScrollKeeps == ASSUME FileInv, NEW c \in Char, Scroll(c) PROVE FileInv'
  <1>1. DisplayInv(display) /\ Base \in Range(display.layers)
    BY DEF FileInv, WorldInv, World
  <1>2. c \in Cell /\ c # Empty
    BY FileTableAssumption DEF Cell
  <1>3. DisplayInv(display') /\ display'.layers = display.layers
    BY <1>1, <1>2, WriteToLayerFacts DEF Scroll
  <1> QED BY <1>3, DrawingKeeps DEF Scroll

LEMMA WriteLayerKeeps ==
    ASSUME FileInv, NEW p \in Process, NEW i \in Index, NEW c \in Char, WriteLayer(p, i, c)
    PROVE  FileInv'
  <1>1. DisplayInv(display) /\ fd[p][i] \in Range(display.layers)
    BY DEF WriteLayer, FileInv, WorldInv, World
  <1>2. c \in Cell /\ c # Empty
    BY FileTableAssumption DEF Cell
  <1>3. DisplayInv(display') /\ display'.layers = display.layers
    BY <1>1, <1>2, WriteToLayerFacts DEF WriteLayer
  <1> QED BY <1>3, DrawingKeeps DEF WriteLayer

-----------------------------------------------------------------------------
(* The invariant and what follows from it.                                 *)

LEMMA FileInit == ASSUME Init PROVE FileInv
  <1>1. /\ alive = {} /\ fd = [p \in Process |-> NoDescriptors]
        /\ files = [t \in Ft |-> "none"] /\ foreground = <<>> /\ display = Initial /\ spilled = {}
    BY DEF Init
  <1>2. /\ NoDescriptors \in [Index -> Ft \cup {Free, HeapWord}]
        /\ \A i \in Fd : NoDescriptors[i] # HeapWord
    BY Indices DEF NoDescriptors, Index
  <1>3. TableInv
    BY <1>1, <1>2 DEF TableInv, OpenInv, OneInv, LeakInv
  <1>4. DisplayInv(display) /\ Range(display.layers) = {Base}
    <2> DEFINE row == [l \in {Base} |-> Blank]
    <2>1. /\ display = [layers |-> <<Base>>, cell |-> row, shown |-> Blank, overprinted |-> FALSE]
      BY <1>1 DEF Initial
    <2>2. Blank \in Cell /\ Blank # Empty /\ Base \in Layer /\ {Base} \in SUBSET Layer
      BY FileTableAssumption DEF Cell, Layer
    <2>3. row \in [{Base} -> Cell] /\ row[Base] = Blank
      BY <2>2
    <2> HIDE DEF row
    <2>4. /\ display.layers = <<Base>> /\ display.cell = row
          /\ display.shown = Blank /\ display.overprinted = FALSE
      BY <2>1
    <2>5. <<Base>> \in Seq(Layer) /\ Len(<<Base>>) = 1 /\ <<Base>>[1] = Base /\ <<Base>> # <<>>
      BY <2>2
    <2>6. Range(<<Base>>) = {Base} /\ IsInjective(<<Base>>)
      <3> DEFINE one == <<Base>>
      <3>1. one \in Seq(Layer) /\ Len(one) = 1 /\ one[1] = Base
        BY <2>5
      <3> HIDE DEF one
      <3>2. Range(one) = {one[i] : i \in 1..1}
        BY <3>1, RangeByIndex
      <3>3. IsInjective(one)
        BY <3>1, InjectiveByIndex
      <3> QED BY <3>1, <3>2, <3>3 DEF one
    <2>7. Shows(display)
      <3>1. Value(display, 1) = Blank
        BY <2>3, <2>4, <2>5 DEF Value
      <3>2. IsTop(display, 1, 1)
        BY <2>2, <3>1 DEF IsTop
      <3> QED BY <2>4, <2>5, <3>1, <3>2 DEF Shows
    <2>8. display \in DisplayType
      BY <2>1, <2>2, <2>3, <2>5 DEF DisplayType
    <2> QED BY <2>2, <2>3, <2>4, <2>5, <2>6, <2>7, <2>8 DEF DisplayInv
  <1>5. WorldInv(World)
    BY <1>1, <1>4, EmptyQueue DEF WorldInv, World, FileKind
  <1> QED BY <1>3, <1>5 DEF FileInv

(* Whatever processes open, print and close, and however they end: the     *)
(* invariant of vfs.c, dev.c and framebuffer.c together.                   *)
THEOREM FileTableInvariant == Spec => []FileInv
  <1>1. Init => FileInv
    BY FileInit
  <1>2. FileInv /\ [Next]_vars => FileInv'
    <2> SUFFICES ASSUME FileInv, [Next]_vars
                 PROVE  FileInv'
      OBVIOUS
    <2>1. ASSUME NEW p \in Process, Create(p)
          PROVE  FileInv'
      BY <2>1, CreateKeeps
    <2>2. ASSUME NEW p \in Process, Destroy(p)
          PROVE  FileInv'
      BY <2>2, DestroyKeeps
    <2>3. ASSUME NEW p \in Process, NEW t \in Ft, NEW kind \in Kind, OpenPlain(p, t, kind)
          PROVE  FileInv'
      BY <2>3, OpenPlainKeeps
    <2>4. ASSUME NEW p \in Process, NEW t \in Ft, OpenStdin(p, t)
          PROVE  FileInv'
      BY <2>4, OpenStdinKeeps
    <2>5. ASSUME NEW p \in Process, NEW t \in Ft, OpenLayer(p, t)
          PROVE  FileInv'
      BY <2>5, OpenLayerKeeps
    <2>6. ASSUME NEW p \in Process, NEW i \in Fd \cup {Beyond}, Close(p, i)
          PROVE  FileInv'
      BY <2>6, CloseKeeps DEF Index
    <2>7. ASSUME NEW p \in Process, NEW i \in Fd \cup {Beyond}, NEW c \in Char, WriteLayer(p, i, c)
          PROVE  FileInv'
      BY <2>7, WriteLayerKeeps DEF Index
    <2>8. ASSUME NEW c \in Char, Echo(c) \/ Scroll(c)
          PROVE  FileInv'
      BY <2>8, EchoKeeps, ScrollKeeps
    <2>9. CASE UNCHANGED vars
      <3>1. TableInv'
        BY <2>9 DEF FileInv, TableInv, OpenInv, OneInv, LeakInv, vars
      <3>2. WorldInv(World)'
        BY <2>9 DEF FileInv, WorldInv, World, vars
      <3> QED BY <3>1, <3>2 DEF FileInv
    <2> QED BY <2>1, <2>2, <2>3, <2>4, <2>5, <2>6, <2>7, <2>8, <2>9 DEF Next
  <1> QED BY <1>1, <1>2, PTL DEF Spec

(* Descriptors point to open files, no two of them to the same.            *)
THEOREM DescriptorsAreExclusive == Spec => []DescriptorsExclusive
  <1>1. FileInv => DescriptorsExclusive
    <2> SUFFICES ASSUME FileInv, NEW d \in Descriptors
                 PROVE  /\ files[FileOf(d)] # "none"
                        /\ \A e \in Descriptors \ {d} : FileOf(e) # FileOf(d)
      BY DEF DescriptorsExclusive
    <2>1. PICK p \in alive, i \in Index : d = <<p, i>> /\ fd[p][i] \in Ft /\ FileOf(d) = fd[p][i]
      BY DEF Descriptors, FileOf, Index
    <2>2. files[FileOf(d)] # "none"
      BY <2>1 DEF FileInv, TableInv, OpenInv
    <2>3. ASSUME NEW e \in Descriptors, FileOf(e) = FileOf(d)
          PROVE  e = d
      <3>1. PICK q \in alive, j \in Index : e = <<q, j>> /\ FileOf(e) = fd[q][j]
        BY DEF Descriptors, FileOf, Index
      <3> QED BY <2>1, <2>3, <3>1 DEF FileInv, TableInv, OneInv
    <2> QED BY <2>2, <2>3
  <1> QED BY <1>1, FileTableInvariant, PTL

(* No file leaks but those of /proc and those stored behind fd[].          *)
THEOREM LeaksAreExplained == Spec => []LeaksExplained
  <1>1. FileInv => LeaksExplained
    <2> SUFFICES ASSUME FileInv, NEW t \in Ft, files[t] # "none", files[t] # "proc", t \notin spilled
                 PROVE  \E d \in Descriptors : FileOf(d) = t
      BY DEF LeaksExplained
    <2>1. PICK p \in alive : \E i \in Index : fd[p][i] = t
      BY DEF FileInv, TableInv, LeakInv
    <2>2. PICK i \in Index : fd[p][i] = t
      BY <2>1
    <2>3. <<p, i>> \in Descriptors /\ FileOf(<<p, i>>) = t
      BY <2>2 DEF Descriptors, FileOf, Index
    <2> QED BY <2>3
  <1> QED BY <1>1, FileTableInvariant, PTL

(* The foreground list and the layers are those of the open files.         *)
THEOREM DevicesAgreeWithFiles == Spec => []DevicesFollowFiles
  <1>1. FileInv => DevicesFollowFiles
    <2> SUFFICES ASSUME FileInv
                 PROVE  DevicesFollowFiles
      OBVIOUS
    <2>1. ToSet(foreground) = Range(foreground) /\ ToSet(display.layers) = Range(display.layers)
      BY DEF ToSet, Range
    <2> QED BY <2>1 DEF FileInv, WorldInv, World, DisplayInv, DevicesFollowFiles
  <1> QED BY <1>1, FileTableInvariant, PTL

(* The screen shows the highest layer that has something there.            *)
THEOREM TopLayerIsShown == Spec => []TopLayerShows
  <1>1. FileInv => TopLayerShows
    <2> SUFFICES ASSUME FileInv, ~display.overprinted
                 PROVE  display.shown = Topmost(display, Len(display.layers))
      BY DEF TopLayerShows
    <2>1. DisplayInv(display)
      BY DEF FileInv, WorldInv, World
    <2>2. PICK i \in 1..Len(display.layers) :
              IsTop(display, Len(display.layers), i) /\ display.shown = Value(display, i)
      BY <2>1 DEF DisplayInv, Shows
    <2>3. Len(display.layers) \in Nat
      BY <2>1, DisplayFacts
    <2> QED BY <2>2, <2>3, TopmostIs
  <1> QED BY <1>1, FileTableInvariant, PTL
=============================================================================
