----------------------------- MODULE Fat32Proofs -----------------------------
(***************************************************************************)
(* Fat32: between system calls, and after every power failure that does    *)
(* not hit mkgeneral or the formatting, no cluster is in two files, none   *)
(* is lost but those of an interrupted delete_vfs, and every file has the  *)
(* clusters its size asks for; a descriptor's cluster is the one at its    *)
(* position.                                                               *)
(*                                                                         *)
(* The argument.  An operation changes the table in memory at once and the *)
(* disk step by step, so the invariant speaks of disks there are not yet:  *)
(* After(k) is the disk after the next k writes.  The last of them must be *)
(* sound, with the table in memory; those before it must be sound where    *)
(* the power may fail.  Then a write to the disk preserves the invariant   *)
(* because it only shifts k, and each operation has to show once that the  *)
(* disks it leads through are sound.                                       *)
(*                                                                         *)
(* The tree a disk shows changes with the writes, not with the operations: *)
(* each write still to come leads from a tree to the same one or, by one   *)
(* operation of FileTree, to the next (TreeStep).  So Fat32 implements     *)
(* FileTree, wherever the writes stop.                                     *)
(***************************************************************************)
EXTENDS Fat32, ProofLemmas

-----------------------------------------------------------------------------
(* What a disk holds: the definitions of Fat32, for a disk d.              *)

MapOf(d) == d[FAT_CLUSTER_NUMBER].map

EntryOn(d, p) == d[p[1]].entry[p[2]]

HasEntry(d, p) == d[p[1]].is = "table" /\ EntryOn(d, p) # NoEntry

SubdirectoriesOn(d) ==
    {EntryOn(d, p).cluster : p \in {q \in {ROOT_CLUSTER_NUMBER} \X Slot :
                                        HasEntry(d, q) /\ EntryOn(d, q).kind = "dir"}}

DirectoriesOn(d) == {ROOT_CLUSTER_NUMBER} \cup SubdirectoriesOn(d)

EntriesOn(d) == {p \in DirectoriesOn(d) \X Slot : HasEntry(d, p)}

Head0(d, p) == EntryOn(d, p).cluster

-----------------------------------------------------------------------------
(* A sound disk.                                                           *)

EntryType == [kind : {"file", "dir"}, name : Name, cluster : Cluster, filesize : 0..MaxSize]

MapType == [Cluster -> 0..(ClusterCount + 1)]

Content == {Data, [is |-> "signature"]}
               \cup [is : {"fat"}, map : MapType]
               \cup [is : {"table"}, entry : [Slot -> EntryType \cup {NoEntry}]]

IsMap(map) ==
    /\ map \in MapType
    /\ map[BOOT_SECTOR] = CLUSTER_0_VALUE
    /\ map[FAT_CLUSTER_NUMBER] = CLUSTER_0_VALUE
    /\ map[ROOT_CLUSTER_NUMBER] = FAT32_FAT_END_OF_FILE

Used(map) == {c \in Cluster : c > ROOT_CLUSTER_NUMBER /\ map[c] # FAT32_FAT_EMPTY_ENTRY}

(* Every used cluster leads to a used one or ends its chain, and no two    *)
(* lead to the same.                                                       *)
IsLinked(map) ==
    /\ \A c \in Used(map) : map[c] = FAT32_FAT_END_OF_FILE \/ map[c] \in Used(map)
    /\ \A c, e \in Used(map) : map[c] = map[e] /\ map[c] \in Cluster => c = e

(***************************************************************************)
(* Reaching a cluster without counting: c is in every set that contains    *)
(* the head and is closed under the map.                                   *)
(***************************************************************************)
IsClosed(map, S) == \A c \in S : map[c] \in Cluster => map[c] \in S

Owns(map, head, c) == \A S \in SUBSET Cluster : head \in S /\ IsClosed(map, S) => c \in S

(* Nothing leads into S from outside. *)
IsSealed(map, S) == \A c \in Used(map) : map[c] \in S => c \in S

(* The table with the chains of the heads H and the lost clusters l. *)
LinksSound(map, H, l) ==
    /\ IsMap(map)
    /\ IsLinked(map)
    /\ H \subseteq Used(map) /\ \A h \in H : \A c \in Used(map) : map[c] # h
    /\ l \subseteq Used(map) /\ l \cap H = {} /\ IsSealed(map, l)
    /\ \A c \in Used(map) \ l : \E h \in H : Owns(map, h, c)

Heads(d) == {Head0(d, p) : p \in EntriesOn(d)}

TablesSound(d) ==
    /\ d \in [Cluster -> Content]
    /\ d[BOOT_SECTOR].is = "signature"
    /\ d[FAT_CLUSTER_NUMBER].is = "fat"
    /\ \A c \in DirectoriesOn(d) : d[c].is = "table"
    /\ \A p \in EntriesOn(d) :
           /\ \A q \in EntriesOn(d) : Head0(d, q) = Head0(d, p) => q = p
           /\ EntryOn(d, p).kind = "dir" => p[1] = ROOT_CLUSTER_NUMBER

(* The clusters of the chain of h hold n bytes. *)
Covers(map, h, n) ==
    \A i \in 0..ClusterCount : i * ClusterSize < n => Walk(map, h)[i] \in Cluster

SizesCovered(d) == \A p \in EntriesOn(d) : Covers(MapOf(d), Head0(d, p), EntryOn(d, p).filesize)

Sound(d, l) == TablesSound(d) /\ LinksSound(MapOf(d), Heads(d), l) /\ SizesCovered(d)

-----------------------------------------------------------------------------
(* The tree a disk shows: TreeOnDisk, for a disk d.                        *)

HeadsDiffer(d) == \A p, q \in EntriesOn(d) : Head0(d, p) = Head0(d, q) => p = q

SlotOf(d, c) ==
    IF c = ROOT_CLUSTER_NUMBER THEN 0
    ELSE CHOOSE s \in Slot : LET e == d[ROOT_CLUSTER_NUMBER].entry[s]
                             IN  e # NoEntry /\ e.cluster = c

PlaceOn(d, p) == <<SlotOf(d, p[1]), p[2]>>

Shown(e) == [kind |-> e.kind, name |-> e.name, size |-> e.filesize]

TreeOn(d) == [place \in {PlaceOn(d, p) : p \in EntriesOn(d)} |->
                 Shown(EntryOn(d, CHOOSE p \in EntriesOn(d) : PlaceOn(d, p) = place))]

(* The operations of FileTree, from a tree t to a tree u. *)
Makes(t, u, p, kind, name) ==
    /\ p \notin DOMAIN t
    /\ p[1] = 0 \/ (<<0, p[1]>> \in DOMAIN t /\ t[<<0, p[1]>>].kind = "dir")
    /\ kind = "dir" => p[1] = 0
    /\ u = [q \in DOMAIN t \cup {p} |->
               IF q = p THEN [kind |-> kind, name |-> name, size |-> 0] ELSE t[q]]

Removes(t, u, p) ==
    /\ p \in DOMAIN t
    /\ t[p].kind = "dir" => \A q \in DOMAIN t : q[1] # p[2]
    /\ u = [q \in DOMAIN t \ {p} |-> t[q]]

Resizes(t, u, p, size) ==
    /\ p \in DOMAIN t
    /\ t[p].kind = "file"
    /\ u = [t EXCEPT ![p].size = size]

TreeStep(d, e) ==
    LET t == TreeOn(d)
        u == TreeOn(e)
    IN  \/ u = t
        \/ \E p \in (0..SlotCount) \X Slot :
               \/ \E kind \in {"file", "dir"}, name \in Name : Makes(t, u, p, kind, name)
               \/ Removes(t, u, p)
               \/ \E size \in 0..MaxSize : Resizes(t, u, p, size)

(* What every disk there is keeps, also in the middle of mkgeneral.  A     *)
(* table that no directory has is that of a deleted one, which was empty.  *)
Tidy(d) ==
    /\ HeadsDiffer(d)
    /\ d[BOOT_SECTOR].is # "signature" => d[ROOT_CLUSTER_NUMBER].is # "table"
    /\ \A c \in Cluster \ DirectoriesOn(d) :
           d[c].is = "table" => \A s \in Slot : d[c].entry[s] = NoEntry

(* What one write does to a disk that keeps it. *)
Follows(d, e) == Tidy(e) /\ TreeStep(d, e)

-----------------------------------------------------------------------------
(* The inductive invariant.                                                *)

Apply(d, w) == [d EXCEPT ![w.cluster] = w.content]

(* No operation writes more than three times. *)
AfterOf(d, ws, k) == CASE k = 0 -> d
                       [] k = 1 -> Apply(d, ws[1])
                       [] k = 2 -> Apply(Apply(d, ws[1]), ws[2])
                       [] k = 3 -> Apply(Apply(Apply(d, ws[1]), ws[2]), ws[3])

After(k) == AfterOf(disk, todo, k)

Final == After(Len(todo))

LostAfter(k) == IF op.kind = "delete" /\ Len(todo) - k = 1 THEN lost \cup op.freed ELSE lost

DisksTidy == /\ Tidy(disk)
             /\ \A k \in 1..Len(todo) : Follows(After(k - 1), After(k))

Restartable == {"idle", "delete", "write", "update"}

DisksSound == \A k \in 0..Len(todo) :
                  k = Len(todo) \/ op.kind \in Restartable => Sound(After(k), LostAfter(k))

EntryOf(h) == <<handle[h].directory_cluster, handle[h].directory_index>>

(* c is the cluster of the byte before position n, or the head. *)
IsBuffer(map, h, n, c) ==
    /\ Owns(map, h, c)
    /\ n = 0 => c = h
    /\ n > 0 => \E i \in 0..ClusterCount : /\ i * ClusterSize < n /\ n <= (i + 1) * ClusterSize
                                          /\ c = Walk(map, h)[i]

(* c is the cluster that begins at position n or behind it, if n has not   *)
(* come to the last of the clusters that hold end bytes.                   *)
IsAhead(map, h, n, end, c) ==
    \A i \in 0..ClusterCount :
        (i - 1) * ClusterSize < n /\ n <= i * ClusterSize /\ i * ClusterSize < end
            => c = Walk(map, h)[i]

(* The chain of h in map is the same in m, where it may go on. *)
Keeps(map, m, h) ==
    /\ \A i \in 0..ClusterCount :
           Walk(map, h)[i] \in Cluster => Walk(m, h)[i] = Walk(map, h)[i]
    /\ \A c : Owns(map, h, c) => Owns(m, h, c)

(* A descriptor v with the file that begins in cluster h. *)
PositionOK(map, h, v) ==
    /\ v.mode # "corrupted"
    /\ Covers(map, h, v.progress_end)
    /\ v.mode = "new" => v.current_cluster = h /\ v.progress_pointer = 0
    /\ v.mode = "write" => IsBuffer(map, h, v.progress_pointer, v.current_cluster)
    /\ v.mode = "read" =>
           IsAhead(map, h, v.progress_pointer, v.progress_end, v.current_cluster)

HandleOK(h) ==
    handle[h] # Closed =>
        /\ EntryOf(h) \in EntriesOn(Final)
        /\ EntryOn(Final, EntryOf(h)).kind = "file"
        /\ PositionOK(fat, Head0(Final, EntryOf(h)), handle[h])

PowerOff ==
    /\ op = Idle
    /\ todo = <<>>
    /\ \A h \in Handle : handle[h] = Closed
    /\ disk[BOOT_SECTOR].is = "signature" => Sound(disk, lost)
    /\ disk[FAT_CLUSTER_NUMBER].is = "fat" => disk[BOOT_SECTOR].is = "signature"

PowerOn ==
    /\ DisksSound
    /\ fat = MapOf(Final)
    /\ \A h \in Handle : HandleOK(h)
    /\ op.kind = "write" => /\ handle[op.handle].mode = "write"
                            /\ handle[op.handle].progress_pointer + op.left <= MaxSize
    /\ op.kind # "write" => (op = Idle <=> todo = <<>>)

HandleType == [mode : {"new", "read", "write", "failed", "corrupted"},
               current_cluster : 0..(ClusterCount + 1),
               progress_pointer : 0..MaxSize,
               progress_end : 0..MaxSize,
               directory_cluster : Cluster,
               directory_index : Slot]

DiskWrite == [cluster : Cluster, content : Content]

OpType == {Idle} \cup [kind : {"format", "mk", "update"}]
                 \cup [kind : {"delete"}, freed : SUBSET Cluster]
                 \cup [kind : {"write"}, handle : Handle, left : Nat]

TypeOK ==
    /\ power \in {"on", "off"}
    /\ disk \in [Cluster -> Content]
    /\ fat \in MapType
    /\ handle \in [Handle -> HandleType \cup {Closed}]
    /\ op \in OpType
    /\ todo \in Seq(DiskWrite) /\ Len(todo) <= 3
    /\ lost \subseteq Cluster

DiskInv ==
    /\ TypeOK
    /\ DisksTidy
    /\ power = "off" => PowerOff
    /\ power = "on" => PowerOn

-----------------------------------------------------------------------------
(* Chains.                                                                 *)

Follow(map, v) == IF v \in Cluster THEN map[v] ELSE v

(* Walk is what its recursive definition says. *)
LEMMA WalkDef ==
    ASSUME NEW map, NEW c
    PROVE  Walk(map, c) = [n \in 0..ClusterCount |->
                              IF n = 0 THEN c ELSE Follow(map, Walk(map, c)[n - 1])]
  <1> DEFINE Body(f, n) == IF n = 0 THEN c ELSE Follow(map, f[n - 1])
             IsWalk(f, k) == f = [n \in 0..k |-> Body(f, n)]
             S == {k \in Nat : \E f : IsWalk(f, k)}
  <1>1. 0 \in S
    <2>1. IsWalk([n \in 0..0 |-> c], 0)
      OBVIOUS
    <2> QED BY <2>1
  <1>2. ASSUME NEW k \in Nat, k \in S
        PROVE  k + 1 \in S
    <2>1. PICK f : IsWalk(f, k)
      BY <1>2
    <2> DEFINE g == [n \in 0..(k + 1) |-> Body(f, n)]
    <2>2. \A n \in 0..k : g[n] = f[n]
      BY <2>1
    <2>3. ASSUME NEW n \in 0..(k + 1)
          PROVE  Body(g, n) = Body(f, n)
      <3>1. n # 0 => n - 1 \in 0..k
        OBVIOUS
      <3> HIDE DEF g
      <3> QED BY <2>2, <3>1
    <2>4. IsWalk(g, k + 1)
      <3> HIDE DEF Body
      <3> QED BY <2>3
    <2>5. k + 1 \in Nat
      OBVIOUS
    <2> HIDE DEF IsWalk
    <2> QED BY <2>4, <2>5
  <1>3. ClusterCount \in S
    <2> HIDE DEF S
    <2>1. Nat \subseteq S
      BY <1>1, <1>2, SetInduction
    <2> QED BY <2>1, Fat32Assumption
  <1>4. PICK f : IsWalk(f, ClusterCount)
    BY <1>3
  <1>5. Walk(map, c) = CHOOSE g : IsWalk(g, ClusterCount)
    BY DEF Walk, Follow
  <1>6. IsWalk(Walk(map, c), ClusterCount)
    <2> HIDE DEF IsWalk
    <2> QED BY <1>4, <1>5
  <1> QED BY <1>6

LEMMA ChainFacts ==
    ASSUME NEW map \in MapType, NEW h \in Cluster
    PROVE  /\ Chain(map, h) \subseteq Cluster
           /\ h \in Chain(map, h)
           /\ \A c \in Chain(map, h) : c = h \/ \E e \in Chain(map, h) : map[e] = c
           /\ \A c \in Chain(map, h) : Owns(map, h, c)
           /\ EndsInEOF(map, h) => IsClosed(map, Chain(map, h))
  <1> DEFINE W == Walk(map, h)
  <1>1. /\ W[0] = h
        /\ \A n \in 0..ClusterCount : n # 0 => /\ n - 1 \in 0..ClusterCount
                                               /\ W[n] = Follow(map, W[n - 1])
    BY WalkDef, Fat32Assumption
  <1>2. \A c : c \in Chain(map, h) <=> c \in Cluster /\ \E n \in 0..ClusterCount : c = W[n]
    BY DEF Chain
  <1> HIDE DEF W
  <1>3. h \in Chain(map, h)
    BY <1>1, <1>2, Fat32Assumption
  <1>4. ASSUME NEW c \in Chain(map, h)
        PROVE  c = h \/ \E e \in Chain(map, h) : map[e] = c
    <2>1. PICK n \in 0..ClusterCount : c = W[n]
      BY <1>2
    <2>2. CASE n = 0
      BY <1>1, <2>1, <2>2
    <2>3. CASE n # 0
      <3>1. n - 1 \in 0..ClusterCount /\ c = Follow(map, W[n - 1])
        BY <1>1, <2>1, <2>3
      <3>2. W[n - 1] \in Cluster /\ map[W[n - 1]] = c
        BY <1>2, <3>1 DEF Follow
      <3> QED BY <1>2, <3>1, <3>2
    <2> QED BY <2>2, <2>3
  <1>5. ASSUME NEW c \in Chain(map, h), NEW S \in SUBSET Cluster, h \in S, IsClosed(map, S)
        PROVE  c \in S
    <2> DEFINE T == {n \in Nat : n <= ClusterCount /\ W[n] \in Cluster => W[n] \in S}
    <2>1. 0 \in T
      BY <1>1, <1>5
    <2>2. ASSUME NEW n \in Nat, n \in T
          PROVE  n + 1 \in T
      <3> SUFFICES ASSUME n + 1 <= ClusterCount, W[n + 1] \in Cluster
                   PROVE  W[n + 1] \in S
        OBVIOUS
      <3>1. W[n + 1] = Follow(map, W[n])
        BY <1>1, Fat32Assumption
      <3>2. W[n] \in Cluster
        BY <3>1 DEF Follow
      <3>3. W[n] \in S
        BY <2>2, <3>2, Fat32Assumption
      <3> QED BY <1>5, <3>1, <3>2, <3>3 DEF Follow, IsClosed
    <2>3. Nat \subseteq T
      <3> HIDE DEF T
      <3> QED BY <2>1, <2>2, SetInduction
    <2>4. PICK n \in 0..ClusterCount : c = W[n]
      BY <1>2
    <2> QED BY <1>2, <2>3, <2>4
  <1>6. ASSUME EndsInEOF(map, h), NEW c \in Chain(map, h), map[c] \in Cluster
        PROVE  map[c] \in Chain(map, h)
    <2>1. PICK n \in 0..ClusterCount : c = W[n]
      BY <1>2
    <2>2. W[ClusterCount] = ClusterCount
      BY <1>6 DEF EndsInEOF, W, FAT32_FAT_END_OF_FILE
    <2>3. n # ClusterCount
      BY <1>2, <2>1, <2>2, Fat32Assumption DEF Cluster
    <2>4. n + 1 \in 0..ClusterCount /\ W[n + 1] = Follow(map, W[n])
      BY <1>1, <2>3, Fat32Assumption
    <2> QED BY <1>2, <1>6, <2>1, <2>4 DEF Follow
  <1> QED BY <1>2, <1>3, <1>4, <1>5, <1>6 DEF Owns, IsClosed

(* The walk, step by step. *)
LEMMA WalkSteps ==
    ASSUME NEW map, NEW h
    PROVE  /\ Walk(map, h)[0] = h
           /\ \A n \in Nat : n + 1 <= ClusterCount =>
                  Walk(map, h)[n + 1] = Follow(map, Walk(map, h)[n])
           /\ Walk(map, h) = [n \in 0..ClusterCount |-> Walk(map, h)[n]]
  <1> DEFINE W == Walk(map, h)
  <1>1. W = [n \in 0..ClusterCount |-> IF n = 0 THEN h ELSE Follow(map, W[n - 1])]
    BY WalkDef
  <1> HIDE DEF W
  <1>2. ASSUME NEW n \in Nat, n + 1 <= ClusterCount
        PROVE  W[n + 1] = Follow(map, W[n])
    <2>1. n + 1 \in 0..ClusterCount /\ n + 1 # 0 /\ (n + 1) - 1 = n
      BY <1>2, Fat32Assumption
    <2> QED BY <1>1, <2>1
  <1>3. W[0] = h
    BY <1>1, Fat32Assumption
  <1>4. W = [n \in 0..ClusterCount |-> W[n]]
    BY <1>1
  <1> QED BY <1>2, <1>3, <1>4 DEF W

(* In a sound table a walk that begins where nothing leads to does not     *)
(* come to a cluster twice.                                                *)
LEMMA WalkOnce ==
    ASSUME NEW map \in MapType, IsLinked(map), NEW h \in Used(map),
           \A c \in Used(map) : map[c] # h,
           NEW m \in 0..ClusterCount, \A n \in 0..m : Walk(map, h)[n] \in Used(map)
    PROVE  \A x, y \in 0..m : Walk(map, h)[x] = Walk(map, h)[y] => x = y
  <1> DEFINE W == Walk(map, h)
  <1>1. /\ W[0] = h
        /\ \A n \in Nat : n + 1 <= ClusterCount => W[n + 1] = Follow(map, W[n])
        /\ \A n \in 0..m : W[n] \in Used(map)
    BY WalkSteps
  <1> HIDE DEF W
  <1>2. Used(map) \subseteq Cluster /\ Cluster \subseteq Nat
    BY Fat32Assumption DEF Used, Cluster
  <1> SUFFICES ASSUME NEW x \in 0..m, NEW y \in 0..m, x # y, W[x] = W[y]
               PROVE  FALSE
    BY DEF W
  <1> DEFINE D == {i \in Nat : \E j \in 0..m : i < j /\ W[i] = W[j]}
  <1>6. D # {}
    <2>1. x \in Nat /\ y \in Nat /\ (x < y \/ y < x)
      OBVIOUS
    <2> QED BY <2>1
  <1>7. PICK i \in D : \A k \in D : i <= k
    <2>1. D \in SUBSET Nat
      OBVIOUS
    <2> HIDE DEF D
    <2> QED BY <1>6, <2>1, SmallestElement
  <1>8. PICK j \in 0..m : i < j /\ W[i] = W[j]
    BY <1>7
  <1>9. /\ i \in Nat /\ j - 1 \in Nat /\ j - 1 \in 0..m
        /\ W[j] = map[W[j - 1]] /\ W[j - 1] \in Used(map)
    <2>1. j - 1 \in Nat /\ (j - 1) + 1 = j /\ j <= ClusterCount /\ j - 1 \in 0..m
      BY <1>7, <1>8, Fat32Assumption
    <2>2. W[j] = Follow(map, W[j - 1])
      BY <1>1, <2>1
    <2> QED BY <1>1, <1>2, <1>7, <2>1, <2>2 DEF Follow
  <1>10. CASE i = 0
    BY <1>1, <1>8, <1>9, <1>10
  <1>11. CASE i # 0
    <2>1. /\ i - 1 \in Nat /\ (i - 1) + 1 = i /\ i <= ClusterCount
          /\ i \in 0..m /\ i - 1 \in 0..m
      BY <1>8, <1>9, <1>11, Fat32Assumption
    <2>2. W[i] = map[W[i - 1]] /\ W[i - 1] \in Used(map)
      BY <1>1, <1>2, <2>1 DEF Follow
    <2>3. W[i] \in Cluster
      BY <1>1, <1>2, <2>1
    <2>4. W[i - 1] = W[j - 1]
      BY <1>8, <1>9, <2>2, <2>3 DEF IsLinked
    <2>5. i - 1 \in D
      BY <1>8, <1>9, <2>1, <2>4
    <2> QED BY <1>7, <2>1, <2>5
  <1> QED BY <1>10, <1>11

(* In a sound table a chain that nothing leads to the head of ends. *)
LEMMA ChainEnds ==
    ASSUME NEW map \in MapType, IsLinked(map), NEW h \in Used(map),
           \A c \in Used(map) : map[c] # h
    PROVE  EndsInEOF(map, h)
  <1> DEFINE W == Walk(map, h)
             EOF == FAT32_FAT_END_OF_FILE
  <1>1. /\ W[0] = h
        /\ \A n \in Nat : n + 1 <= ClusterCount => W[n + 1] = Follow(map, W[n])
        /\ W = [n \in 0..ClusterCount |-> W[n]]
    BY WalkSteps
  <1> HIDE DEF W
  <1>2. Used(map) \subseteq Cluster /\ EOF \notin Cluster /\ Cluster \subseteq Nat
    BY Fat32Assumption DEF Used, Cluster, FAT32_FAT_END_OF_FILE
  <1> SUFFICES ASSUME W[ClusterCount] # EOF
               PROVE  FALSE
    BY DEF EndsInEOF, W
  <1>3. \A n \in 0..ClusterCount : W[n] \in Used(map) \cup {EOF}
    <2> DEFINE T == {n \in Nat : n <= ClusterCount => W[n] \in Used(map) \cup {EOF}}
    <2>1. 0 \in T
      BY <1>1
    <2>2. ASSUME NEW n \in Nat, n \in T
          PROVE  n + 1 \in T
      <3> SUFFICES ASSUME n + 1 <= ClusterCount
                   PROVE  W[n + 1] \in Used(map) \cup {EOF}
        OBVIOUS
      <3>1. W[n] \in Used(map) \cup {EOF}
        BY <2>2, Fat32Assumption
      <3> QED BY <1>1, <1>2, <3>1 DEF Follow, IsLinked
    <2>3. Nat \subseteq T
      <3> HIDE DEF T
      <3> QED BY <2>1, <2>2, SetInduction
    <2> QED BY <2>3
  <1>4. \A n \in 0..ClusterCount : W[n] \in Used(map)
    <2> DEFINE T == {m \in Nat : m <= ClusterCount => W[ClusterCount - m] # EOF}
    <2>1. 0 \in T
      BY Fat32Assumption
    <2>2. ASSUME NEW m \in Nat, m \in T
          PROVE  m + 1 \in T
      <3> SUFFICES ASSUME m + 1 <= ClusterCount, W[ClusterCount - (m + 1)] = EOF
                   PROVE  FALSE
        OBVIOUS
      <3>1. /\ ClusterCount - (m + 1) \in Nat
            /\ (ClusterCount - (m + 1)) + 1 = ClusterCount - m
            /\ m <= ClusterCount
            /\ ClusterCount - m <= ClusterCount
        BY Fat32Assumption
      <3>2. W[ClusterCount - m] = Follow(map, EOF)
        BY <1>1, <3>1
      <3> QED BY <1>2, <2>2, <3>1, <3>2 DEF Follow
    <2>3. Nat \subseteq T
      <3> HIDE DEF T
      <3> QED BY <2>1, <2>2, SetInduction
    <2>4. ASSUME NEW n \in 0..ClusterCount
          PROVE  W[n] # EOF
      <3>1. ClusterCount - n \in Nat /\ ClusterCount - n <= ClusterCount
            /\ ClusterCount - (ClusterCount - n) = n
        BY Fat32Assumption
      <3> QED BY <2>3, <3>1
    <2> QED BY <1>3, <2>4
  <1>5. PICK x \in 0..ClusterCount, y \in 0..ClusterCount : x # y /\ W[x] = W[y]
    <2> DEFINE P == 0..ClusterCount
    <2>1. IsFiniteSet(P) /\ Cardinality(P) = ClusterCount + 1
      BY FS_Interval, Fat32Assumption
    <2>2. IsFiniteSet(Cluster) /\ Cardinality(Cluster) = ClusterCount
      BY FS_Interval, Fat32Assumption DEF Cluster
    <2>3. W \in [P -> Cluster]
      BY <1>1, <1>2, <1>4
    <2>4. Cardinality(Cluster) < Cardinality(P)
      BY <2>1, <2>2, Fat32Assumption
    <2> HIDE DEF P
    <2>5. \E a, b \in P : a # b /\ W[a] = W[b]
      BY <2>1, <2>2, <2>3, <2>4, FS_PigeonHole
    <2> QED BY <2>5 DEF P
  <1>6. ClusterCount \in 0..ClusterCount
    BY Fat32Assumption
  <1> QED BY <1>4, <1>5, <1>6, WalkOnce DEF W

(* The head of a chain is in it, and what follows a cluster that is. *)
LEMMA OwnsHead == ASSUME NEW map, NEW c PROVE Owns(map, c, c)
  BY DEF Owns

LEMMA OwnsNext ==
    ASSUME NEW map, NEW head, NEW c \in Cluster, Owns(map, head, c), map[c] \in Cluster
    PROVE  Owns(map, head, map[c])
  BY DEF Owns, IsClosed

(* A walk that has left the clusters does not come back. *)
LEMMA WalkStays ==
    ASSUME NEW map, NEW h, NEW j \in 0..ClusterCount, Walk(map, h)[j] \in Cluster,
           NEW i \in 0..j
    PROVE  Walk(map, h)[i] \in Cluster
  <1> DEFINE W == Walk(map, h)
             T == {k \in Nat : k <= j => W[j - k] \in Cluster}
  <1>1. \A n \in Nat : n + 1 <= ClusterCount => W[n + 1] = Follow(map, W[n])
    BY WalkSteps
  <1> HIDE DEF W
  <1>2. 0 \in T
    BY DEF W
  <1>3. ASSUME NEW k \in Nat, k \in T
        PROVE  k + 1 \in T
    <2> SUFFICES ASSUME k + 1 <= j
                 PROVE  W[j - (k + 1)] \in Cluster
      OBVIOUS
    <2>1. /\ j - (k + 1) \in Nat /\ (j - (k + 1)) + 1 = j - k
          /\ j - k <= ClusterCount /\ k <= j
      BY Fat32Assumption
    <2>2. W[j - k] = Follow(map, W[j - (k + 1)])
      BY <1>1, <2>1
    <2>3. W[j - k] \in Cluster
      BY <1>3, <2>1
    <2> QED BY <2>2, <2>3 DEF Follow
  <1>4. Nat \subseteq T
    <2> HIDE DEF T
    <2> QED BY <1>2, <1>3, SetInduction
  <1>5. j - i \in Nat /\ j - i <= j /\ j - (j - i) = i
    OBVIOUS
  <1> QED BY <1>4, <1>5 DEF W

(* A table that has all links of a chain keeps it. *)
LEMMA SameLinks ==
    ASSUME NEW map, NEW m, NEW h \in Cluster,
           \A c \in Cluster : Owns(map, h, c) /\ map[c] \in Cluster => m[c] = map[c],
           \A c : Owns(map, h, c) => Owns(m, h, c)
    PROVE  Keeps(map, m, h)
  <1> DEFINE W == Walk(map, h)
             V == Walk(m, h)
             T == {n \in Nat : n <= ClusterCount /\ W[n] \in Cluster
                                   => V[n] = W[n] /\ Owns(map, h, W[n])}
  <1>1. /\ W[0] = h /\ V[0] = h
        /\ \A n \in Nat : n + 1 <= ClusterCount => /\ W[n + 1] = Follow(map, W[n])
                                                   /\ V[n + 1] = Follow(m, V[n])
    BY WalkSteps
  <1> HIDE DEF W, V
  <1>2. 0 \in T
    BY <1>1, OwnsHead
  <1>3. ASSUME NEW n \in Nat, n \in T
        PROVE  n + 1 \in T
    <2> SUFFICES ASSUME n + 1 <= ClusterCount, W[n + 1] \in Cluster
                 PROVE  V[n + 1] = W[n + 1] /\ Owns(map, h, W[n + 1])
      OBVIOUS
    <2>1. W[n + 1] = Follow(map, W[n]) /\ V[n + 1] = Follow(m, V[n]) /\ n <= ClusterCount
      BY <1>1, Fat32Assumption
    <2>2. W[n] \in Cluster /\ map[W[n]] \in Cluster /\ W[n + 1] = map[W[n]]
      BY <2>1 DEF Follow
    <2>3. V[n] = W[n] /\ Owns(map, h, W[n])
      BY <1>3, <2>1, <2>2
    <2>4. m[W[n]] = map[W[n]]
      BY <2>2, <2>3
    <2> QED BY <2>1, <2>2, <2>3, <2>4, OwnsNext DEF Follow
  <1>4. Nat \subseteq T
    <2> HIDE DEF T
    <2> QED BY <1>2, <1>3, SetInduction
  <1> QED BY <1>4, Fat32Assumption DEF Keeps, W, V

LEMMA CoversNothing == ASSUME NEW map, NEW h PROVE Covers(map, h, 0)
  <1> SUFFICES ASSUME NEW i \in 0..ClusterCount, i * ClusterSize < 0
               PROVE  FALSE
    BY DEF Covers
  <1> QED BY Multiples, Fat32Assumption

LEMMA KeepsCovers ==
    ASSUME NEW map, NEW m, NEW h, Keeps(map, m, h), NEW n, Covers(map, h, n)
    PROVE  Covers(m, h, n)
  BY DEF Keeps, Covers

LEMMA KeepsBuffer ==
    ASSUME NEW map, NEW m, NEW h \in Cluster, Keeps(map, m, h), NEW n, NEW c,
           IsBuffer(map, h, n, c)
    PROVE  IsBuffer(m, h, n, c) /\ c \in Cluster
  <1>1. IsClosed(map, {x \in Cluster : TRUE})
    BY DEF IsClosed
  <1>2. c \in Cluster
    BY <1>1 DEF IsBuffer, Owns
  <1> QED BY <1>2 DEF IsBuffer, Keeps

(* A descriptor is still right. *)
LEMMA KeepsPosition ==
    ASSUME NEW map, NEW m, NEW h \in Cluster, Keeps(map, m, h), NEW v, PositionOK(map, h, v)
    PROVE  PositionOK(m, h, v)
  <1>1. Covers(m, h, v.progress_end)
    BY KeepsCovers DEF PositionOK
  <1>2. ASSUME v.mode = "write"
        PROVE  IsBuffer(m, h, v.progress_pointer, v.current_cluster)
    BY <1>2, KeepsBuffer DEF PositionOK
  <1>3. ASSUME v.mode = "read"
        PROVE  IsAhead(m, h, v.progress_pointer, v.progress_end, v.current_cluster)
    BY <1>3 DEF PositionOK, IsAhead, Keeps, Covers
  <1> QED BY <1>1, <1>2, <1>3 DEF PositionOK

(* What a descriptor reads from first. *)
LEMMA HeadAhead ==
    ASSUME NEW map, NEW h, NEW end
    PROVE  IsAhead(map, h, 0, end, h)
  <1> SUFFICES ASSUME NEW i \in 0..ClusterCount, (i - 1) * ClusterSize < 0
               PROVE  h = Walk(map, h)[i]
    BY DEF IsAhead
  <1>1. i = 0
    <2> SUFFICES ASSUME i - 1 \in Nat
                 PROVE  FALSE
      BY Fat32Assumption
    <2> QED BY Multiples, Fat32Assumption
  <1> QED BY <1>1, WalkSteps

(* Reading a byte: at a boundary the cluster is one of the file's. *)
LEMMA ReadAhead ==
    ASSUME NEW map, NEW h, Walk(map, h)[ClusterCount] \notin Cluster,
           NEW end \in Nat, Covers(map, h, end), NEW n \in Nat, n < end,
           NEW c, IsAhead(map, h, n, end, c)
    PROVE  /\ n % ClusterSize = 0 =>
                  /\ c \in Cluster
                  /\ IsAhead(map, h, n + 1, end, map[c])
           /\ n % ClusterSize # 0 => IsAhead(map, h, n + 1, end, c)
  <1> DEFINE W == Walk(map, h)
             s == ClusterSize
  <1>1. /\ s \in Nat \ {0} /\ ClusterCount \in Nat
        /\ \A i \in Nat : i + 1 <= ClusterCount => W[i + 1] = Follow(map, W[i])
        /\ W[ClusterCount] \notin Cluster
        /\ \A i \in 0..ClusterCount : i * s < end => W[i] \in Cluster
        /\ \A i \in 0..ClusterCount :
               (i - 1) * s < n /\ n <= i * s /\ i * s < end => c = W[i]
    BY WalkSteps, Fat32Assumption DEF Covers, IsAhead
  <1> SUFFICES /\ n % s = 0 =>
                      /\ c \in Cluster
                      /\ \A j \in 0..ClusterCount :
                             (j - 1) * s < n + 1 /\ n + 1 <= j * s => map[c] = W[j]
               /\ n % s # 0 =>
                      \A j \in 0..ClusterCount :
                          (j - 1) * s < n + 1 /\ n + 1 <= j * s /\ j * s < end => c = W[j]
    BY DEF IsAhead
  <1> HIDE DEF W, s
  <1>2. CASE n % s = 0
    <2>1. PICK i \in Nat : n = i * s
      BY <1>1, <1>2, Quotients
    <2>2. i < ClusterCount
      <3>1. ClusterCount * s >= end
        BY <1>1
      <3> QED BY <1>1, <2>1, <3>1, Multiples
    <2>3. i - 1 \in Int /\ (i - 1) * s < n
      <3>1. i \in Nat /\ s \in Nat \ {0}
        BY <1>1
      <3>2. (i - 1) * s = i * s - s
        BY <3>1
      <3> QED BY <2>1, <3>1, <3>2
    <2>4. W[i] \in Cluster /\ c = W[i]
      BY <1>1, <2>1, <2>2, <2>3
    <2>5. W[i + 1] = map[c]
      BY <1>1, <2>2, <2>4 DEF Follow
    <2>6. ASSUME NEW j \in 0..ClusterCount, (j - 1) * s < n + 1, n + 1 <= j * s
          PROVE  j = i + 1
      <3>1. i < j
        BY <1>1, <2>1, <2>6, Multiples
      <3>2. j - 1 \in Nat /\ (j - 1) * s <= i * s
        <4>1. j - 1 \in Nat
          BY <3>1
        <4>2. (j - 1) * s \in Nat
          BY <1>1, <4>1
        <4> QED BY <2>1, <2>6, <4>1, <4>2
      <3>3. j - 1 <= i
        BY <1>1, <3>2, Multiples
      <3> QED BY <3>1, <3>3
    <2> QED BY <1>2, <2>4, <2>5, <2>6
  <1>3. CASE n % s # 0
    <2> SUFFICES ASSUME NEW j \in 0..ClusterCount, (j - 1) * s < n + 1, n + 1 <= j * s,
                        j * s < end
                 PROVE  c = W[j]
      BY <1>3
    <2>1. j - 1 \in Nat
      <3>1. j # 0
        BY <1>1
      <3> QED BY <3>1
    <2>2. (j - 1) * s \in Nat /\ j * s \in Nat
      BY <1>1, <2>1
    <2>3. (j - 1) * s # n
      <3>1. ((j - 1) * s) % s = 0
        BY <1>1, <2>1, Multiples
      <3> QED BY <1>3, <3>1, Zenon
    <2> QED BY <1>1, <2>2, <2>3
  <1> QED BY <1>2, <1>3

(* The buffer of a descriptor that has written up to byte n... *)
LEMMA BufferCovers ==
    ASSUME NEW map, NEW h, NEW n \in Nat, NEW c \in Cluster, IsBuffer(map, h, n, c)
    PROVE  Covers(map, h, n)
  <1> SUFFICES ASSUME NEW j \in 0..ClusterCount, j * ClusterSize < n
               PROVE  Walk(map, h)[j] \in Cluster
    BY DEF Covers
  <1>1. n > 0
    BY Multiples, Fat32Assumption
  <1>2. PICK i \in 0..ClusterCount : n <= (i + 1) * ClusterSize /\ c = Walk(map, h)[i]
    BY <1>1 DEF IsBuffer
  <1>3. i + 1 \in Nat /\ j < i + 1
    BY <1>2, Multiples, Fat32Assumption
  <1> QED BY <1>2, <1>3, WalkStays

(* ... when it writes another, inside a cluster and... *)
LEMMA BufferStays ==
    ASSUME NEW map, NEW h, NEW n \in Nat, n % ClusterSize # 0, NEW c, IsBuffer(map, h, n, c)
    PROVE  IsBuffer(map, h, n + 1, c)
  <1>1. n > 0
    <2>1. 0 * ClusterSize = 0 /\ (0 * ClusterSize) % ClusterSize = 0
      BY Multiples, Fat32Assumption
    <2> QED BY <2>1
  <1>2. PICK i \in 0..ClusterCount : /\ i * ClusterSize < n /\ n <= (i + 1) * ClusterSize
                                     /\ c = Walk(map, h)[i]
    BY <1>1 DEF IsBuffer
  <1>3. n # (i + 1) * ClusterSize
    <2>1. i + 1 \in Nat
      OBVIOUS
    <2>2. ((i + 1) * ClusterSize) % ClusterSize = 0
      BY <2>1, Multiples, Fat32Assumption
    <2> QED BY <2>2, Zenon
  <1>4. i * ClusterSize \in Nat /\ (i + 1) * ClusterSize \in Nat
    BY Fat32Assumption
  <1>5. i * ClusterSize < n + 1 /\ n + 1 <= (i + 1) * ClusterSize /\ n + 1 # 0
    BY <1>2, <1>3, <1>4
  <1> QED BY <1>2, <1>5 DEF IsBuffer

(* ... at a boundary, where it goes to the next one. *)
LEMMA BufferMoves ==
    ASSUME NEW map, NEW h, Walk(map, h)[ClusterCount] \notin Cluster,
           NEW n \in Nat, n % ClusterSize = 0, NEW c \in Cluster, IsBuffer(map, h, n, c)
    PROVE  /\ n = 0 => IsBuffer(map, h, n + 1, c)
           /\ n # 0 /\ map[c] \in Cluster => IsBuffer(map, h, n + 1, map[c])
  <1> DEFINE W == Walk(map, h)
             s == ClusterSize
  <1>1. /\ s \in Nat \ {0} /\ ClusterCount \in Nat
        /\ W[0] = h
        /\ \A i \in Nat : i + 1 <= ClusterCount => W[i + 1] = Follow(map, W[i])
        /\ W[ClusterCount] \notin Cluster
    BY WalkSteps, Fat32Assumption
  <1>2. CASE n = 0
    <2>1. Owns(map, h, c) /\ c = h
      BY <1>2 DEF IsBuffer
    <2>2. 0 * s < n + 1 /\ n + 1 <= (0 + 1) * s /\ 0 \in 0..ClusterCount
      BY <1>1, <1>2
    <2>3. c = W[0]
      BY <1>1, <2>1
    <2>4. n + 1 # 0
      BY <1>2
    <2> QED BY <1>2, <2>1, <2>2, <2>3, <2>4 DEF IsBuffer
  <1>3. CASE n # 0 /\ map[c] \in Cluster
    <2>1. PICK i \in 0..ClusterCount : i * s < n /\ n <= (i + 1) * s /\ c = W[i]
      BY <1>3 DEF IsBuffer
    <2> HIDE DEF W, s
    <2>2. i < ClusterCount
      BY <1>1, <2>1
    <2>3. W[i + 1] = map[c]
      BY <1>1, <2>1, <2>2 DEF Follow
    <2>4. PICK q \in Nat : n = q * s
      BY <1>1, Quotients DEF s
    <2>5. q = i + 1
      <3>1. i < q
        BY <1>1, <2>1, <2>4, Multiples
      <3>2. i + 1 \in Nat /\ q <= i + 1
        BY <1>1, <2>1, <2>4, Multiples
      <3> QED BY <3>1, <3>2
    <2>6. (i + 1) * s < n + 1 /\ n + 1 <= ((i + 1) + 1) * s
      <3>1. i + 1 \in Nat /\ (i + 1) * s \in Nat /\ ((i + 1) + 1) * s = (i + 1) * s + s
        BY <1>1, Multiples
      <3> QED BY <1>1, <2>4, <2>5, <3>1
    <2>7. i + 1 \in 0..ClusterCount /\ n + 1 # 0
      BY <1>1, <2>2
    <2>8. Owns(map, h, map[c])
      BY <1>3, OwnsNext DEF IsBuffer
    <2> QED BY <1>3, <2>3, <2>6, <2>7, <2>8 DEF IsBuffer, W, s
  <1> QED BY <1>2, <1>3

(* What is used is closed, and so is the rest of it if nothing leads in. *)
LEMMA ClosedSets ==
    ASSUME NEW map, IsLinked(map), NEW C, IsSealed(map, C)
    PROVE  IsClosed(map, Used(map)) /\ IsClosed(map, Used(map) \ C)
  BY Fat32Assumption DEF IsLinked, IsSealed, IsClosed, FAT32_FAT_END_OF_FILE, Cluster

LEMMA ChainOfHead ==
    ASSUME NEW map, NEW H, NEW l, LinksSound(map, H, l), NEW h \in H
    PROVE  LET C == Chain(map, h)
           IN  /\ EndsInEOF(map, h)
               /\ C \subseteq Used(map)
               /\ h \in C
               /\ IsClosed(map, C)
               /\ IsSealed(map, C)
               /\ \A c : c \in C <=> c \in Cluster /\ Owns(map, h, c)
  <1> DEFINE C == Chain(map, h)
  <1>1. /\ map \in MapType /\ h \in Used(map) /\ h \in Cluster /\ Used(map) \subseteq Cluster
        /\ IsLinked(map) /\ \A c \in Used(map) : map[c] # h
    BY DEF LinksSound, IsMap, Used
  <1>2. EndsInEOF(map, h)
    BY <1>1, ChainEnds
  <1>3. /\ C \subseteq Cluster
        /\ h \in C
        /\ \A c \in C : c = h \/ \E e \in C : map[e] = c
        /\ \A c \in C : Owns(map, h, c)
        /\ IsClosed(map, C)
    BY <1>1, <1>2, ChainFacts
  <1> HIDE DEF C
  <1>4. C \subseteq Used(map)
    <2>1. IsClosed(map, Used(map))
      BY <1>1, ClosedSets DEF IsSealed
    <2> QED BY <1>1, <1>3, <2>1 DEF Owns
  <1>5. IsSealed(map, C)
    <2> SUFFICES ASSUME NEW c \in Used(map), map[c] \in C
                 PROVE  c \in C
      BY DEF IsSealed
    <2>1. PICK e \in C : map[e] = map[c]
      BY <1>1, <1>3
    <2> QED BY <1>1, <1>3, <1>4, <2>1 DEF IsLinked
  <1>6. ASSUME NEW c, c \in Cluster, Owns(map, h, c)
        PROVE  c \in C
    BY <1>3, <1>6 DEF Owns
  <1> QED BY <1>2, <1>3, <1>4, <1>5, <1>6 DEF C

(* No cluster is in two chains, or in a chain and lost. *)
LEMMA ChainsApart ==
    ASSUME NEW map, NEW H, NEW l, LinksSound(map, H, l), NEW h \in H
    PROVE  /\ \A g \in H \ {h} : Chain(map, h) \cap Chain(map, g) = {}
           /\ Chain(map, h) \cap l = {}
  <1>1. ASSUME NEW C, IsSealed(map, C), h \notin C
        PROVE  Chain(map, h) \cap C = {}
    <2>1. IsClosed(map, Used(map) \ C)
      BY <1>1, ClosedSets DEF LinksSound
    <2>2. h \in Used(map) \ C /\ Used(map) \ C \in SUBSET Cluster
      BY <1>1 DEF LinksSound, Used
    <2>3. \A c \in Chain(map, h) : Owns(map, h, c)
      BY ChainOfHead
    <2> QED BY <2>1, <2>2, <2>3 DEF Owns
  <1>2. ASSUME NEW g \in H \ {h}
        PROVE  Chain(map, h) \cap Chain(map, g) = {}
    <2>1. IsSealed(map, Chain(map, g)) /\ IsClosed(map, Chain(map, g))
      BY ChainOfHead
    <2>2. h \notin Chain(map, g)
      <3>1. IsSealed(map, {h}) /\ Used(map) \ {h} \in SUBSET Cluster /\ g \in Used(map) \ {h}
        BY DEF LinksSound, IsSealed, Used
      <3>2. IsClosed(map, Used(map) \ {h})
        BY <3>1, ClosedSets DEF LinksSound
      <3>3. h \in Chain(map, g) => Owns(map, g, h)
        BY ChainOfHead
      <3> QED BY <3>1, <3>2, <3>3 DEF Owns
    <2> QED BY <1>1, <2>1, <2>2
  <1>3. Chain(map, h) \cap l = {}
    BY <1>1 DEF LinksSound
  <1> QED BY <1>2, <1>3

(* A free cluster is behind the reserved ones, and nothing leads to it. *)
LEMMA FreeCluster ==
    ASSUME NEW map, IsMap(map), IsLinked(map), NEW c \in Cluster,
           map[c] = FAT32_FAT_EMPTY_ENTRY
    PROVE  /\ c > ROOT_CLUSTER_NUMBER
           /\ c \notin Used(map)
           /\ \A y \in Cluster : map[y] # c
  <1> USE Fat32Assumption
      DEF Cluster, FAT32_FAT_EMPTY_ENTRY, FAT32_FAT_END_OF_FILE, ROOT_CLUSTER_NUMBER,
          BOOT_SECTOR, FAT_CLUSTER_NUMBER, CLUSTER_0_VALUE
  <1>1. c > ROOT_CLUSTER_NUMBER
    BY DEF IsMap
  <1>2. c \notin Used(map)
    BY DEF Used
  <1>3. ASSUME NEW y \in Cluster
        PROVE  map[y] # c
    <2>1. CASE y \in Used(map)
      BY <1>2, <2>1 DEF IsLinked
    <2>2. CASE y \notin Used(map)
      BY <1>1, <2>2 DEF Used, IsMap
    <2> QED BY <2>1, <2>2
  <1> QED BY <1>1, <1>2, <1>3

(* write_vfs links a free cluster behind the last of a chain. *)
LEMMA AppendCluster ==
    ASSUME NEW map, NEW H, NEW l, LinksSound(map, H, l),
           NEW x \in Used(map) \ l, map[x] = FAT32_FAT_END_OF_FILE,
           NEW c \in Cluster, map[c] = FAT32_FAT_EMPTY_ENTRY
    PROVE  LET m == [map EXCEPT ![x] = c, ![c] = FAT32_FAT_END_OF_FILE]
           IN  /\ LinksSound(m, H, l)
               /\ \A h \in H : Keeps(map, m, h)
               /\ \A h \in H : Owns(map, h, x) => Owns(m, h, c)
  <1> DEFINE m == [map EXCEPT ![x] = c, ![c] = FAT32_FAT_END_OF_FILE]
  <1>1. /\ map \in MapType /\ x \in Cluster /\ IsLinked(map) /\ IsMap(map)
        /\ c > ROOT_CLUSTER_NUMBER /\ c \notin Used(map) /\ x # c
        /\ \A y \in Cluster : map[y] # c
    BY FreeCluster DEF LinksSound, IsMap, Used
  <1>2. /\ FAT32_FAT_END_OF_FILE \notin Cluster
        /\ FAT32_FAT_END_OF_FILE # FAT32_FAT_EMPTY_ENTRY
        /\ c # FAT32_FAT_EMPTY_ENTRY
        /\ x > ROOT_CLUSTER_NUMBER
        /\ \A y \in Used(map) : y \in Cluster /\ y > ROOT_CLUSTER_NUMBER
        /\ {BOOT_SECTOR, FAT_CLUSTER_NUMBER, ROOT_CLUSTER_NUMBER} \subseteq Cluster
        /\ \A y \in {BOOT_SECTOR, FAT_CLUSTER_NUMBER, ROOT_CLUSTER_NUMBER} : y # x /\ y # c
        /\ FAT32_FAT_END_OF_FILE \in 0..(ClusterCount + 1)
        /\ Cluster \subseteq 0..(ClusterCount + 1)
    BY <1>1, Fat32Assumption
    DEF Used, Cluster, FAT32_FAT_EMPTY_ENTRY, FAT32_FAT_END_OF_FILE, ROOT_CLUSTER_NUMBER,
        BOOT_SECTOR, FAT_CLUSTER_NUMBER
  <1>3. /\ m \in MapType
        /\ m[x] = c
        /\ m[c] = FAT32_FAT_END_OF_FILE
        /\ \A y \in Cluster : y # x /\ y # c => m[y] = map[y]
    BY <1>1, <1>2 DEF MapType
  <1> HIDE DEF m
  <1>4. Used(m) = Used(map) \cup {c}
    BY <1>1, <1>2, <1>3 DEF Used
  <1>5. IsMap(m)
    BY <1>1, <1>2, <1>3 DEF IsMap
  <1>6. IsLinked(m)
    <2>1. ASSUME NEW y \in Used(m)
          PROVE  m[y] = FAT32_FAT_END_OF_FILE \/ m[y] \in Used(m)
      BY <1>1, <1>2, <1>3, <1>4 DEF IsLinked
    <2>2. ASSUME NEW y \in Used(m), NEW z \in Used(m), m[y] = m[z], m[y] \in Cluster
          PROVE  y = z
      BY <1>1, <1>2, <1>3, <1>4, <2>2 DEF IsLinked
    <2> QED BY <2>1, <2>2 DEF IsLinked
  <1>7. /\ H \subseteq Used(map) /\ l \subseteq Used(map) /\ l \cap H = {} /\ IsSealed(map, l)
        /\ \A h \in H : \A y \in Used(map) : map[y] # h
    BY DEF LinksSound
  <1>8. \A h \in H : \A y \in Used(m) : m[y] # h
    BY <1>1, <1>2, <1>3, <1>4, <1>7
  <1>9. IsSealed(m, l)
    BY <1>1, <1>2, <1>3, <1>4, <1>7 DEF IsSealed
  <1>10. ASSUME NEW h \in H, NEW S \in SUBSET Cluster, h \in S, IsClosed(m, S)
         PROVE  /\ S \ {c} \in SUBSET Cluster /\ h \in S \ {c}
                /\ IsClosed(map, S \ {c})
                /\ x \in S => c \in S
    BY <1>1, <1>2, <1>3, <1>7, <1>10 DEF IsClosed
  <1>11. ASSUME NEW h \in H, NEW y, Owns(map, h, y)
         PROVE  Owns(m, h, y)
    BY <1>10, <1>11 DEF Owns
  <1>12. ASSUME NEW h \in H, Owns(map, h, x)
         PROVE  Owns(m, h, c)
    BY <1>10, <1>12 DEF Owns
  <1>13. ASSUME NEW y \in Used(m) \ l
         PROVE  \E h \in H : Owns(m, h, y)
    <2>1. CASE y = c
      <3>1. PICK h \in H : Owns(map, h, x)
        BY DEF LinksSound
      <3> QED BY <1>12, <2>1, <3>1
    <2>2. CASE y # c
      <3>1. PICK h \in H : Owns(map, h, y)
        BY <1>4, <2>2 DEF LinksSound
      <3> QED BY <1>11, <3>1
    <2> QED BY <2>1, <2>2
  <1>14. LinksSound(m, H, l)
    BY <1>4, <1>5, <1>6, <1>7, <1>8, <1>9, <1>13 DEF LinksSound
  <1>15. ASSUME NEW h \in H
         PROVE  Keeps(map, m, h)
    <2>1. \A y \in Cluster : Owns(map, h, y) => y \in Used(map)
      BY <1>1, <1>2, <1>7, ClosedSets DEF Owns
    <2>2. \A y \in Cluster : Owns(map, h, y) /\ map[y] \in Cluster => m[y] = map[y]
      BY <1>1, <1>2, <1>3, <2>1
    <2>3. h \in Cluster
      BY <1>2, <1>7
    <2> QED BY <1>11, <2>2, <2>3, SameLinks
  <1> QED BY <1>12, <1>14, <1>15 DEF m

(* mkgeneral: a free cluster becomes a chain of its own. *)
LEMMA NewHead ==
    ASSUME NEW map, NEW H, NEW l, LinksSound(map, H, l),
           NEW c \in Cluster, map[c] = FAT32_FAT_EMPTY_ENTRY
    PROVE  LET m == [map EXCEPT ![c] = FAT32_FAT_END_OF_FILE]
           IN  /\ LinksSound(m, H \cup {c}, l)
               /\ c \notin H
               /\ \A h \in H : Keeps(map, m, h)
  <1> DEFINE m == [map EXCEPT ![c] = FAT32_FAT_END_OF_FILE]
  <1>1. /\ map \in MapType /\ IsLinked(map) /\ IsMap(map)
        /\ c > ROOT_CLUSTER_NUMBER /\ c \notin Used(map)
        /\ \A y \in Cluster : map[y] # c
    BY FreeCluster DEF LinksSound, IsMap, Used
  <1>2. /\ FAT32_FAT_END_OF_FILE \notin Cluster
        /\ FAT32_FAT_END_OF_FILE # FAT32_FAT_EMPTY_ENTRY
        /\ c # FAT32_FAT_EMPTY_ENTRY
        /\ \A y \in Used(map) : y \in Cluster /\ y > ROOT_CLUSTER_NUMBER
        /\ {BOOT_SECTOR, FAT_CLUSTER_NUMBER, ROOT_CLUSTER_NUMBER} \subseteq Cluster
        /\ \A y \in {BOOT_SECTOR, FAT_CLUSTER_NUMBER, ROOT_CLUSTER_NUMBER} : y # c
        /\ FAT32_FAT_END_OF_FILE \in 0..(ClusterCount + 1)
    BY <1>1, Fat32Assumption
    DEF Used, Cluster, FAT32_FAT_EMPTY_ENTRY, FAT32_FAT_END_OF_FILE, ROOT_CLUSTER_NUMBER,
        BOOT_SECTOR, FAT_CLUSTER_NUMBER
  <1>3. /\ m \in MapType
        /\ m[c] = FAT32_FAT_END_OF_FILE
        /\ \A y \in Cluster : y # c => m[y] = map[y]
    BY <1>1, <1>2 DEF MapType
  <1> HIDE DEF m
  <1>4. Used(m) = Used(map) \cup {c}
    BY <1>1, <1>2, <1>3 DEF Used
  <1>5. IsMap(m)
    BY <1>1, <1>2, <1>3 DEF IsMap
  <1>6. IsLinked(m)
    BY <1>1, <1>2, <1>3, <1>4 DEF IsLinked
  <1>7. /\ H \subseteq Used(map) /\ l \subseteq Used(map) /\ l \cap H = {} /\ IsSealed(map, l)
        /\ \A h \in H : \A y \in Used(map) : map[y] # h
    BY DEF LinksSound
  <1>8. \A h \in H \cup {c} : \A y \in Used(m) : m[y] # h
    BY <1>1, <1>2, <1>3, <1>4, <1>7
  <1>9. IsSealed(m, l)
    BY <1>1, <1>2, <1>3, <1>4, <1>7 DEF IsSealed
  <1>10. ASSUME NEW h \in H, NEW S \in SUBSET Cluster, h \in S, IsClosed(m, S)
         PROVE  /\ S \ {c} \in SUBSET Cluster /\ h \in S \ {c}
                /\ IsClosed(map, S \ {c})
    BY <1>1, <1>2, <1>3, <1>7, <1>10 DEF IsClosed
  <1>11. ASSUME NEW h \in H, NEW y, Owns(map, h, y)
         PROVE  Owns(m, h, y)
    BY <1>10, <1>11 DEF Owns
  <1>12. ASSUME NEW y \in Used(m) \ l
         PROVE  \E h \in H \cup {c} : Owns(m, h, y)
    <2>1. CASE y = c
      BY <2>1 DEF Owns
    <2>2. CASE y # c
      <3>1. PICK h \in H : Owns(map, h, y)
        BY <1>4, <2>2 DEF LinksSound
      <3> QED BY <1>11, <3>1
    <2> QED BY <2>1, <2>2
  <1>13. LinksSound(m, H \cup {c}, l)
    BY <1>1, <1>4, <1>5, <1>6, <1>7, <1>8, <1>9, <1>12 DEF LinksSound
  <1>14. ASSUME NEW h \in H
         PROVE  Keeps(map, m, h)
    <2>1. IsClosed(map, Used(map))
      BY <1>1, <1>2 DEF IsLinked, IsClosed, Used
    <2>2. \A y \in Cluster : Owns(map, h, y) => m[y] = map[y]
      BY <1>1, <1>2, <1>3, <1>7, <2>1 DEF Owns
    <2>3. h \in Cluster
      BY <1>2, <1>7
    <2> QED BY <1>11, <2>2, <2>3, SameLinks
  <1> QED BY <1>1, <1>7, <1>13, <1>14 DEF m

(* delete_vfs first takes the head away: its chain is lost; ... *)
LEMMA LoseHead ==
    ASSUME NEW map, NEW H, NEW l, LinksSound(map, H, l), NEW h \in H
    PROVE  LinksSound(map, H \ {h}, l \cup Chain(map, h))
  <1> DEFINE C == Chain(map, h)
  <1>1. /\ C \subseteq Used(map) /\ IsSealed(map, C)
        /\ \A c : c \in C <=> c \in Cluster /\ Owns(map, h, c)
    BY ChainOfHead
  <1>2. \A g \in H \ {h} : C \cap Chain(map, g) = {} /\ g \in Chain(map, g)
    BY ChainsApart, ChainOfHead
  <1> HIDE DEF C
  <1>3. /\ (l \cup C) \cap (H \ {h}) = {}
        /\ IsSealed(map, l \cup C)
    BY <1>1, <1>2 DEF LinksSound, IsSealed
  <1>4. ASSUME NEW c \in Used(map) \ (l \cup C)
        PROVE  \E g \in H \ {h} : Owns(map, g, c)
    BY <1>1 DEF LinksSound, Used
  <1> QED BY <1>1, <1>3, <1>4 DEF LinksSound, C

(* ... then it frees the chain. *)
LEMMA FreeChain ==
    ASSUME NEW map, NEW H, NEW l, LinksSound(map, H, l), NEW h \in H
    PROVE  LET m == [c \in Cluster |-> IF c \in Chain(map, h)
                                       THEN FAT32_FAT_EMPTY_ENTRY ELSE map[c]]
           IN  /\ LinksSound(m, H \ {h}, l)
               /\ \A g \in H \ {h} : Keeps(map, m, g)
  <1> DEFINE C == Chain(map, h)
             m == [c \in Cluster |-> IF c \in C THEN FAT32_FAT_EMPTY_ENTRY ELSE map[c]]
  <1>1. /\ C \subseteq Used(map) /\ IsSealed(map, C) /\ IsClosed(map, C) /\ h \in C
        /\ \A c : c \in C <=> c \in Cluster /\ Owns(map, h, c)
    BY ChainOfHead
  <1>2. C \cap l = {} /\ \A g \in H \ {h} : g \notin C
    BY ChainsApart, ChainOfHead
  <1> HIDE DEF C
  <1>3. /\ map \in MapType /\ IsLinked(map) /\ IsMap(map)
        /\ FAT32_FAT_EMPTY_ENTRY \in 0..(ClusterCount + 1)
        /\ FAT32_FAT_EMPTY_ENTRY \in Cluster /\ FAT32_FAT_EMPTY_ENTRY \notin Used(map)
        /\ \A y \in {BOOT_SECTOR, FAT_CLUSTER_NUMBER, ROOT_CLUSTER_NUMBER} :
               y \in Cluster /\ y \notin Used(map)
    BY Fat32Assumption
    DEF LinksSound, IsMap, FAT32_FAT_EMPTY_ENTRY, Cluster, Used, ROOT_CLUSTER_NUMBER,
        BOOT_SECTOR, FAT_CLUSTER_NUMBER
  <1>4. /\ m \in MapType
        /\ \A c \in C : m[c] = FAT32_FAT_EMPTY_ENTRY
        /\ \A c \in Cluster \ C : m[c] = map[c]
    BY <1>1, <1>3 DEF MapType, Used
  <1> HIDE DEF m
  <1>5. Used(m) = Used(map) \ C
    BY <1>1, <1>4 DEF Used
  <1>6. IsMap(m)
    BY <1>1, <1>3, <1>4 DEF IsMap
  <1>7. IsLinked(m)
    BY <1>1, <1>3, <1>4, <1>5 DEF IsLinked, IsSealed, Used
  <1>8. /\ H \subseteq Used(map) /\ l \subseteq Used(map) /\ l \cap H = {} /\ IsSealed(map, l)
        /\ \A g \in H : \A y \in Used(map) : map[y] # g
        /\ Used(map) \subseteq Cluster
    BY DEF LinksSound, Used
  <1>9. ASSUME NEW g \in H \ {h}, NEW S \in SUBSET Cluster, g \in S, IsClosed(m, S), NEW y,
               Owns(map, g, y)
        PROVE  y \in S
    <2>1. IsClosed(map, S \cup C) /\ S \cup C \in SUBSET Cluster
      BY <1>1, <1>4, <1>8, <1>9 DEF IsClosed
    <2>2. IsClosed(map, Used(map) \ C) /\ Used(map) \ C \in SUBSET Cluster
      BY <1>1, <1>3, <1>8, ClosedSets
    <2>3. y \in S \cup C
      BY <1>9, <2>1 DEF Owns
    <2>4. y \in Used(map) \ C
      BY <1>2, <1>8, <1>9, <2>2 DEF Owns
    <2> QED BY <2>3, <2>4
  <1>10. \A g \in H \ {h} : \A y : Owns(map, g, y) => Owns(m, g, y)
    BY <1>9 DEF Owns
  <1>11. ASSUME NEW y \in Used(m) \ l
         PROVE  \E g \in H \ {h} : Owns(m, g, y)
    <2>1. PICK g \in H : Owns(map, g, y)
      BY <1>5 DEF LinksSound
    <2>2. g # h
      BY <1>1, <1>5, <1>8, <2>1
    <2> QED BY <1>10, <2>1, <2>2
  <1>12. LinksSound(m, H \ {h}, l)
    BY <1>2, <1>4, <1>5, <1>6, <1>7, <1>8, <1>11 DEF LinksSound, IsSealed
  <1>13. ASSUME NEW g \in H \ {h}
         PROVE  Keeps(map, m, g)
    <2>1. IsClosed(map, Used(map) \ C) /\ Used(map) \ C \in SUBSET Cluster
      BY <1>1, <1>3, <1>8, ClosedSets
    <2>2. \A y \in Cluster : Owns(map, g, y) => m[y] = map[y]
      BY <1>2, <1>4, <1>8, <2>1 DEF Owns
    <2>3. g \in Cluster
      BY <1>8
    <2> QED BY <1>10, <2>2, <2>3, SameLinks
  <1> QED BY <1>12, <1>13 DEF m, C

-----------------------------------------------------------------------------
(* Tables of a disk that an operation changes.                             *)

LEMMA Unfold ==
    ASSUME NEW d
    PROVE  /\ \A c : c \in DirectoriesOn(d) <=>
                  \/ c = ROOT_CLUSTER_NUMBER
                  \/ \E s \in Slot : /\ d[ROOT_CLUSTER_NUMBER].is = "table"
                                     /\ d[ROOT_CLUSTER_NUMBER].entry[s] # NoEntry
                                     /\ d[ROOT_CLUSTER_NUMBER].entry[s].kind = "dir"
                                     /\ c = d[ROOT_CLUSTER_NUMBER].entry[s].cluster
           /\ \A c, s : <<c, s>> \in EntriesOn(d) <=>
                  /\ c \in DirectoriesOn(d) /\ s \in Slot
                  /\ d[c].is = "table" /\ d[c].entry[s] # NoEntry
           /\ \A p \in EntriesOn(d) : p = <<p[1], p[2]>>
           /\ \A c, s : EntryOn(d, <<c, s>>) = d[c].entry[s]
           /\ \A c, s : Head0(d, <<c, s>>) = d[c].entry[s].cluster
  <1>1. ASSUME NEW c, c \in SubdirectoriesOn(d)
        PROVE  \E s \in Slot : /\ d[ROOT_CLUSTER_NUMBER].is = "table"
                               /\ d[ROOT_CLUSTER_NUMBER].entry[s] # NoEntry
                               /\ d[ROOT_CLUSTER_NUMBER].entry[s].kind = "dir"
                               /\ c = d[ROOT_CLUSTER_NUMBER].entry[s].cluster
    <2>1. PICK p \in {ROOT_CLUSTER_NUMBER} \X Slot :
              HasEntry(d, p) /\ EntryOn(d, p).kind = "dir" /\ c = EntryOn(d, p).cluster
      BY <1>1 DEF SubdirectoriesOn
    <2> QED BY <2>1 DEF HasEntry, EntryOn
  <1>2. ASSUME NEW s \in Slot, d[ROOT_CLUSTER_NUMBER].is = "table",
               d[ROOT_CLUSTER_NUMBER].entry[s] # NoEntry,
               d[ROOT_CLUSTER_NUMBER].entry[s].kind = "dir"
        PROVE  d[ROOT_CLUSTER_NUMBER].entry[s].cluster \in SubdirectoriesOn(d)
    <2> DEFINE p == <<ROOT_CLUSTER_NUMBER, s>>
    <2>1. p \in {ROOT_CLUSTER_NUMBER} \X Slot /\ p[1] = ROOT_CLUSTER_NUMBER /\ p[2] = s
      OBVIOUS
    <2> HIDE DEF p
    <2>2. HasEntry(d, p) /\ EntryOn(d, p).kind = "dir"
          /\ EntryOn(d, p).cluster = d[ROOT_CLUSTER_NUMBER].entry[s].cluster
      BY <1>2, <2>1 DEF HasEntry, EntryOn
    <2> QED BY <2>1, <2>2 DEF SubdirectoriesOn
  <1>3. \A c, s : <<c, s>> \in EntriesOn(d) <=>
            /\ c \in DirectoriesOn(d) /\ s \in Slot
            /\ d[c].is = "table" /\ d[c].entry[s] # NoEntry
    BY DEF EntriesOn, HasEntry, EntryOn
  <1>4. \A p \in EntriesOn(d) : p = <<p[1], p[2]>>
    BY DEF EntriesOn
  <1> QED BY <1>1, <1>2, <1>3, <1>4 DEF DirectoriesOn, EntryOn, Head0

LEMMA TableContent ==
    ASSUME NEW d \in [Cluster -> Content], NEW c \in Cluster, d[c].is = "table"
    PROVE  /\ d[c].entry \in [Slot -> EntryType \cup {NoEntry}]
           /\ d[c] = Table(d[c].entry)
  BY DEF Content, Data, Table

LEMMA EntryContent ==
    ASSUME NEW t \in [Slot -> EntryType \cup {NoEntry}], NEW s \in Slot, t[s] # NoEntry
    PROVE  t[s] \in EntryType
  OBVIOUS

(* Where directories and heads are on a sound disk. *)
LEMMA SoundTables ==
    ASSUME NEW d, NEW l, Sound(d, l)
    PROVE  /\ DirectoriesOn(d) \subseteq Cluster
           /\ BOOT_SECTOR \notin DirectoriesOn(d) /\ FAT_CLUSTER_NUMBER \notin DirectoriesOn(d)
           /\ DirectoriesOn(d) \ {ROOT_CLUSTER_NUMBER} \subseteq Heads(d)
           /\ \A p \in EntriesOn(d) : EntryOn(d, p) \in EntryType
           /\ Heads(d) \subseteq Used(MapOf(d))
           /\ Used(MapOf(d)) \subseteq Cluster
           /\ ROOT_CLUSTER_NUMBER \notin Used(MapOf(d))
  <1>1. /\ Heads(d) \subseteq Used(MapOf(d))
        /\ \A c \in Used(MapOf(d)) : c \in Cluster /\ c > ROOT_CLUSTER_NUMBER
        /\ ROOT_CLUSTER_NUMBER \in Cluster
        /\ ROOT_CLUSTER_NUMBER # BOOT_SECTOR /\ ROOT_CLUSTER_NUMBER # FAT_CLUSTER_NUMBER
        /\ ~(BOOT_SECTOR > ROOT_CLUSTER_NUMBER) /\ ~(FAT_CLUSTER_NUMBER > ROOT_CLUSTER_NUMBER)
        /\ ~(ROOT_CLUSTER_NUMBER > ROOT_CLUSTER_NUMBER)
    BY Fat32Assumption
    DEF Sound, LinksSound, Used, Cluster, ROOT_CLUSTER_NUMBER, BOOT_SECTOR, FAT_CLUSTER_NUMBER
  <1>2. DirectoriesOn(d) \ {ROOT_CLUSTER_NUMBER} \subseteq Heads(d)
    <2> SUFFICES ASSUME NEW c \in DirectoriesOn(d), c # ROOT_CLUSTER_NUMBER
                 PROVE  c \in Heads(d)
      OBVIOUS
    <2>1. PICK s \in Slot : /\ d[ROOT_CLUSTER_NUMBER].is = "table"
                            /\ d[ROOT_CLUSTER_NUMBER].entry[s] # NoEntry
                            /\ c = d[ROOT_CLUSTER_NUMBER].entry[s].cluster
      BY Unfold
    <2>2. ROOT_CLUSTER_NUMBER \in DirectoriesOn(d)
      BY Unfold
    <2>3. /\ <<ROOT_CLUSTER_NUMBER, s>> \in EntriesOn(d)
          /\ Head0(d, <<ROOT_CLUSTER_NUMBER, s>>) = c
      BY <2>1, <2>2, Unfold
    <2> QED BY <2>3 DEF Heads
  <1>3. \A p \in EntriesOn(d) : EntryOn(d, p) \in EntryType
    <2> SUFFICES ASSUME NEW p \in EntriesOn(d)
                 PROVE  EntryOn(d, p) \in EntryType
      OBVIOUS
    <2>1. /\ p[1] \in DirectoriesOn(d) /\ p[2] \in Slot
          /\ d[p[1]].is = "table" /\ d[p[1]].entry[p[2]] # NoEntry
      BY Unfold
    <2>2. p[1] \in Cluster
      BY <1>1, <1>2, <2>1
    <2>3. d[p[1]].entry \in [Slot -> EntryType \cup {NoEntry}]
      BY <2>1, <2>2, TableContent DEF Sound, TablesSound
    <2> QED BY <2>1, <2>3 DEF EntryOn
  <1> QED BY <1>1, <1>2, <1>3

SameEntry(a, b) == /\ a = NoEntry <=> b = NoEntry
                   /\ a # NoEntry => a.kind = b.kind /\ a.cluster = b.cluster

(* A disk whose directories show the same entries, of whatever sizes. *)
LEMMA SameTables ==
    ASSUME NEW d, NEW e, TablesSound(d), e \in [Cluster -> Content],
           e[BOOT_SECTOR].is = "signature", e[FAT_CLUSTER_NUMBER].is = "fat",
           \A c \in DirectoriesOn(d) :
               /\ e[c].is = "table"
               /\ \A s \in Slot : SameEntry(d[c].entry[s], e[c].entry[s])
    PROVE  /\ TablesSound(e)
           /\ DirectoriesOn(e) = DirectoriesOn(d)
           /\ EntriesOn(e) = EntriesOn(d)
           /\ \A p \in EntriesOn(d) : /\ Head0(e, p) = Head0(d, p)
                                      /\ EntryOn(e, p).kind = EntryOn(d, p).kind
           /\ Heads(e) = Heads(d)
  <1>1. ROOT_CLUSTER_NUMBER \in DirectoriesOn(d)
    BY Unfold
  <1>2. \A c \in DirectoriesOn(d) : d[c].is = "table"
    BY DEF TablesSound
  <1>3. DirectoriesOn(e) = DirectoriesOn(d)
    <2>1. ASSUME NEW c, c \in DirectoriesOn(e)
          PROVE  c \in DirectoriesOn(d)
      <3>1. CASE c # ROOT_CLUSTER_NUMBER
        <4>1. PICK s \in Slot : /\ e[ROOT_CLUSTER_NUMBER].entry[s] # NoEntry
                                /\ e[ROOT_CLUSTER_NUMBER].entry[s].kind = "dir"
                                /\ c = e[ROOT_CLUSTER_NUMBER].entry[s].cluster
          BY <2>1, <3>1, Unfold
        <4>2. SameEntry(d[ROOT_CLUSTER_NUMBER].entry[s], e[ROOT_CLUSTER_NUMBER].entry[s])
          BY <1>1
        <4> QED BY <1>1, <1>2, <4>1, <4>2, Unfold DEF SameEntry
      <3> QED BY <1>1, <3>1
    <2>2. ASSUME NEW c, c \in DirectoriesOn(d)
          PROVE  c \in DirectoriesOn(e)
      <3>1. CASE c # ROOT_CLUSTER_NUMBER
        <4>1. PICK s \in Slot : /\ d[ROOT_CLUSTER_NUMBER].entry[s] # NoEntry
                                /\ d[ROOT_CLUSTER_NUMBER].entry[s].kind = "dir"
                                /\ c = d[ROOT_CLUSTER_NUMBER].entry[s].cluster
          BY <2>2, <3>1, Unfold
        <4>2. SameEntry(d[ROOT_CLUSTER_NUMBER].entry[s], e[ROOT_CLUSTER_NUMBER].entry[s])
          BY <1>1
        <4> QED BY <1>1, <4>1, <4>2, Unfold DEF SameEntry
      <3> QED BY <3>1, Unfold
    <2> QED BY <2>1, <2>2
  <1>4. ASSUME NEW c, NEW s
        PROVE  <<c, s>> \in EntriesOn(e) <=> <<c, s>> \in EntriesOn(d)
    <2>1. <<c, s>> \in EntriesOn(e) <=> /\ c \in DirectoriesOn(d) /\ s \in Slot
                                        /\ e[c].is = "table" /\ e[c].entry[s] # NoEntry
      BY <1>3, Unfold
    <2>2. <<c, s>> \in EntriesOn(d) <=> /\ c \in DirectoriesOn(d) /\ s \in Slot
                                        /\ d[c].is = "table" /\ d[c].entry[s] # NoEntry
      BY Unfold
    <2> QED BY <1>2, <2>1, <2>2 DEF SameEntry
  <1>5. EntriesOn(e) = EntriesOn(d)
    <2>1. ASSUME NEW p, p \in EntriesOn(e)
          PROVE  p \in EntriesOn(d)
      BY <1>4, <2>1, Unfold
    <2>2. ASSUME NEW p, p \in EntriesOn(d)
          PROVE  p \in EntriesOn(e)
      BY <1>4, <2>2, Unfold
    <2> QED BY <2>1, <2>2
  <1>6. ASSUME NEW p \in EntriesOn(d)
        PROVE  /\ Head0(e, p) = Head0(d, p)
               /\ EntryOn(e, p).kind = EntryOn(d, p).kind
    <2>1. p[1] \in DirectoriesOn(d) /\ p[2] \in Slot /\ d[p[1]].entry[p[2]] # NoEntry
      BY Unfold
    <2> QED BY <2>1 DEF SameEntry, Head0, EntryOn
  <1>7. Heads(e) = Heads(d)
    BY <1>5, <1>6 DEF Heads
  <1>8. TablesSound(e)
    BY <1>3, <1>5, <1>6 DEF TablesSound
  <1> QED BY <1>3, <1>5, <1>6, <1>7, <1>8

(***************************************************************************)
(* A disk with one more entry.  If it is a directory's, its cluster holds  *)
(* an empty table or, as long as mkgeneral has not written it, something   *)
(* else.                                                                   *)
(***************************************************************************)
LEMMA OneMoreEntry ==
    ASSUME NEW d, NEW e, TablesSound(d), e \in [Cluster -> Content],
           e[BOOT_SECTOR].is = "signature", e[FAT_CLUSTER_NUMBER].is = "fat",
           NEW dir \in DirectoriesOn(d), NEW s \in Slot, d[dir].entry[s] = NoEntry,
           dir \in Cluster,
           NEW new \in EntryType, new.cluster \notin Heads(d), new.cluster \notin DirectoriesOn(d),
           new.kind = "dir" =>
               /\ dir = ROOT_CLUSTER_NUMBER
               /\ e[new.cluster].is = "table" =>
                      \A t \in Slot : e[new.cluster].entry[t] = NoEntry,
           e[dir] = Table([d[dir].entry EXCEPT ![s] = new]),
           \A c \in DirectoriesOn(d) \ {dir} : e[c] = d[c]
    PROVE  /\ (new.kind = "dir" => e[new.cluster].is = "table") => TablesSound(e)
           /\ HeadsDiffer(e)
           /\ DirectoriesOn(e) = DirectoriesOn(d)
                                    \cup (IF new.kind = "dir" THEN {new.cluster} ELSE {})
           /\ <<dir, s>> \notin EntriesOn(d)
           /\ EntriesOn(e) = EntriesOn(d) \cup {<<dir, s>>}
           /\ \A p \in EntriesOn(d) : EntryOn(e, p) = EntryOn(d, p)
           /\ EntryOn(e, <<dir, s>>) = new
           /\ Heads(e) = Heads(d) \cup {new.cluster}
  <1>1. /\ ROOT_CLUSTER_NUMBER \in DirectoriesOn(d)
        /\ \A c \in DirectoriesOn(d) : d[c].is = "table"
    BY Unfold DEF TablesSound
  <1>2. d[dir].entry \in [Slot -> EntryType \cup {NoEntry}]
    BY <1>1, TableContent DEF TablesSound
  <1>3. /\ new # NoEntry
        /\ new.kind = "dir" \/ new.kind = "file"
    BY DEF EntryType, NoEntry
  <1>4. /\ \A c \in DirectoriesOn(d) : e[c].is = "table"
        /\ e[dir].entry[s] = new
        /\ \A c \in DirectoriesOn(d), t \in Slot :
               c # dir \/ t # s => e[c].entry[t] = d[c].entry[t]
    BY <1>1, <1>2 DEF Table
  <1>5. DirectoriesOn(e) = DirectoriesOn(d) \cup (IF new.kind = "dir" THEN {new.cluster} ELSE {})
    <2> DEFINE R == ROOT_CLUSTER_NUMBER
    <2>1. \A c : c \in DirectoriesOn(d) <=>
              c = R \/ \E t \in Slot : /\ d[R].entry[t] # NoEntry
                                       /\ d[R].entry[t].kind = "dir"
                                       /\ c = d[R].entry[t].cluster
      BY <1>1, Unfold
    <2>2. \A c : c \in DirectoriesOn(e) <=>
              c = R \/ \E t \in Slot : /\ e[R].entry[t] # NoEntry
                                       /\ e[R].entry[t].kind = "dir"
                                       /\ c = e[R].entry[t].cluster
      BY <1>1, <1>4, Unfold
    <2> HIDE DEF R
    <2>3. R \in DirectoriesOn(d) /\ (new.kind = "dir" => dir = R)
      BY <1>1 DEF R
    <2>4. ASSUME NEW c, c \in DirectoriesOn(e)
          PROVE  c \in DirectoriesOn(d) \/ (new.kind = "dir" /\ c = new.cluster)
      <3>1. CASE c # R
        <4>1. PICK t \in Slot : /\ e[R].entry[t] # NoEntry
                                /\ e[R].entry[t].kind = "dir"
                                /\ c = e[R].entry[t].cluster
          BY <2>2, <2>4, <3>1
        <4>2. CASE R = dir /\ t = s
          BY <1>4, <4>1, <4>2
        <4>3. CASE ~(R = dir /\ t = s)
          <5>1. e[R].entry[t] = d[R].entry[t]
            BY <1>4, <2>3, <4>3
          <5> QED BY <2>1, <4>1, <5>1
        <4> QED BY <4>2, <4>3
      <3> QED BY <2>3, <3>1
    <2>5. ASSUME NEW c, c \in DirectoriesOn(d)
          PROVE  c \in DirectoriesOn(e)
      <3>1. CASE c # R
        <4>1. PICK t \in Slot : /\ d[R].entry[t] # NoEntry
                                /\ d[R].entry[t].kind = "dir"
                                /\ c = d[R].entry[t].cluster
          BY <2>1, <2>5, <3>1
        <4>2. ~(R = dir /\ t = s)
          BY <4>1
        <4>3. e[R].entry[t] = d[R].entry[t]
          BY <1>4, <2>3, <4>2
        <4> QED BY <2>2, <4>1, <4>3
      <3> QED BY <2>2, <3>1
    <2>6. new.kind = "dir" => new.cluster \in DirectoriesOn(e)
      <3>1. new.kind = "dir" => e[R].entry[s] = new
        BY <1>4, <2>3
      <3> QED BY <1>3, <2>2, <3>1
    <2> QED BY <2>4, <2>5, <2>6
  <1>6. ASSUME NEW c, NEW t
        PROVE  <<c, t>> \in EntriesOn(e)
                   <=> <<c, t>> \in EntriesOn(d) \/ (c = dir /\ t = s)
    <2>1. <<c, t>> \in EntriesOn(e) <=> /\ c \in DirectoriesOn(e) /\ t \in Slot
                                        /\ e[c].is = "table" /\ e[c].entry[t] # NoEntry
      BY Unfold
    <2>2. <<c, t>> \in EntriesOn(d) <=> /\ c \in DirectoriesOn(d) /\ t \in Slot
                                        /\ d[c].is = "table" /\ d[c].entry[t] # NoEntry
      BY Unfold
    <2>3. CASE c \in DirectoriesOn(d)
      BY <1>1, <1>3, <1>4, <1>5, <2>1, <2>2, <2>3
    <2>4. CASE c \notin DirectoriesOn(d)
      <3>1. c \in DirectoriesOn(e) /\ t \in Slot /\ e[c].is = "table" => e[c].entry[t] = NoEntry
        BY <1>5, <2>4
      <3> QED BY <2>1, <2>2, <2>4, <3>1
    <2> QED BY <2>3, <2>4
  <1>7. EntriesOn(e) = EntriesOn(d) \cup {<<dir, s>>}
    <2>1. ASSUME NEW p, p \in EntriesOn(e)
          PROVE  p \in EntriesOn(d) \cup {<<dir, s>>}
      BY <1>6, <2>1, Unfold
    <2>2. ASSUME NEW p, p \in EntriesOn(d) \cup {<<dir, s>>}
          PROVE  p \in EntriesOn(e)
      BY <1>6, <2>2, Unfold
    <2> QED BY <2>1, <2>2
  <1>8. ASSUME NEW p \in EntriesOn(d)
        PROVE  EntryOn(e, p) = EntryOn(d, p)
    <2>1. p[1] \in DirectoriesOn(d) /\ p[2] \in Slot /\ d[p[1]].entry[p[2]] # NoEntry
      BY Unfold
    <2> QED BY <1>4, <2>1 DEF EntryOn
  <1>9. EntryOn(e, <<dir, s>>) = new /\ Head0(e, <<dir, s>>) = new.cluster
    BY <1>4, Unfold
  <1>10. \A p \in EntriesOn(d) : Head0(e, p) = Head0(d, p)
    BY <1>8 DEF Head0
  <1>11. Heads(e) = Heads(d) \cup {new.cluster}
    BY <1>7, <1>9, <1>10 DEF Heads
  <1>12. (new.kind = "dir" => e[new.cluster].is = "table")
             => \A c \in DirectoriesOn(e) : e[c].is = "table"
    BY <1>4, <1>5
  <1>13. ASSUME NEW p \in EntriesOn(e)
         PROVE  /\ \A q \in EntriesOn(e) : Head0(e, q) = Head0(e, p) => q = p
                /\ EntryOn(e, p).kind = "dir" => p[1] = ROOT_CLUSTER_NUMBER
    <2>1. \A q \in EntriesOn(d) : Head0(d, q) \in Heads(d)
      BY DEF Heads
    <2> QED BY <1>7, <1>8, <1>9, <1>10, <2>1 DEF TablesSound
  <1>14. (new.kind = "dir" => e[new.cluster].is = "table") => TablesSound(e)
    BY <1>12, <1>13 DEF TablesSound
  <1>15. HeadsDiffer(e)
    BY <1>13 DEF HeadsDiffer
  <1>16. <<dir, s>> \notin EntriesOn(d)
    BY Unfold
  <1> QED BY <1>5, <1>7, <1>8, <1>9, <1>11, <1>14, <1>15, <1>16

(* A disk with one entry less; if it is a directory's, the directory had none. *)
LEMMA OneLessEntry ==
    ASSUME NEW d, NEW e, TablesSound(d), e \in [Cluster -> Content],
           e[BOOT_SECTOR].is = "signature", e[FAT_CLUSTER_NUMBER].is = "fat",
           NEW dir, NEW s, <<dir, s>> \in EntriesOn(d), dir \in Cluster,
           ROOT_CLUSTER_NUMBER \notin Heads(d),
           d[dir].entry[s].kind = "dir" =>
               \A q \in EntriesOn(d) : q[1] # d[dir].entry[s].cluster,
           e[dir] = Table([d[dir].entry EXCEPT ![s] = NoEntry]),
           \A c \in DirectoriesOn(d) \ {dir} : e[c] = d[c]
    PROVE  /\ TablesSound(e)
           /\ DirectoriesOn(e) = DirectoriesOn(d) \ (IF d[dir].entry[s].kind = "dir"
                                                     THEN {d[dir].entry[s].cluster} ELSE {})
           /\ EntriesOn(e) = EntriesOn(d) \ {<<dir, s>>}
           /\ \A p \in EntriesOn(e) : EntryOn(e, p) = EntryOn(d, p)
           /\ Heads(e) = Heads(d) \ {d[dir].entry[s].cluster}
  <1>1. /\ ROOT_CLUSTER_NUMBER \in DirectoriesOn(d)
        /\ \A c \in DirectoriesOn(d) : d[c].is = "table"
        /\ dir \in DirectoriesOn(d) /\ s \in Slot /\ d[dir].entry[s] # NoEntry
    BY Unfold DEF TablesSound
  <1>2. d[dir].entry \in [Slot -> EntryType \cup {NoEntry}]
    BY <1>1, TableContent DEF TablesSound
  <1> DEFINE old == d[dir].entry[s]
  <1>3. /\ \A c \in DirectoriesOn(d) : e[c].is = "table"
        /\ e[dir].entry[s] = NoEntry
        /\ \A c \in DirectoriesOn(d), t \in Slot :
               c # dir \/ t # s => e[c].entry[t] = d[c].entry[t]
    BY <1>1, <1>2 DEF Table
  <1>4. /\ old.kind = "dir" => dir = ROOT_CLUSTER_NUMBER
        /\ EntryOn(d, <<dir, s>>) = old /\ Head0(d, <<dir, s>>) = old.cluster
        /\ \A q \in EntriesOn(d) : Head0(d, q) = old.cluster => q = <<dir, s>>
        /\ old.cluster \in Heads(d)
    BY Unfold DEF TablesSound, Heads
  <1> HIDE DEF old
  <1>5. DirectoriesOn(e) = DirectoriesOn(d) \ (IF old.kind = "dir" THEN {old.cluster} ELSE {})
    <2> DEFINE R == ROOT_CLUSTER_NUMBER
    <2>1. \A c : c \in DirectoriesOn(d) <=>
              c = R \/ \E t \in Slot : /\ d[R].entry[t] # NoEntry
                                       /\ d[R].entry[t].kind = "dir"
                                       /\ c = d[R].entry[t].cluster
      BY <1>1, Unfold
    <2>2. \A c : c \in DirectoriesOn(e) <=>
              c = R \/ \E t \in Slot : /\ e[R].entry[t] # NoEntry
                                       /\ e[R].entry[t].kind = "dir"
                                       /\ c = e[R].entry[t].cluster
      BY <1>1, <1>3, Unfold
    <2>3. \A t \in Slot : d[R].entry[t] # NoEntry /\ d[R].entry[t].cluster = old.cluster
                              => dir = R /\ t = s
      <3>1. ASSUME NEW t \in Slot, d[R].entry[t] # NoEntry, d[R].entry[t].cluster = old.cluster
            PROVE  dir = R /\ t = s
        <4>1. <<R, t>> \in EntriesOn(d) /\ Head0(d, <<R, t>>) = old.cluster
          BY <1>1, <3>1, Unfold
        <4>2. <<R, t>> = <<dir, s>>
          BY <1>4, <4>1
        <4> QED BY <4>2
      <3> QED BY <3>1
    <2>4. R # old.cluster
      BY <1>4
    <2>5. R \in DirectoriesOn(d) /\ (old.kind = "dir" => dir = R)
      BY <1>1, <1>4
    <2> HIDE DEF R
    <2>6. ASSUME NEW c, c \in DirectoriesOn(e)
          PROVE  c \in DirectoriesOn(d) /\ ~(old.kind = "dir" /\ c = old.cluster)
      <3>1. CASE c = R
        BY <2>4, <2>5, <3>1
      <3>2. CASE c # R
        <4>1. PICK t \in Slot : /\ e[R].entry[t] # NoEntry
                                /\ e[R].entry[t].kind = "dir"
                                /\ c = e[R].entry[t].cluster
          BY <2>2, <2>6, <3>2
        <4>2. dir # R \/ t # s
          BY <1>3, <4>1
        <4>3. e[R].entry[t] = d[R].entry[t]
          BY <1>3, <2>5, <4>2
        <4> QED BY <2>1, <2>3, <2>5, <4>1, <4>2, <4>3
      <3> QED BY <3>1, <3>2
    <2>7. ASSUME NEW c, c \in DirectoriesOn(d), ~(old.kind = "dir" /\ c = old.cluster)
          PROVE  c \in DirectoriesOn(e)
      <3>1. CASE c = R
        BY <2>2, <3>1
      <3>2. CASE c # R
        <4>1. PICK t \in Slot : /\ d[R].entry[t] # NoEntry
                                /\ d[R].entry[t].kind = "dir"
                                /\ c = d[R].entry[t].cluster
          BY <2>1, <2>7, <3>2
        <4>2. dir # R \/ t # s
          BY <2>7, <4>1 DEF old
        <4>3. e[R].entry[t] = d[R].entry[t]
          BY <1>3, <2>5, <4>2
        <4> QED BY <2>2, <4>1, <4>3
      <3> QED BY <3>1, <3>2
    <2> QED BY <2>6, <2>7
  <1>6. ASSUME NEW c, NEW t
        PROVE  <<c, t>> \in EntriesOn(e)
                   <=> <<c, t>> \in EntriesOn(d) /\ ~(c = dir /\ t = s)
    <2>1. <<c, t>> \in EntriesOn(e) <=> /\ c \in DirectoriesOn(e) /\ t \in Slot
                                        /\ e[c].is = "table" /\ e[c].entry[t] # NoEntry
      BY Unfold
    <2>2. <<c, t>> \in EntriesOn(d) <=> /\ c \in DirectoriesOn(d) /\ t \in Slot
                                        /\ d[c].is = "table" /\ d[c].entry[t] # NoEntry
      BY Unfold
    <2>3. CASE old.kind = "dir" /\ c = old.cluster
      <3>1. \A q \in EntriesOn(d) : q[1] # c
        BY <2>3 DEF old
      <3>2. <<c, t>> \notin EntriesOn(d)
        BY <3>1
      <3> QED BY <1>5, <2>1, <2>3, <3>2
    <2>4. CASE ~(old.kind = "dir" /\ c = old.cluster)
      BY <1>1, <1>3, <1>5, <2>1, <2>2, <2>4
    <2> QED BY <2>3, <2>4
  <1>7. EntriesOn(e) = EntriesOn(d) \ {<<dir, s>>}
    <2>1. ASSUME NEW p, p \in EntriesOn(e)
          PROVE  p \in EntriesOn(d) \ {<<dir, s>>}
      BY <1>6, <2>1, Unfold
    <2>2. ASSUME NEW p, p \in EntriesOn(d) \ {<<dir, s>>}
          PROVE  p \in EntriesOn(e)
      BY <1>6, <2>2, Unfold
    <2> QED BY <2>1, <2>2
  <1>8. ASSUME NEW p \in EntriesOn(e)
        PROVE  EntryOn(e, p) = EntryOn(d, p)
    <2>1. p = <<p[1], p[2]>> /\ p # <<dir, s>> /\ p \in EntriesOn(d)
      BY <1>7, Unfold
    <2>2. p[1] \in DirectoriesOn(d) /\ p[2] \in Slot
      BY <2>1, Unfold
    <2>3. p[1] # dir \/ p[2] # s
      BY <2>1
    <2> QED BY <1>3, <2>2, <2>3 DEF EntryOn
  <1>9. \A p \in EntriesOn(e) : Head0(e, p) = Head0(d, p)
    BY <1>8 DEF Head0
  <1>10. Heads(e) = Heads(d) \ {old.cluster}
    BY <1>4, <1>7, <1>9 DEF Heads
  <1>11. \A c \in DirectoriesOn(e) : e[c].is = "table"
    BY <1>3, <1>5
  <1>12. ASSUME NEW p \in EntriesOn(e)
         PROVE  /\ \A q \in EntriesOn(e) : Head0(e, q) = Head0(e, p) => q = p
                /\ EntryOn(e, p).kind = "dir" => p[1] = ROOT_CLUSTER_NUMBER
    BY <1>7, <1>8, <1>9 DEF TablesSound
  <1>13. TablesSound(e)
    BY <1>11, <1>12 DEF TablesSound
  <1> QED BY <1>5, <1>7, <1>8, <1>10, <1>13 DEF old

-----------------------------------------------------------------------------
(* The tree that a disk shows.                                             *)

(* Another size in a directory entry. *)
WithSize(entry, size) == [entry EXCEPT !.filesize = size]

(* A directory's place is that of its one entry in the root. *)
LEMMA SlotFacts ==
    ASSUME NEW d, HeadsDiffer(d), NEW c \in DirectoriesOn(d)
    PROVE  LET s == SlotOf(d, c)
               p == <<ROOT_CLUSTER_NUMBER, s>>
           IN  /\ c = ROOT_CLUSTER_NUMBER => s = 0
               /\ c # ROOT_CLUSTER_NUMBER =>
                      /\ s \in Slot
                      /\ p \in EntriesOn(d)
                      /\ Head0(d, p) = c
                      /\ EntryOn(d, p).kind = "dir"
               /\ c # ROOT_CLUSTER_NUMBER =>
                      \A r : <<ROOT_CLUSTER_NUMBER, r>> \in EntriesOn(d)
                             /\ Head0(d, <<ROOT_CLUSTER_NUMBER, r>>) = c
                                 => r = s
               /\ s \in 0..SlotCount
               /\ s = 0 => c = ROOT_CLUSTER_NUMBER
  <1> DEFINE R == ROOT_CLUSTER_NUMBER
             s == SlotOf(d, c)
             p == <<R, s>>
  <1>1. SlotCount \in Nat /\ 0 \notin Slot /\ Slot \subseteq 0..SlotCount /\ 0 \in 0..SlotCount
    BY Fat32Assumption DEF Slot
  <1> DEFINE Facts ==
                 /\ c = R => s = 0
                 /\ c # R =>
                        /\ s \in Slot
                        /\ p \in EntriesOn(d)
                        /\ Head0(d, p) = c
                        /\ EntryOn(d, p).kind = "dir"
                 /\ c # R =>
                        \A r : <<R, r>> \in EntriesOn(d) /\ Head0(d, <<R, r>>) = c => r = s
                 /\ s \in 0..SlotCount
                 /\ s = 0 => c = R
  <1>2. ASSUME c = R
        PROVE  Facts
    <2>1. s = 0
      BY <1>2 DEF SlotOf
    <2> HIDE DEF s
    <2> QED BY <1>1, <1>2, <2>1
  <1>3. ASSUME c # R
        PROVE  Facts
    <2> HIDE DEF R, s
    <2>1. PICK r \in Slot : /\ d[R].is = "table" /\ d[R].entry[r] # NoEntry
                            /\ d[R].entry[r].kind = "dir" /\ c = d[R].entry[r].cluster
      BY <1>3, Unfold DEF R
    <2>2. R \in DirectoriesOn(d)
      BY Unfold DEF R
    <2>3. s \in Slot /\ d[R].entry[s] # NoEntry /\ d[R].entry[s].cluster = c
      BY <1>3, <2>1 DEF SlotOf, s, R
    <2>4. \A t \in Slot : d[R].entry[t] # NoEntry =>
              <<R, t>> \in EntriesOn(d) /\ Head0(d, <<R, t>>) = d[R].entry[t].cluster
      BY <2>1, <2>2, Unfold
    <2>5. <<R, r>> \in EntriesOn(d) /\ Head0(d, <<R, r>>) = c
          /\ p \in EntriesOn(d) /\ Head0(d, p) = c
      BY <2>1, <2>3, <2>4
    <2>6. \A t : <<R, t>> \in EntriesOn(d) /\ Head0(d, <<R, t>>) = c => t = s
      <3> SUFFICES ASSUME NEW t, <<R, t>> \in EntriesOn(d), Head0(d, <<R, t>>) = c
                   PROVE  t = s
        OBVIOUS
      <3>1. <<R, t>> = p
        BY <2>5 DEF HeadsDiffer
      <3> QED BY <3>1
    <2>7. r = s
      BY <2>5, <2>6
    <2>8. EntryOn(d, p).kind = "dir"
      BY <2>1, <2>7, Unfold
    <2>9. s \in 0..SlotCount /\ s # 0
      BY <1>1, <2>3
    <2> QED BY <1>3, <2>3, <2>5, <2>6, <2>8, <2>9
  <1> HIDE DEF Facts
  <1>4. Facts
    BY <1>2, <1>3
  <1> QED BY <1>4 DEF Facts

(* Every entry has a place of its own in the tree, and is shown there. *)
LEMMA TreeFacts ==
    ASSUME NEW d, HeadsDiffer(d)
    PROVE  /\ \A p, q \in EntriesOn(d) : PlaceOn(d, p) = PlaceOn(d, q) => p = q
           /\ \A p \in EntriesOn(d) :
                  /\ PlaceOn(d, p) \in (0..SlotCount) \X Slot
                  /\ PlaceOn(d, p) \in DOMAIN TreeOn(d)
                  /\ TreeOn(d)[PlaceOn(d, p)] = Shown(EntryOn(d, p))
           /\ \A x \in DOMAIN TreeOn(d) : \E p \in EntriesOn(d) : x = PlaceOn(d, p)
           /\ TreeOn(d) = [x \in DOMAIN TreeOn(d) |-> TreeOn(d)[x]]
  <1>1. \A p \in EntriesOn(d) : /\ p[1] \in DirectoriesOn(d) /\ p[2] \in Slot
                                /\ p = <<p[1], p[2]>>
    BY DEF EntriesOn
  <1>2. \A b, c \in DirectoriesOn(d) : SlotOf(d, b) = SlotOf(d, c) => b = c
    <2> SUFFICES ASSUME NEW b \in DirectoriesOn(d), NEW c \in DirectoriesOn(d),
                        SlotOf(d, b) = SlotOf(d, c)
                 PROVE  b = c
      OBVIOUS
    <2>1. /\ b = ROOT_CLUSTER_NUMBER => SlotOf(d, b) = 0
          /\ b # ROOT_CLUSTER_NUMBER => Head0(d, <<ROOT_CLUSTER_NUMBER, SlotOf(d, b)>>) = b
          /\ SlotOf(d, b) = 0 => b = ROOT_CLUSTER_NUMBER
      BY SlotFacts
    <2>2. /\ c = ROOT_CLUSTER_NUMBER => SlotOf(d, c) = 0
          /\ c # ROOT_CLUSTER_NUMBER => Head0(d, <<ROOT_CLUSTER_NUMBER, SlotOf(d, c)>>) = c
          /\ SlotOf(d, c) = 0 => c = ROOT_CLUSTER_NUMBER
      BY SlotFacts
    <2> QED BY <2>1, <2>2
  <1>3. \A p, q \in EntriesOn(d) : PlaceOn(d, p) = PlaceOn(d, q) => p = q
    BY <1>1, <1>2 DEF PlaceOn
  <1>4. \A p \in EntriesOn(d) : PlaceOn(d, p) \in (0..SlotCount) \X Slot
    BY <1>1, SlotFacts DEF PlaceOn
  <1>5. \A p \in EntriesOn(d) : (CHOOSE q \in EntriesOn(d) : PlaceOn(d, q) = PlaceOn(d, p)) = p
    BY <1>3
  <1> QED BY <1>3, <1>4, <1>5 DEF TreeOn

(* Where the entries of one disk are on another, so are their places. *)
LEMMA SamePlaces ==
    ASSUME NEW d, HeadsDiffer(d), NEW e, HeadsDiffer(e),
           DirectoriesOn(d) \subseteq DirectoriesOn(e),
           EntriesOn(d) \subseteq EntriesOn(e),
           \A p \in EntriesOn(d) : Head0(e, p) = Head0(d, p)
    PROVE  /\ \A c \in DirectoriesOn(d) : SlotOf(e, c) = SlotOf(d, c)
           /\ \A p \in EntriesOn(d) : PlaceOn(e, p) = PlaceOn(d, p)
  <1>1. ASSUME NEW c \in DirectoriesOn(d)
        PROVE  SlotOf(e, c) = SlotOf(d, c)
    <2>1. CASE c = ROOT_CLUSTER_NUMBER
      BY <2>1 DEF SlotOf
    <2>2. CASE c # ROOT_CLUSTER_NUMBER
      <3> DEFINE s == SlotOf(d, c)
                 p == <<ROOT_CLUSTER_NUMBER, s>>
      <3>1. p \in EntriesOn(d) /\ Head0(d, p) = c
        BY <2>2, SlotFacts
      <3>2. p \in EntriesOn(e) /\ Head0(e, p) = c
        BY <3>1
      <3> HIDE DEF s
      <3>3. s = SlotOf(e, c)
        BY <2>2, <3>2, SlotFacts
      <3> QED BY <3>3 DEF s
    <2> QED BY <2>1, <2>2
  <1> QED BY <1>1 DEF PlaceOn, EntriesOn

(* The same entries show the same tree. *)
LEMMA SameTree ==
    ASSUME NEW d, HeadsDiffer(d), NEW e, HeadsDiffer(e),
           DirectoriesOn(e) = DirectoriesOn(d), EntriesOn(e) = EntriesOn(d),
           \A p \in EntriesOn(d) : EntryOn(e, p) = EntryOn(d, p)
    PROVE  TreeStep(d, e)
  <1>1. \A p \in EntriesOn(d) : PlaceOn(e, p) = PlaceOn(d, p)
    BY SamePlaces DEF Head0
  <1> DEFINE t == TreeOn(d)
             u == TreeOn(e)
  <1>2. /\ \A p \in EntriesOn(d) : PlaceOn(d, p) \in DOMAIN t
                                   /\ t[PlaceOn(d, p)] = Shown(EntryOn(d, p))
        /\ \A x \in DOMAIN t : \E p \in EntriesOn(d) : x = PlaceOn(d, p)
        /\ t = [x \in DOMAIN t |-> t[x]]
    BY TreeFacts
  <1>3. /\ \A p \in EntriesOn(e) : PlaceOn(e, p) \in DOMAIN u
                                   /\ u[PlaceOn(e, p)] = Shown(EntryOn(e, p))
        /\ \A x \in DOMAIN u : \E p \in EntriesOn(e) : x = PlaceOn(e, p)
        /\ u = [x \in DOMAIN u |-> u[x]]
    BY TreeFacts
  <1> HIDE DEF t, u
  <1>4. DOMAIN u = DOMAIN t /\ \A x \in DOMAIN t : u[x] = t[x]
    BY <1>1, <1>2, <1>3
  <1>5. u = t
    BY <1>2, <1>3, <1>4
  <1> QED BY <1>5 DEF TreeStep, t, u

(* One more entry is one that was made. *)
LEMMA MoreTree ==
    ASSUME NEW d, HeadsDiffer(d), NEW e, HeadsDiffer(e),
           DirectoriesOn(d) \subseteq DirectoriesOn(e),
           NEW c \in DirectoriesOn(d), NEW s \in Slot, <<c, s>> \notin EntriesOn(d),
           EntriesOn(e) = EntriesOn(d) \cup {<<c, s>>},
           \A p \in EntriesOn(d) : EntryOn(e, p) = EntryOn(d, p),
           EntryOn(e, <<c, s>>).kind \in {"file", "dir"},
           EntryOn(e, <<c, s>>).kind = "dir" => c = ROOT_CLUSTER_NUMBER,
           EntryOn(e, <<c, s>>).name \in Name,
           EntryOn(e, <<c, s>>).filesize = 0
    PROVE  TreeStep(d, e)
  <1> DEFINE t == TreeOn(d)
             u == TreeOn(e)
             new == EntryOn(e, <<c, s>>)
             place == PlaceOn(e, <<c, s>>)
  <1>1. /\ \A b \in DirectoriesOn(d) : SlotOf(e, b) = SlotOf(d, b)
        /\ \A p \in EntriesOn(d) : PlaceOn(e, p) = PlaceOn(d, p)
    <2>1. \A p \in EntriesOn(d) : Head0(e, p) = Head0(d, p)
      BY DEF Head0
    <2> QED BY <2>1, SamePlaces
  <1>2. /\ \A p \in EntriesOn(d) : PlaceOn(d, p) \in DOMAIN t
                                   /\ t[PlaceOn(d, p)] = Shown(EntryOn(d, p))
        /\ \A x \in DOMAIN t : \E p \in EntriesOn(d) : x = PlaceOn(d, p)
    BY TreeFacts
  <1>3. /\ \A p, q \in EntriesOn(e) : PlaceOn(e, p) = PlaceOn(e, q) => p = q
        /\ \A p \in EntriesOn(e) : /\ PlaceOn(e, p) \in (0..SlotCount) \X Slot
                                   /\ PlaceOn(e, p) \in DOMAIN u
                                   /\ u[PlaceOn(e, p)] = Shown(EntryOn(e, p))
        /\ \A x \in DOMAIN u : \E p \in EntriesOn(e) : x = PlaceOn(e, p)
        /\ u = [x \in DOMAIN u |-> u[x]]
    BY TreeFacts
  <1>4. <<c, s>> \in EntriesOn(e) /\ place = <<SlotOf(d, c), s>>
    BY <1>1 DEF PlaceOn
  <1>5. \/ place[1] = 0
        \/ <<0, place[1]>> \in DOMAIN t /\ t[<<0, place[1]>>].kind = "dir"
    <2>1. CASE c = ROOT_CLUSTER_NUMBER
      <3>1. SlotOf(d, c) = 0
        BY <2>1 DEF SlotOf
      <3> QED BY <1>4, <3>1
    <2>2. CASE c # ROOT_CLUSTER_NUMBER
      <3> DEFINE p == <<ROOT_CLUSTER_NUMBER, SlotOf(d, c)>>
      <3>1. p \in EntriesOn(d) /\ EntryOn(d, p).kind = "dir"
        BY <2>2, SlotFacts
      <3>2. PlaceOn(d, p) = <<0, SlotOf(d, c)>>
        BY DEF PlaceOn, SlotOf
      <3>3. <<0, SlotOf(d, c)>> \in DOMAIN t /\ t[<<0, SlotOf(d, c)>>].kind = "dir"
        <4> HIDE DEF p, t
        <4>1. PlaceOn(d, p) \in DOMAIN t /\ t[PlaceOn(d, p)] = Shown(EntryOn(d, p))
          BY <1>2, <3>1
        <4>2. Shown(EntryOn(d, p)).kind = "dir"
          BY <3>1 DEF Shown
        <4> QED BY <3>2, <4>1, <4>2
      <3> QED BY <1>4, <3>3
    <2> QED BY <2>1, <2>2
  <1>6. new.kind = "dir" => place[1] = 0
    BY <1>4 DEF SlotOf
  <1>7. u[place] = [kind |-> new.kind, name |-> new.name, size |-> 0]
    BY <1>3, <1>4 DEF Shown
  <1> HIDE DEF t, u, new, place
  <1>8. place \notin DOMAIN t
    <2> SUFFICES ASSUME place \in DOMAIN t PROVE FALSE
      OBVIOUS
    <2>1. PICK p \in EntriesOn(d) : place = PlaceOn(d, p)
      BY <1>2
    <2>2. p = <<c, s>>
      BY <1>1, <1>3, <1>4, <2>1 DEF place
    <2> QED BY <2>2
  <1>9. DOMAIN u = DOMAIN t \cup {place}
    <2>1. ASSUME NEW x \in DOMAIN u
          PROVE  x \in DOMAIN t \cup {place}
      BY <1>1, <1>2, <1>3, <1>4 DEF place
    <2>2. place \in DOMAIN u
      BY <1>3, <1>4 DEF place
    <2>3. ASSUME NEW x \in DOMAIN t
          PROVE  x \in DOMAIN u
      BY <1>1, <1>2, <1>3
    <2> QED BY <2>1, <2>2, <2>3
  <1>10. \A x \in DOMAIN t : u[x] = t[x]
    BY <1>1, <1>2, <1>3
  <1>11. u = [q \in DOMAIN t \cup {place} |->
                IF q = place THEN [kind |-> new.kind, name |-> new.name, size |-> 0] ELSE t[q]]
    BY <1>3, <1>7, <1>8, <1>9, <1>10
  <1>12. Makes(t, u, place, new.kind, new.name)
    BY <1>5, <1>6, <1>8, <1>11 DEF Makes
  <1>13. place \in (0..SlotCount) \X Slot /\ new.kind \in {"file", "dir"} /\ new.name \in Name
    BY <1>3, <1>4 DEF place, new
  <1> QED BY <1>12, <1>13 DEF TreeStep, t, u

(* One entry less is one that was removed. *)
LEMMA LessTree ==
    ASSUME NEW d, HeadsDiffer(d), NEW e, HeadsDiffer(e),
           DirectoriesOn(e) \subseteq DirectoriesOn(d),
           NEW c, NEW s, <<c, s>> \in EntriesOn(d),
           EntryOn(d, <<c, s>>).kind = "dir" =>
               /\ c = ROOT_CLUSTER_NUMBER
               /\ \A q \in EntriesOn(d) : q[1] # Head0(d, <<c, s>>),
           EntriesOn(e) = EntriesOn(d) \ {<<c, s>>},
           \A p \in EntriesOn(e) : EntryOn(e, p) = EntryOn(d, p)
    PROVE  TreeStep(d, e)
  <1> DEFINE t == TreeOn(d)
             u == TreeOn(e)
             old == EntryOn(d, <<c, s>>)
             place == PlaceOn(d, <<c, s>>)
  <1>1. \A p \in EntriesOn(e) : PlaceOn(e, p) = PlaceOn(d, p)
    <2>1. \A p \in EntriesOn(e) : Head0(d, p) = Head0(e, p)
      BY DEF Head0
    <2> QED BY <2>1, SamePlaces
  <1>2. /\ \A p, q \in EntriesOn(d) : PlaceOn(d, p) = PlaceOn(d, q) => p = q
        /\ \A p \in EntriesOn(d) : /\ PlaceOn(d, p) \in (0..SlotCount) \X Slot
                                   /\ PlaceOn(d, p) \in DOMAIN t
                                   /\ t[PlaceOn(d, p)] = Shown(EntryOn(d, p))
        /\ \A x \in DOMAIN t : \E p \in EntriesOn(d) : x = PlaceOn(d, p)
    BY TreeFacts
  <1>3. /\ \A p \in EntriesOn(e) : /\ PlaceOn(e, p) \in DOMAIN u
                                   /\ u[PlaceOn(e, p)] = Shown(EntryOn(e, p))
        /\ \A x \in DOMAIN u : \E p \in EntriesOn(e) : x = PlaceOn(e, p)
        /\ u = [x \in DOMAIN u |-> u[x]]
    BY TreeFacts
  <1> HIDE DEF t, u
  <1>4. t[place].kind = "dir" => \A x \in DOMAIN t : x[1] # place[2]
    <2> SUFFICES ASSUME t[place].kind = "dir", NEW x \in DOMAIN t, x[1] = place[2]
                 PROVE  FALSE
      OBVIOUS
    <2>1. /\ old.kind = "dir" /\ c = ROOT_CLUSTER_NUMBER /\ s \in Slot
          /\ \A q \in EntriesOn(d) : q[1] # Head0(d, <<c, s>>)
      <3>1. t[place].kind = old.kind
        <4>1. t[place] = Shown(old)
          BY <1>2
        <4> QED BY <4>1 DEF Shown
      <3>2. s \in Slot
        BY Unfold
      <3> QED BY <3>1, <3>2
    <2>2. PICK q \in EntriesOn(d) : x = PlaceOn(d, q)
      BY <1>2
    <2>3. SlotOf(d, q[1]) = s /\ q[1] \in DirectoriesOn(d)
      BY <2>2 DEF PlaceOn, EntriesOn
    <2>4. 0 \notin Slot
      BY Fat32Assumption DEF Slot
    <2>5. q[1] # ROOT_CLUSTER_NUMBER
      BY <2>1, <2>3, <2>4, SlotFacts
    <2>6. Head0(d, <<ROOT_CLUSTER_NUMBER, s>>) = q[1]
      BY <2>3, <2>5, SlotFacts
    <2> QED BY <2>1, <2>6
  <1> HIDE DEF place, old
  <1>5. place \in DOMAIN t /\ place \in (0..SlotCount) \X Slot
    BY <1>2 DEF place
  <1>6. DOMAIN u = DOMAIN t \ {place}
    BY <1>1, <1>2, <1>3 DEF place
  <1>7. \A x \in DOMAIN u : u[x] = t[x]
    BY <1>1, <1>2, <1>3
  <1>8. u = [x \in DOMAIN t \ {place} |-> t[x]]
    BY <1>3, <1>6, <1>7
  <1>9. Removes(t, u, place)
    BY <1>4, <1>5, <1>8 DEF Removes
  <1> QED BY <1>5, <1>9 DEF TreeStep, t, u

(* Another size of a file. *)
LEMMA SizeTree ==
    ASSUME NEW d, HeadsDiffer(d), NEW e, HeadsDiffer(e),
           DirectoriesOn(e) = DirectoriesOn(d), EntriesOn(e) = EntriesOn(d),
           NEW p \in EntriesOn(d), EntryOn(d, p).kind = "file", NEW size \in 0..MaxSize,
           EntryOn(d, p) \in EntryType,
           EntryOn(e, p) = WithSize(EntryOn(d, p), size),
           \A q \in EntriesOn(d) \ {p} : EntryOn(e, q) = EntryOn(d, q)
    PROVE  TreeStep(d, e)
  <1> DEFINE t == TreeOn(d)
             u == TreeOn(e)
             place == PlaceOn(d, p)
             old == EntryOn(d, p)
  <1>1. /\ Shown(WithSize(old, size)) = [Shown(old) EXCEPT !.size = size]
        /\ WithSize(old, size).cluster = old.cluster
    BY DEF Shown, WithSize, EntryType
  <1>2. \A q \in EntriesOn(d) : PlaceOn(e, q) = PlaceOn(d, q)
    <2>1. \A q \in EntriesOn(d) : Head0(e, q) = Head0(d, q)
      BY <1>1 DEF Head0
    <2> QED BY <2>1, SamePlaces
  <1>3. /\ \A q, r \in EntriesOn(d) : PlaceOn(d, q) = PlaceOn(d, r) => q = r
        /\ \A q \in EntriesOn(d) : /\ PlaceOn(d, q) \in (0..SlotCount) \X Slot
                                   /\ PlaceOn(d, q) \in DOMAIN t
                                   /\ t[PlaceOn(d, q)] = Shown(EntryOn(d, q))
        /\ \A x \in DOMAIN t : \E q \in EntriesOn(d) : x = PlaceOn(d, q)
        /\ t = [x \in DOMAIN t |-> t[x]]
    BY TreeFacts
  <1>4. /\ \A q \in EntriesOn(e) : /\ PlaceOn(e, q) \in DOMAIN u
                                   /\ u[PlaceOn(e, q)] = Shown(EntryOn(e, q))
        /\ \A x \in DOMAIN u : \E q \in EntriesOn(e) : x = PlaceOn(e, q)
        /\ u = [x \in DOMAIN u |-> u[x]]
    BY TreeFacts
  <1> HIDE DEF t, u
  <1>5. DOMAIN u = DOMAIN t /\ \A x \in DOMAIN t \ {place} : u[x] = t[x]
    BY <1>2, <1>3, <1>4
  <1>6. u[place] = [t[place] EXCEPT !.size = size] /\ place \in DOMAIN t /\ t[place].kind = "file"
    <2>1. t[place] = Shown(old) /\ u[place] = Shown(WithSize(old, size))
      BY <1>2, <1>3, <1>4
    <2> QED BY <1>1, <1>3, <2>1 DEF Shown
  <1>7. u = [t EXCEPT ![place].size = size]
    <2> HIDE DEF place, old
    <2> QED BY <1>3, <1>4, <1>5, <1>6
  <1>8. Resizes(t, u, place, size)
    BY <1>6, <1>7 DEF Resizes
  <1>9. place \in (0..SlotCount) \X Slot
    BY <1>3
  <1> QED BY <1>8, <1>9 DEF TreeStep, t, u

(* What has to be seen to of the clusters that are no directory's. *)
LEMMA StillTidy ==
    ASSUME NEW d, Tidy(d), NEW e, HeadsDiffer(e), e[BOOT_SECTOR].is = "signature",
           \A c \in Cluster \ DirectoriesOn(e) :
               \/ e[c].is # "table"
               \/ e[c] = d[c] /\ c \notin DirectoriesOn(d)
               \/ \A s \in Slot : e[c].entry[s] = NoEntry
    PROVE  Tidy(e)
  BY DEF Tidy

-----------------------------------------------------------------------------
(* What each write to the disk leaves sound.                               *)

(* The same entries at the same places, with the same chains. *)
SameEntries(d, e) ==
    /\ EntriesOn(e) = EntriesOn(d)
    /\ \A p \in EntriesOn(d) : /\ Head0(e, p) = Head0(d, p)
                               /\ EntryOn(e, p).kind = EntryOn(d, p).kind

(* A cluster in the chain of a file is no directory's and not lost. *)
LEMMA OwnedByFile ==
    ASSUME NEW d, NEW l, Sound(d, l), NEW p \in EntriesOn(d), EntryOn(d, p).kind = "file",
           NEW x, Owns(MapOf(d), Head0(d, p), x)
    PROVE  /\ x \in Used(MapOf(d)) \ l
           /\ x \notin DirectoriesOn(d)
           /\ x \in Cluster /\ x # BOOT_SECTOR /\ x # FAT_CLUSTER_NUMBER
  <1> DEFINE map == MapOf(d)
             h == Head0(d, p)
             H == Heads(d)
  <1>1. LinksSound(map, H, l) /\ h \in H
    BY DEF Sound, Heads
  <1>2. /\ Used(map) \subseteq Cluster /\ ROOT_CLUSTER_NUMBER \notin Used(map)
        /\ BOOT_SECTOR \notin Used(map) /\ FAT_CLUSTER_NUMBER \notin Used(map)
    BY SoundTables DEF Used, BOOT_SECTOR, FAT_CLUSTER_NUMBER, ROOT_CLUSTER_NUMBER
  <1>3. x \in Used(map)
    <2>1. IsClosed(map, Used(map)) /\ h \in Used(map)
      BY <1>1, ClosedSets DEF LinksSound
    <2> HIDE DEF h, map
    <2> QED BY <1>2, <2>1 DEF Owns, h, map
  <1>4. x \in Chain(map, h)
    BY <1>1, <1>2, <1>3, ChainOfHead
  <1>5. ASSUME x \in DirectoriesOn(d)
        PROVE  FALSE
    <2>1. PICK s \in Slot : /\ d[ROOT_CLUSTER_NUMBER].is = "table"
                            /\ d[ROOT_CLUSTER_NUMBER].entry[s] # NoEntry
                            /\ d[ROOT_CLUSTER_NUMBER].entry[s].kind = "dir"
                            /\ x = d[ROOT_CLUSTER_NUMBER].entry[s].cluster
      BY <1>2, <1>3, <1>5, Unfold
    <2> DEFINE q == <<ROOT_CLUSTER_NUMBER, s>>
    <2>2. q \in EntriesOn(d) /\ Head0(d, q) = x /\ EntryOn(d, q).kind = "dir"
      BY <2>1, Unfold
    <2>3. x \in H /\ x # h
      BY <2>2 DEF Heads, Sound, TablesSound
    <2>4. x \in Chain(map, x)
      BY <1>1, <2>3, ChainOfHead
    <2>5. Chain(map, h) \cap Chain(map, x) = {}
      BY <1>1, <2>3, ChainsApart
    <2> QED BY <1>4, <2>4, <2>5
  <1>6. x \notin l
    BY <1>1, <1>4, ChainsApart
  <1> QED BY <1>2, <1>3, <1>5, <1>6

(* Data written into the chain of a file. *)
LEMMA SoundData ==
    ASSUME NEW d, NEW l, Sound(d, l), NEW x \in Used(MapOf(d)), x \notin DirectoriesOn(d)
    PROVE  LET e == Apply(d, WriteTo(x, Data))
           IN  /\ Sound(e, l)
               /\ SameEntries(d, e)
               /\ MapOf(e) = MapOf(d)
               /\ \A p \in EntriesOn(d) : EntryOn(e, p) = EntryOn(d, p)
               /\ DirectoriesOn(e) = DirectoriesOn(d)
               /\ \A c \in DirectoriesOn(d) : e[c] = d[c]
               /\ Tidy(d) => Follows(d, e)
  <1> DEFINE e == Apply(d, WriteTo(x, Data))
  <1>1. /\ x \in Cluster /\ x # BOOT_SECTOR /\ x # FAT_CLUSTER_NUMBER
        /\ BOOT_SECTOR \in Cluster /\ FAT_CLUSTER_NUMBER \in Cluster
    BY Fat32Assumption DEF Used, BOOT_SECTOR, FAT_CLUSTER_NUMBER, ROOT_CLUSTER_NUMBER, Cluster
  <1>2. d \in [Cluster -> Content] /\ TablesSound(d)
    BY DEF Sound, TablesSound
  <1>3. /\ e \in [Cluster -> Content]
        /\ \A c \in Cluster : c # x => e[c] = d[c]
        /\ e[x].is # "table"
    BY <1>1, <1>2 DEF Apply, WriteTo, Content, Data
  <1> HIDE DEF e
  <1>4. \A c \in DirectoriesOn(d) : e[c] = d[c] /\ e[c].is = "table"
    BY <1>2, <1>3, SoundTables DEF TablesSound
  <1>5. e[BOOT_SECTOR].is = "signature" /\ e[FAT_CLUSTER_NUMBER].is = "fat" /\ MapOf(e) = MapOf(d)
    BY <1>1, <1>2, <1>3 DEF TablesSound, MapOf
  <1>6. \A c \in DirectoriesOn(d) :
            e[c].is = "table" /\ \A s \in Slot : SameEntry(d[c].entry[s], e[c].entry[s])
    BY <1>4 DEF SameEntry
  <1>7. /\ TablesSound(e) /\ DirectoriesOn(e) = DirectoriesOn(d) /\ EntriesOn(e) = EntriesOn(d)
        /\ \A p \in EntriesOn(d) : /\ Head0(e, p) = Head0(d, p)
                                   /\ EntryOn(e, p).kind = EntryOn(d, p).kind
        /\ Heads(e) = Heads(d)
    BY <1>2, <1>3, <1>5, <1>6, SameTables
  <1>8. \A p \in EntriesOn(d) : EntryOn(e, p) = EntryOn(d, p)
    BY <1>4 DEF EntriesOn, EntryOn
  <1>9. Sound(e, l)
    BY <1>5, <1>7, <1>8 DEF Sound, SizesCovered
  <1>10. ASSUME Tidy(d)
         PROVE  Follows(d, e)
    <2>1. HeadsDiffer(d) /\ HeadsDiffer(e)
      BY <1>2, <1>7 DEF HeadsDiffer, TablesSound
    <2>2. Tidy(e)
      BY <1>3, <1>5, <1>7, <1>10, <2>1, StillTidy
    <2>3. TreeStep(d, e)
      BY <1>7, <1>8, <2>1, SameTree
    <2> QED BY <2>2, <2>3 DEF Follows
  <1> QED BY <1>4, <1>5, <1>7, <1>8, <1>9, <1>10 DEF e, SameEntries

(* A new file allocation table, sound for the entries there are. *)
LEMMA SoundMap ==
    ASSUME NEW d, NEW k, Sound(d, k), NEW l, NEW m \in MapType, LinksSound(m, Heads(d), l),
           \A h \in Heads(d) : Keeps(MapOf(d), m, h)
    PROVE  LET e == Apply(d, WriteTo(FAT_CLUSTER_NUMBER, [is |-> "fat", map |-> m]))
           IN  /\ Sound(e, l)
               /\ SameEntries(d, e)
               /\ MapOf(e) = m
               /\ \A p \in EntriesOn(d) : EntryOn(e, p) = EntryOn(d, p)
               /\ Tidy(d) => Follows(d, e)
  <1> DEFINE e == Apply(d, WriteTo(FAT_CLUSTER_NUMBER, [is |-> "fat", map |-> m]))
  <1>1. BOOT_SECTOR # FAT_CLUSTER_NUMBER /\ BOOT_SECTOR \in Cluster /\ FAT_CLUSTER_NUMBER \in Cluster
    BY Fat32Assumption DEF BOOT_SECTOR, FAT_CLUSTER_NUMBER, Cluster
  <1>2. d \in [Cluster -> Content] /\ TablesSound(d)
    BY DEF Sound, TablesSound
  <1>3. /\ e \in [Cluster -> Content]
        /\ \A c \in Cluster : c # FAT_CLUSTER_NUMBER => e[c] = d[c]
        /\ e[FAT_CLUSTER_NUMBER].is = "fat" /\ MapOf(e) = m
    BY <1>1, <1>2 DEF Apply, WriteTo, Content, MapOf
  <1> HIDE DEF e
  <1>4. \A c \in DirectoriesOn(d) : e[c] = d[c] /\ e[c].is = "table"
    BY <1>2, <1>3, SoundTables DEF TablesSound
  <1>5. e[BOOT_SECTOR].is = "signature"
    BY <1>1, <1>2, <1>3 DEF TablesSound
  <1>6. \A c \in DirectoriesOn(d) :
            e[c].is = "table" /\ \A s \in Slot : SameEntry(d[c].entry[s], e[c].entry[s])
    BY <1>4 DEF SameEntry
  <1>7. /\ TablesSound(e) /\ EntriesOn(e) = EntriesOn(d) /\ DirectoriesOn(e) = DirectoriesOn(d)
        /\ \A p \in EntriesOn(d) : /\ Head0(e, p) = Head0(d, p)
                                   /\ EntryOn(e, p).kind = EntryOn(d, p).kind
        /\ Heads(e) = Heads(d)
    BY <1>2, <1>3, <1>5, <1>6, SameTables
  <1>10. \A p \in EntriesOn(d) : EntryOn(e, p) = EntryOn(d, p)
    BY <1>4 DEF EntriesOn, EntryOn
  <1>8. SizesCovered(e)
    <2> SUFFICES ASSUME NEW p \in EntriesOn(d)
                 PROVE  Covers(m, Head0(e, p), EntryOn(e, p).filesize)
      BY <1>3, <1>7 DEF SizesCovered
    <2>2. Covers(MapOf(d), Head0(d, p), EntryOn(d, p).filesize) /\ Head0(d, p) \in Heads(d)
      BY DEF Sound, SizesCovered, Heads
    <2> QED BY <1>7, <1>10, <2>2, KeepsCovers
  <1>9. Sound(e, l)
    BY <1>3, <1>7, <1>8 DEF Sound
  <1>11. ASSUME Tidy(d)
         PROVE  Follows(d, e)
    <2>1. HeadsDiffer(d) /\ HeadsDiffer(e)
      BY <1>2, <1>7 DEF HeadsDiffer, TablesSound
    <2>2. Tidy(e)
      BY <1>3, <1>5, <1>7, <1>11, <2>1, StillTidy
    <2>3. TreeStep(d, e)
      BY <1>7, <1>10, <2>1, SameTree
    <2> QED BY <2>2, <2>3 DEF Follows
  <1> QED BY <1>3, <1>7, <1>9, <1>10, <1>11 DEF e, SameEntries

Resized(d, dir, s, size) ==
    Apply(d, WriteTo(dir, Table([d[dir].entry EXCEPT ![s].filesize = size])))

LEMMA SoundSize ==
    ASSUME NEW d, NEW l, Sound(d, l), NEW dir, NEW s, <<dir, s>> \in EntriesOn(d),
           NEW size \in 0..MaxSize,
           Covers(MapOf(d), Head0(d, <<dir, s>>), size)
    PROVE  LET e == Resized(d, dir, s, size)
           IN  /\ Sound(e, l)
               /\ SameEntries(d, e)
               /\ MapOf(e) = MapOf(d)
               /\ EntryOn(e, <<dir, s>>) = WithSize(EntryOn(d, <<dir, s>>), size)
               /\ \A p \in EntriesOn(d) \ {<<dir, s>>} : EntryOn(e, p) = EntryOn(d, p)
               /\ Tidy(d) /\ EntryOn(d, <<dir, s>>).kind = "file" => Follows(d, e)
  <1> DEFINE t == [d[dir].entry EXCEPT ![s].filesize = size]
             e == Apply(d, WriteTo(dir, Table(t)))
  <1>1. d \in [Cluster -> Content] /\ TablesSound(d)
    BY DEF Sound, TablesSound
  <1>2. /\ dir \in DirectoriesOn(d) /\ s \in Slot /\ d[dir].is = "table" /\ d[dir].entry[s] # NoEntry
        /\ dir \in Cluster /\ dir # BOOT_SECTOR /\ dir # FAT_CLUSTER_NUMBER
        /\ DirectoriesOn(d) \subseteq Cluster
    BY Unfold, SoundTables
  <1>3. d[dir].entry \in [Slot -> EntryType \cup {NoEntry}]
    BY <1>1, <1>2, TableContent
  <1>4. d[dir].entry[s] \in EntryType
    BY <1>2, <1>3, EntryContent
  <1>5. /\ t \in [Slot -> EntryType \cup {NoEntry}]
        /\ t[s] # NoEntry
        /\ t[s].kind = d[dir].entry[s].kind /\ t[s].cluster = d[dir].entry[s].cluster
        /\ t[s] = [d[dir].entry[s] EXCEPT !.filesize = size] /\ t[s].filesize = size
        /\ \A r \in Slot \ {s} : t[r] = d[dir].entry[r]
    <2> DEFINE u == [d[dir].entry[s] EXCEPT !.filesize = size]
    <2>1. /\ u \in EntryType /\ u # NoEntry
          /\ u.kind = d[dir].entry[s].kind /\ u.cluster = d[dir].entry[s].cluster
          /\ u.filesize = size /\ u = [d[dir].entry[s] EXCEPT !.filesize = size]
      BY <1>4 DEF EntryType, NoEntry
    <2>2. t = [d[dir].entry EXCEPT ![s] = u]
      OBVIOUS
    <2> HIDE DEF u, t
    <2> QED BY <1>2, <1>3, <2>1, <2>2
  <1> HIDE DEF t
  <1>6. BOOT_SECTOR \in Cluster /\ FAT_CLUSTER_NUMBER \in Cluster
    BY Fat32Assumption DEF BOOT_SECTOR, FAT_CLUSTER_NUMBER, Cluster
  <1>7. /\ e \in [Cluster -> Content]
        /\ \A c \in Cluster : c # dir => e[c] = d[c]
        /\ e[dir].is = "table" /\ e[dir].entry = t
    BY <1>1, <1>2, <1>5 DEF Apply, WriteTo, Content, Table
  <1> HIDE DEF e
  <1>8. e[BOOT_SECTOR].is = "signature" /\ e[FAT_CLUSTER_NUMBER].is = "fat" /\ MapOf(e) = MapOf(d)
    BY <1>1, <1>2, <1>6, <1>7 DEF TablesSound, MapOf
  <1>9. \A c \in DirectoriesOn(d) :
            e[c].is = "table" /\ \A r \in Slot : SameEntry(d[c].entry[r], e[c].entry[r])
    <2>1. SameEntry(d[dir].entry[s], t[s])
      BY <1>2, <1>5 DEF SameEntry
    <2>2. \A r \in Slot : SameEntry(d[dir].entry[r], t[r])
      BY <1>5, <2>1 DEF SameEntry
    <2>3. ASSUME NEW c \in DirectoriesOn(d), c # dir
          PROVE  /\ e[c].is = "table"
                 /\ \A r \in Slot : SameEntry(d[c].entry[r], e[c].entry[r])
      BY <1>1, <1>2, <1>7, <2>3 DEF SameEntry, TablesSound
    <2> QED BY <1>7, <2>2, <2>3
  <1>10. /\ TablesSound(e) /\ EntriesOn(e) = EntriesOn(d) /\ DirectoriesOn(e) = DirectoriesOn(d)
         /\ \A p \in EntriesOn(d) : /\ Head0(e, p) = Head0(d, p)
                                    /\ EntryOn(e, p).kind = EntryOn(d, p).kind
         /\ Heads(e) = Heads(d)
    BY <1>1, <1>7, <1>8, <1>9, SameTables
  <1>11. /\ EntryOn(e, <<dir, s>>) = [EntryOn(d, <<dir, s>>) EXCEPT !.filesize = size]
         /\ EntryOn(e, <<dir, s>>).filesize = size
    <2>1. EntryOn(e, <<dir, s>>) = t[s] /\ EntryOn(d, <<dir, s>>) = d[dir].entry[s]
      BY <1>7, Unfold
    <2> QED BY <1>5, <2>1
  <1>12. ASSUME NEW p \in EntriesOn(d) \ {<<dir, s>>}
         PROVE  EntryOn(e, p) = EntryOn(d, p)
    <2>1. /\ p[1] \in DirectoriesOn(d) /\ p[2] \in Slot /\ p = <<p[1], p[2]>>
      BY DEF EntriesOn
    <2>2. p[1] # dir \/ p[2] # s
      BY <2>1
    <2> QED BY <1>2, <1>5, <1>7, <2>1, <2>2 DEF EntryOn
  <1>13. SizesCovered(e)
    <2> SUFFICES ASSUME NEW p \in EntriesOn(d)
                 PROVE  Covers(MapOf(d), Head0(d, p), EntryOn(e, p).filesize)
      BY <1>8, <1>10 DEF SizesCovered
    <2>1. CASE p = <<dir, s>>
      BY <1>11, <2>1
    <2>2. CASE p # <<dir, s>>
      BY <1>12, <2>2 DEF Sound, SizesCovered
    <2> QED BY <2>1, <2>2
  <1>14. Sound(e, l)
    BY <1>8, <1>10, <1>13 DEF Sound
  <1>15. EntryOn(e, <<dir, s>>) = WithSize(EntryOn(d, <<dir, s>>), size)
    BY <1>11 DEF WithSize
  <1>16. ASSUME Tidy(d), EntryOn(d, <<dir, s>>).kind = "file"
         PROVE  Follows(d, e)
    <2>1. HeadsDiffer(d) /\ HeadsDiffer(e)
      BY <1>1, <1>10 DEF HeadsDiffer, TablesSound
    <2>2. Tidy(e)
      BY <1>2, <1>7, <1>8, <1>10, <1>16, <2>1, StillTidy
    <2>3. EntryOn(d, <<dir, s>>) \in EntryType
      BY <1>4, Unfold
    <2>4. TreeStep(d, e)
      BY <1>10, <1>12, <1>15, <1>16, <2>1, <2>3, SizeTree
    <2> QED BY <2>2, <2>4 DEF Follows
  <1>17. e = Resized(d, dir, s, size)
    BY DEF e, t, Resized
  <1> QED BY <1>8, <1>10, <1>12, <1>14, <1>15, <1>16, <1>17 DEF SameEntries

-----------------------------------------------------------------------------
(* The disks to come.                                                      *)

(* A write to the disk makes the next disk the present one.                *)
LEMMA AfterShift ==
    ASSUME NEW d, NEW ws \in Seq(DiskWrite), Len(ws) <= 3, ws # <<>>,
           NEW k \in 0..Len(Tail(ws))
    PROVE  AfterOf(Apply(d, Head(ws)), Tail(ws), k) = AfterOf(d, ws, k + 1)
  <1> DEFINE t == Tail(ws)
             n == Len(ws)
  <1>1. /\ n \in 1..3 /\ Len(t) = n - 1 /\ Head(ws) = ws[1]
        /\ \A i \in 1..(n - 1) : t[i] = ws[i + 1]
    <2>1. n \in Nat /\ n # 0
      BY EmptySeq
    <2>2. /\ Len(t) = n - 1
          /\ \A i \in 1..Len(t) : t[i] = ws[i + 1]
      BY HeadTailProperties
    <2>3. Head(ws) = ws[1]
      OBVIOUS
    <2>4. n <= 3
      OBVIOUS
    <2> HIDE DEF t, n
    <2> QED BY <2>1, <2>2, <2>3, <2>4
  <1>2. k \in 0..Len(t)
    OBVIOUS
  <1> HIDE DEF t, n
  <1>3. k \in 0..2 /\ \A i \in 1..k : i \in 1..(n - 1)
    BY <1>1, <1>2
  <1>4. CASE k = 0
    <2>1. k + 1 = 1
      BY <1>4
    <2> QED BY <1>1, <1>4, <2>1 DEF AfterOf, t
  <1>5. CASE k = 1
    <2>1. k + 1 = 2 /\ t[1] = ws[2]
      BY <1>1, <1>3, <1>5
    <2> QED BY <1>1, <1>5, <2>1 DEF AfterOf, t
  <1>6. CASE k = 2
    <2>1. k + 1 = 3 /\ t[1] = ws[2] /\ t[2] = ws[3]
      BY <1>1, <1>3, <1>6
    <2> QED BY <1>1, <1>6, <2>1 DEF AfterOf, t
  <1> QED BY <1>3, <1>4, <1>5, <1>6

(* Nothing is left to write: the disk is the last of the disks. *)
LEMMA AtRest ==
    ASSUME DiskInv, power = "on", todo = <<>>
    PROVE  /\ Sound(disk, lost)
           /\ Final = disk
           /\ fat = MapOf(disk)
           /\ LinksSound(fat, Heads(disk), lost)
           /\ \A h \in Handle : HandleOK(h)
  <1>1. Len(todo) = 0 /\ Final = disk
    BY DEF Final, After, AfterOf
  <1>2. 0 \in 0..Len(todo) /\ After(0) = disk /\ LostAfter(0) = lost
    BY <1>1 DEF After, AfterOf, LostAfter
  <1>3. Sound(disk, lost)
    BY <1>1, <1>2 DEF DiskInv, PowerOn, DisksSound
  <1> QED BY <1>1, <1>3 DEF DiskInv, PowerOn, Sound

(* A descriptor on an entry that stays, as do the clusters of its file. *)
LEMMA SameHandle ==
    ASSUME NEW h \in Handle, HandleOK(h), handle'[h] = handle[h],
           handle[h] # Closed =>
               /\ EntryOf(h) \in EntriesOn(Final')
               /\ Head0(Final', EntryOf(h)) = Head0(Final, EntryOf(h))
               /\ EntryOn(Final', EntryOf(h)).kind = EntryOn(Final, EntryOf(h)).kind
               /\ Head0(Final, EntryOf(h)) \in Cluster
               /\ Keeps(fat, fat', Head0(Final, EntryOf(h)))
    PROVE  HandleOK(h)'
  <1>1. EntryOf(h)' = EntryOf(h)
    BY DEF EntryOf
  <1> SUFFICES ASSUME handle[h] # Closed
               PROVE  HandleOK(h)'
    BY DEF HandleOK
  <1>2. PositionOK(fat', Head0(Final, EntryOf(h)), handle[h])
    BY KeepsPosition DEF HandleOK
  <1> QED BY <1>1, <1>2 DEF HandleOK

-----------------------------------------------------------------------------
(* Boot, power failure, and the disk.                                      *)

LEMMA FormattedMap == IsMap(FormattedFat) /\ Used(FormattedFat) = {}
  BY Fat32Assumption DEF IsMap, Used, FormattedFat, MapType, Cluster, BOOT_SECTOR, FAT_CLUSTER_NUMBER,
     ROOT_CLUSTER_NUMBER, CLUSTER_0_VALUE, FAT32_FAT_END_OF_FILE, FAT32_FAT_EMPTY_ENTRY

LEMMA FreshDisk ==
    ASSUME NEW d \in [Cluster -> Content], d[BOOT_SECTOR].is = "signature",
           d[FAT_CLUSTER_NUMBER] = [is |-> "fat", map |-> FormattedFat],
           d[ROOT_CLUSTER_NUMBER] = EmptyTable
    PROVE  Sound(d, {})
  <1>1. \A s \in Slot : d[ROOT_CLUSTER_NUMBER].entry[s] = NoEntry
    BY DEF EmptyTable, Table
  <1>2. DirectoriesOn(d) = {ROOT_CLUSTER_NUMBER}
    BY <1>1, Unfold
  <1>3. EntriesOn(d) = {}
    BY <1>1, <1>2, Unfold
  <1>4. Heads(d) = {}
    BY <1>3 DEF Heads
  <1>6. LinksSound(MapOf(d), Heads(d), {})
    BY <1>4, FormattedMap DEF LinksSound, IsLinked, IsSealed, MapOf
  <1> QED BY <1>2, <1>3, <1>6 DEF Sound, TablesSound, SizesCovered, EmptyTable, Table

(* A disk without any entries, like one that is being formatted. *)
LEMMA NoEntriesYet ==
    ASSUME NEW d, d[ROOT_CLUSTER_NUMBER].is = "table" => d[ROOT_CLUSTER_NUMBER] = EmptyTable
    PROVE  DirectoriesOn(d) = {ROOT_CLUSTER_NUMBER} /\ EntriesOn(d) = {} /\ HeadsDiffer(d)
  <1>1. d[ROOT_CLUSTER_NUMBER].is = "table" =>
            \A s \in Slot : d[ROOT_CLUSTER_NUMBER].entry[s] = NoEntry
    BY DEF EmptyTable, Table
  <1>2. DirectoriesOn(d) = {ROOT_CLUSTER_NUMBER}
    BY <1>1, Unfold
  <1>3. EntriesOn(d) = {}
    BY <1>1, <1>2, Unfold
  <1> QED BY <1>2, <1>3 DEF HeadsDiffer

LEMMA FormattingDisk ==
    ASSUME NEW d, Tidy(d), d[BOOT_SECTOR].is # "signature", NEW e,
           e[BOOT_SECTOR].is = "signature",
           e[ROOT_CLUSTER_NUMBER] \in {d[ROOT_CLUSTER_NUMBER], EmptyTable},
           \A c \in Cluster \ {ROOT_CLUSTER_NUMBER} : e[c] = d[c] \/ e[c].is # "table"
    PROVE  /\ Tidy(e)
           /\ DirectoriesOn(e) = {ROOT_CLUSTER_NUMBER} /\ EntriesOn(e) = {} /\ HeadsDiffer(e)
           /\ DirectoriesOn(d) = {ROOT_CLUSTER_NUMBER} /\ EntriesOn(d) = {}
  <1>1. d[ROOT_CLUSTER_NUMBER].is # "table"
    BY DEF Tidy
  <1>2. DirectoriesOn(d) = {ROOT_CLUSTER_NUMBER} /\ EntriesOn(d) = {}
    BY <1>1, NoEntriesYet
  <1>3. DirectoriesOn(e) = {ROOT_CLUSTER_NUMBER} /\ EntriesOn(e) = {} /\ HeadsDiffer(e)
    BY <1>1, NoEntriesYet
  <1>4. \A c \in Cluster \ DirectoriesOn(e) :
            d[c].is = "table" => \A s \in Slot : d[c].entry[s] = NoEntry
    BY <1>2, <1>3 DEF Tidy
  <1>5. Tidy(e)
    BY <1>3, <1>4 DEF Tidy
  <1> QED BY <1>2, <1>3, <1>5

LEMMA CreateStep ==
    ASSUME DiskInv, CreateFat32
    PROVE  DiskInv'
  <1> USE DEF CreateFat32
  <1> DEFINE w1 == WriteTo(BOOT_SECTOR, [is |-> "signature"])
             w2 == WriteTo(FAT_CLUSTER_NUMBER, [is |-> "fat", map |-> FormattedFat])
             w3 == WriteTo(ROOT_CLUSTER_NUMBER, EmptyTable)
  <1>1. FormattedFat \in MapType
    BY FormattedMap DEF IsMap
  <1>2. /\ BOOT_SECTOR \in Cluster /\ FAT_CLUSTER_NUMBER \in Cluster /\ ROOT_CLUSTER_NUMBER \in Cluster
        /\ BOOT_SECTOR # FAT_CLUSTER_NUMBER /\ BOOT_SECTOR # ROOT_CLUSTER_NUMBER
        /\ FAT_CLUSTER_NUMBER # ROOT_CLUSTER_NUMBER
    BY Fat32Assumption DEF BOOT_SECTOR, FAT_CLUSTER_NUMBER, ROOT_CLUSTER_NUMBER, Cluster
  <1>3. EmptyTable \in Content
    BY DEF EmptyTable, Table, Content
  <1>4. w1 \in DiskWrite /\ w2 \in DiskWrite /\ w3 \in DiskWrite
    BY <1>1, <1>2, <1>3 DEF DiskWrite, WriteTo, Content
  <1>5. todo' = <<w1, w2, w3>> /\ todo' \in Seq(DiskWrite) /\ Len(todo') = 3
    <2> HIDE DEF w1, w2, w3
    <2>1. todo' = <<w1, w2, w3>>
      BY DEF w1, w2, w3
    <2> QED BY <1>4, <2>1
  <1>6. TypeOK /\ \A h \in Handle : handle[h] = Closed
    BY DEF DiskInv, PowerOff
  <1>7. TypeOK'
    BY <1>1, <1>5, <1>6 DEF TypeOK, OpType
  <1> DEFINE e1 == Apply(disk, w1)
             e2 == Apply(e1, w2)
             e3 == Apply(e2, w3)
  <1>14. After(0)' = disk /\ After(1)' = e1 /\ After(2)' = e2 /\ After(3)' = e3 /\ Final' = e3
    <2> HIDE DEF w1, w2, w3
    <2> QED BY <1>5 DEF Final, After, AfterOf
  <1>15. /\ \A e \in {e1, e2, e3} :
                /\ e \in [Cluster -> Content]
                /\ e[BOOT_SECTOR].is = "signature"
                /\ e[ROOT_CLUSTER_NUMBER] \in {disk[ROOT_CLUSTER_NUMBER], EmptyTable}
                /\ \A c \in Cluster \ {ROOT_CLUSTER_NUMBER} : e[c] = disk[c] \/ e[c].is # "table"
         /\ e3[FAT_CLUSTER_NUMBER] = [is |-> "fat", map |-> FormattedFat]
         /\ e3[ROOT_CLUSTER_NUMBER] = EmptyTable
    <2>2. w1.content \in Content /\ w2.content \in Content /\ w3.content \in Content
      BY <1>4 DEF DiskWrite
    <2>3. disk \in [Cluster -> Content]
      BY <1>6 DEF TypeOK
    <2>4. /\ e1 \in [Cluster -> Content]
          /\ e1[BOOT_SECTOR].is = "signature"
          /\ \A c \in Cluster \ {BOOT_SECTOR} : e1[c] = disk[c]
      BY <1>2, <2>2, <2>3 DEF Apply, WriteTo
    <2> HIDE DEF e1
    <2>5. /\ e2 \in [Cluster -> Content]
          /\ e2[FAT_CLUSTER_NUMBER] = [is |-> "fat", map |-> FormattedFat]
          /\ \A c \in Cluster \ {FAT_CLUSTER_NUMBER} : e2[c] = e1[c]
      BY <1>2, <2>2, <2>4 DEF Apply, WriteTo
    <2> HIDE DEF e2
    <2>6. /\ e3 \in [Cluster -> Content]
          /\ e3[ROOT_CLUSTER_NUMBER] = EmptyTable
          /\ \A c \in Cluster \ {ROOT_CLUSTER_NUMBER} : e3[c] = e2[c]
      BY <1>2, <2>2, <2>5 DEF Apply, WriteTo
    <2> HIDE DEF e3
    <2>7. e1[BOOT_SECTOR].is # "table" /\ e2[FAT_CLUSTER_NUMBER].is # "table"
      BY <2>4, <2>5
    <2> QED BY <1>2, <2>4, <2>5, <2>6, <2>7
  <1> HIDE DEF e1, e2, e3
  <1>8. /\ Final' \in [Cluster -> Content]
        /\ Final'[BOOT_SECTOR].is = "signature"
        /\ Final'[FAT_CLUSTER_NUMBER] = [is |-> "fat", map |-> FormattedFat]
        /\ Final'[ROOT_CLUSTER_NUMBER] = EmptyTable
    BY <1>14, <1>15
  <1>16. DisksTidy'
    <2>1. Tidy(disk) /\ disk[BOOT_SECTOR].is # "signature"
      BY DEF DiskInv, DisksTidy
    <2>2. HeadsDiffer(disk)
      BY <2>1 DEF Tidy
    <2>3. ASSUME NEW e \in {e1, e2, e3}
          PROVE  /\ Tidy(e) /\ HeadsDiffer(e)
                 /\ DirectoriesOn(e) = {ROOT_CLUSTER_NUMBER} /\ EntriesOn(e) = {}
                 /\ DirectoriesOn(disk) = {ROOT_CLUSTER_NUMBER} /\ EntriesOn(disk) = {}
      BY <1>15, <2>1, FormattingDisk
    <2>4. Follows(disk, e1) /\ Follows(e1, e2) /\ Follows(e2, e3)
      BY <2>2, <2>3, SameTree DEF Follows
    <2>5. 1..Len(todo)' = {1, 2, 3} /\ 1 - 1 = 0 /\ 2 - 1 = 1 /\ 3 - 1 = 2
      BY <1>5
    <2>6. disk' = disk
      OBVIOUS
    <2> QED BY <1>14, <2>1, <2>4, <2>5, <2>6 DEF DisksTidy
  <1>9. Sound(Final', {})
    BY <1>8, FreshDisk
  <1>10. DisksSound'
    <2>1. After(Len(todo))' = Final' /\ LostAfter(Len(todo))' = {}
      BY <1>5 DEF Final, LostAfter
    <2> QED BY <1>9, <2>1 DEF DisksSound, Restartable
  <1>11. (fat = MapOf(Final))'
    BY <1>8 DEF MapOf
  <1>12. \A h \in Handle : HandleOK(h)'
    BY <1>6 DEF HandleOK
  <1>13. op' # Idle /\ op'.kind = "format" /\ todo' # <<>>
    BY <1>5 DEF Idle
  <1> QED BY <1>7, <1>10, <1>11, <1>12, <1>13, <1>16 DEF DiskInv, PowerOn

(* A step that neither writes to the disk nor begins to. *)
LEMMA NothingToWrite ==
    ASSUME DiskInv, disk' = disk, todo' = <<>>
    PROVE  DisksTidy'
  <1>1. 1..Len(todo)' = {}
    OBVIOUS
  <1> QED BY <1>1 DEF DiskInv, DisksTidy

LEMMA BootStep ==
    ASSUME DiskInv, Boot
    PROVE  DiskInv'
  <1> USE DEF Boot
  <1>1. /\ TypeOK /\ op = Idle /\ todo = <<>> /\ \A h \in Handle : handle[h] = Closed
        /\ Sound(disk, lost)
    BY DEF DiskInv, PowerOff
  <1>2. MapOf(disk) \in MapType
    BY <1>1 DEF Sound, LinksSound, IsMap
  <1>3. TypeOK'
    BY <1>1, <1>2 DEF TypeOK, MapOf
  <1>4. Final' = disk /\ Len(todo') = 0
    BY <1>1 DEF Final, After, AfterOf
  <1>5. DisksSound'
    BY <1>1, <1>4 DEF DisksSound, Final, After, AfterOf, LostAfter
  <1>6. \A h \in Handle : HandleOK(h)'
    BY <1>1 DEF HandleOK
  <1>7. DisksTidy'
    BY <1>1, NothingToWrite
  <1> QED BY <1>1, <1>3, <1>4, <1>5, <1>6, <1>7 DEF DiskInv, PowerOn, MapOf, Idle

LEMMA WriteClustersStep ==
    ASSUME DiskInv, WriteClusters
    PROVE  DiskInv'
  <1>1. /\ todo # <<>> /\ todo' = Tail(todo) /\ disk' = Apply(disk, Head(todo))
        /\ op' = IF todo' = <<>> /\ op.kind # "write" THEN Idle ELSE op
        /\ power' = power /\ fat' = fat /\ handle' = handle /\ lost' = lost
    BY DEF WriteClusters, Apply
  <1>2. TypeOK /\ todo \in Seq(DiskWrite) /\ Len(todo) <= 3
    BY DEF DiskInv, TypeOK
  <1>3. PICK n \in Nat :
            /\ Head(todo) \in DiskWrite /\ Tail(todo) \in Seq(DiskWrite)
            /\ Len(Tail(todo)) = n /\ Len(todo) = n + 1 /\ (Tail(todo) = <<>> <=> n = 0)
    <2>1. Len(todo) \in Nat /\ Len(todo) # 0
      BY <1>1, <1>2, EmptySeq
    <2>2. Head(todo) \in DiskWrite /\ Tail(todo) \in Seq(DiskWrite)
          /\ Len(Tail(todo)) = Len(todo) - 1
      BY <1>1, <1>2, HeadTailProperties
    <2>3. Tail(todo) = <<>> <=> Len(Tail(todo)) = 0
      BY <2>2, EmptySeq
    <2>4. Len(todo) - 1 \in Nat /\ Len(todo) = (Len(todo) - 1) + 1
      BY <2>1
    <2> QED BY <2>2, <2>3, <2>4, Zenon
  <1>4. PowerOn /\ power = "on"
    BY <1>1, <1>2 DEF DiskInv, PowerOff, TypeOK
  <1>5. ASSUME NEW k \in 0..n
        PROVE  After(k)' = After(k + 1)
    <2>1. AfterOf(Apply(disk, Head(todo)), Tail(todo), k) = AfterOf(disk, todo, k + 1)
      BY <1>1, <1>2, <1>3, AfterShift
    <2> QED BY <1>1, <2>1 DEF After
  <1>6. Len(todo') = n
    BY <1>1, <1>3
  <1>7. TypeOK'
    <2>1. disk' \in [Cluster -> Content]
      BY <1>1, <1>2, <1>3 DEF TypeOK, DiskWrite, Apply
    <2>2. op' \in OpType
      BY <1>1, <1>2 DEF TypeOK, OpType
    <2>3. Len(todo') <= 3
      BY <1>2, <1>3, <1>6
    <2> QED BY <1>1, <1>2, <1>3, <2>1, <2>2, <2>3 DEF TypeOK
  <1>8. Final' = Final
    <2>1. n \in 0..n
      BY <1>3
    <2>2. Final' = After(n)'
      BY <1>6 DEF Final
    <2> QED BY <1>3, <1>5, <2>1, <2>2 DEF Final
  <1>9. ASSUME NEW k \in 0..n, k = n \/ op'.kind \in Restartable
        PROVE  Sound(After(k), LostAfter(k))'
    <2>1. k \in Nat /\ k + 1 \in 0..Len(todo) /\ n - k = Len(todo) - (k + 1)
      BY <1>3
    <2>2. k + 1 = Len(todo) \/ op.kind \in Restartable
      <3>1. CASE k = n
        BY <1>3, <3>1
      <3>2. CASE k # n
        <4>1. n # 0
          BY <1>3, <3>2
        <4> QED BY <1>1, <1>3, <1>9, <3>2, <4>1
      <3> QED BY <3>1, <3>2
    <2>3. Sound(After(k + 1), LostAfter(k + 1))
      BY <1>4, <2>1, <2>2 DEF PowerOn, DisksSound
    <2>4. LostAfter(k)' = LostAfter(k + 1)
      <3>1. CASE op' = op
        BY <1>1, <1>6, <2>1, <3>1 DEF LostAfter
      <3>2. CASE op' # op
        <4>1. n = 0 /\ op'.kind = "idle"
          BY <1>1, <1>3, <3>2 DEF Idle
        <4>2. k = 0
          BY <4>1
        <4>3. n - k = 0
          BY <4>1, <4>2
        <4>4. Len(todo) - (k + 1) = 0
          BY <2>1, <4>3
        <4> QED BY <1>1, <4>1, <4>4 DEF LostAfter
      <3> QED BY <3>1, <3>2
    <2> QED BY <1>5, <2>3, <2>4
  <1>10. DisksSound'
    BY <1>6, <1>9 DEF DisksSound
  <1>11. ASSUME NEW h \in Handle
         PROVE  HandleOK(h)'
    <2>1. HandleOK(h)
      BY <1>4 DEF PowerOn
    <2> QED BY <1>1, <1>8, <2>1 DEF HandleOK, EntryOf
  <1>12. /\ op'.kind = "write" =>
                /\ handle'[op'.handle].mode = "write"
                /\ handle'[op'.handle].progress_pointer + op'.left <= MaxSize
         /\ op'.kind # "write" => (op' = Idle <=> todo' = <<>>)
    BY <1>1, <1>4 DEF PowerOn, Idle
  <1>13. (fat = MapOf(Final))'
    BY <1>1, <1>4, <1>8 DEF PowerOn, MapOf
  <1>14. \A k \in 1..Len(todo) : Follows(After(k - 1), After(k))
    BY DEF DiskInv, DisksTidy
  <1>15. Tidy(disk)'
    <2>1. After(0)' = disk'
      BY DEF After, AfterOf
    <2>2. 0 \in 0..n /\ 0 + 1 = 1 /\ 1 \in 1..Len(todo)
      BY <1>3
    <2>3. disk' = After(1)
      BY <1>5, <2>1, <2>2
    <2> QED BY <1>14, <2>2, <2>3 DEF Follows
  <1>16. ASSUME NEW k \in 1..n
         PROVE  Follows(After(k - 1), After(k))'
    <2>1. /\ k - 1 \in 0..n /\ k \in 0..n /\ (k - 1) + 1 = k
          /\ k + 1 \in 1..Len(todo) /\ (k + 1) - 1 = k
      BY <1>3
    <2>2. After(k - 1)' = After(k) /\ After(k)' = After(k + 1)
      BY <1>5, <2>1
    <2>3. Follows(After(k), After(k + 1))
      BY <1>14, <2>1
    <2> QED BY <2>2, <2>3
  <1>17. DisksTidy'
    BY <1>6, <1>15, <1>16 DEF DisksTidy
  <1> QED BY <1>1, <1>4, <1>7, <1>10, <1>11, <1>12, <1>13, <1>17 DEF DiskInv, PowerOn

LEMMA CrashStep ==
    ASSUME DiskInv, Crash, CrashPoints \subseteq {"delete", "write", "update"}
    PROVE  DiskInv'
  <1> USE DEF Crash
  <1>1. TypeOK /\ DisksSound /\ Len(todo) \in Nat
    BY DEF DiskInv, PowerOn, TypeOK
  <1>2. op.kind \in Restartable
    <2>1. CASE op = Idle
      BY <2>1 DEF Restartable, Idle
    <2>2. CASE op.kind \in CrashPoints
      BY <2>2 DEF Restartable
    <2> QED BY <2>1, <2>2
  <1>3. 0 \in 0..Len(todo) /\ Len(todo) - 0 = Len(todo)
    BY <1>1
  <1>4. After(0) = disk /\ LostAfter(0) = lost'
    BY <1>3 DEF After, AfterOf, LostAfter
  <1>5. Sound(disk, lost')
    <2>1. \A k \in 0..Len(todo) : Sound(After(k), LostAfter(k))
      BY <1>1, <1>2 DEF DisksSound
    <2>2. Sound(After(0), LostAfter(0))
      BY <1>3, <2>1
    <2> QED BY <1>4, <2>2
  <1>6. TypeOK'
    <2>1. lost' \subseteq Cluster
      BY <1>5 DEF Sound, LinksSound, Used
    <2>2. fat' \in MapType
      BY Fat32Assumption DEF MapType, FAT32_FAT_EMPTY_ENTRY
    <2> QED BY <1>1, <2>1, <2>2 DEF TypeOK, OpType
  <1>7. \A h \in Handle : handle'[h] = Closed
    OBVIOUS
  <1>8. power' = "off" /\ op' = Idle /\ todo' = <<>> /\ disk' = disk
    OBVIOUS
  <1>9. disk[BOOT_SECTOR].is = "signature"
    BY <1>5 DEF Sound, TablesSound
  <1>10. DisksTidy'
    BY <1>8, NothingToWrite
  <1> QED BY <1>5, <1>6, <1>7, <1>8, <1>9, <1>10 DEF DiskInv, PowerOff

-----------------------------------------------------------------------------
(* The definitions of Fat32 are those of a disk, of the disk there is. *)
LEMMA Views ==
    /\ \A p : EntryAt(p) = EntryOn(disk, p)
    /\ \A d : \A p : p \in EntriesOf(d) <=> p \in {d} \X Slot /\ HasEntry(disk, p)
    /\ Directories = DirectoriesOn(disk)
    /\ Entries = EntriesOn(disk)
  <1>1. \A p : EntryAt(p) = EntryOn(disk, p)
    BY DEF EntryAt, EntryOn
  <1>2. \A d : \A p : p \in EntriesOf(d) <=> p \in {d} \X Slot /\ HasEntry(disk, p)
    BY <1>1 DEF EntriesOf, HasEntry, IsTable
  <1>3. Directories = DirectoriesOn(disk)
    <2> DEFINE D == {q \in EntriesOf(ROOT_CLUSTER_NUMBER) : EntryAt(q).kind = "dir"}
               E == {q \in {ROOT_CLUSTER_NUMBER} \X Slot :
                         HasEntry(disk, q) /\ EntryOn(disk, q).kind = "dir"}
    <2>1. D = E
      BY <1>1, <1>2
    <2>2. {EntryAt(p).cluster : p \in D} = {EntryOn(disk, p).cluster : p \in E}
      <3> HIDE DEF D, E
      <3> QED BY <1>1, <2>1
    <2> QED BY <2>2 DEF Directories, SubdirectoriesOf, DirectoriesOn, SubdirectoriesOn
  <1>4. Entries = EntriesOn(disk)
    <2>1. ASSUME NEW p
          PROVE  p \in Entries <=> \E d \in DirectoriesOn(disk) : p \in EntriesOf(d)
      BY <1>3 DEF Entries
    <2>2. ASSUME NEW p
          PROVE  p \in EntriesOn(disk) <=> \E d \in DirectoriesOn(disk) : p \in {d} \X Slot /\ HasEntry(disk, p)
      BY DEF EntriesOn
    <2> QED BY <1>2, <2>1, <2>2
  <1> QED BY <1>1, <1>2, <1>3, <1>4

LEMMA MkStep ==
    ASSUME DiskInv, NEW d \in Directories, NEW n \in Name, NEW kind \in {"file", "dir"},
           kind = "dir" => d = ROOT_CLUSTER_NUMBER,
           MkGeneral(d, n, kind)
    PROVE  DiskInv'
  <1>1. /\ power = "on" /\ op = Idle
        /\ power' = power /\ disk' = disk /\ handle' = handle /\ lost' = lost
        /\ op' = [kind |-> "mk"] /\ op' # Idle
    <2>1. op' = [kind |-> "mk"]
      BY Zenon DEF MkGeneral
    <2>2. op'.kind # Idle.kind
      BY <2>1 DEF Idle
    <2> QED BY <2>1, <2>2, Zenon DEF MkGeneral, Ready
  <1>2. PICK s \in Slot, c \in Cluster :
           /\ disk[d].entry[s] = NoEntry
           /\ fat[c] = FAT32_FAT_EMPTY_ENTRY
           /\ fat' = [fat EXCEPT ![c] = FAT32_FAT_END_OF_FILE]
           /\ LET entry == [kind |-> kind, name |-> n, cluster |-> c, filesize |-> 0]
                  table == Table([disk[d].entry EXCEPT ![s] = entry])
              IN  todo' = << WriteTo(d, table),
                             WriteTo(FAT_CLUSTER_NUMBER, [is |-> "fat", map |-> fat']) >>
                          \o IF kind = "dir" THEN << WriteTo(c, EmptyTable) >> ELSE <<>>
    BY Zenon DEF MkGeneral, IsFirstFree
  <1> DEFINE new == [kind |-> kind, name |-> n, cluster |-> c, filesize |-> 0]
             w1 == WriteTo(d, Table([disk[d].entry EXCEPT ![s] = new]))
             w2 == WriteTo(FAT_CLUSTER_NUMBER, [is |-> "fat", map |-> fat'])
             w3 == WriteTo(c, EmptyTable)
             e1 == Apply(disk, w1)
             e2 == Apply(e1, w2)
             e3 == Apply(e2, w3)
             e == IF kind = "dir" THEN e3 ELSE e2
  <1>3. /\ TypeOK /\ todo = <<>>
    BY <1>1 DEF DiskInv, PowerOn, Idle
  <1>4. /\ Sound(disk, lost) /\ Final = disk /\ fat = MapOf(disk)
        /\ LinksSound(fat, Heads(disk), lost) /\ \A h \in Handle : HandleOK(h)
    BY <1>1, <1>3, AtRest
  <1>5. /\ d \in DirectoriesOn(disk) /\ d \in Cluster /\ d # BOOT_SECTOR /\ d # FAT_CLUSTER_NUMBER
        /\ disk[d].is = "table" /\ disk \in [Cluster -> Content] /\ TablesSound(disk)
        /\ DirectoriesOn(disk) \subseteq Cluster /\ FAT_CLUSTER_NUMBER \notin DirectoriesOn(disk)
    BY <1>4, Views, SoundTables DEF Sound, TablesSound
  <1>6. /\ c > ROOT_CLUSTER_NUMBER /\ c \notin Used(fat)
    BY <1>2, <1>4, FreeCluster DEF LinksSound
  <1>7. c \notin Heads(disk) /\ c \notin DirectoriesOn(disk)
    BY <1>4, <1>6, SoundTables DEF ROOT_CLUSTER_NUMBER
  <1>8. /\ BOOT_SECTOR \in Cluster /\ FAT_CLUSTER_NUMBER \in Cluster
        /\ BOOT_SECTOR # FAT_CLUSTER_NUMBER /\ c # BOOT_SECTOR /\ c # FAT_CLUSTER_NUMBER
    BY <1>6, Fat32Assumption DEF BOOT_SECTOR, FAT_CLUSTER_NUMBER, ROOT_CLUSTER_NUMBER, Cluster
  <1>9. /\ LinksSound(fat', Heads(disk) \cup {c}, lost)
        /\ \A h \in Heads(disk) : Keeps(fat, fat', h)
    BY <1>2, <1>4, NewHead
  <1>10. fat' \in MapType
    BY <1>9 DEF LinksSound, IsMap
  <1>11. /\ new \in EntryType /\ new.cluster = c /\ new.kind = kind /\ new.filesize = 0
         /\ new.name \in Name
    BY Fat32Assumption DEF EntryType
  <1>12. disk[d].entry \in [Slot -> EntryType \cup {NoEntry}]
    BY <1>5, TableContent
  <1> HIDE DEF new
  <1>13. /\ [disk[d].entry EXCEPT ![s] = new] \in [Slot -> EntryType \cup {NoEntry}]
         /\ EmptyTable \in Content
    BY <1>11, <1>12 DEF EmptyTable, Table, Content
  <1>14. w1 \in DiskWrite /\ w2 \in DiskWrite /\ w3 \in DiskWrite
    BY <1>5, <1>8, <1>10, <1>13 DEF DiskWrite, WriteTo, Content, Table
  <1>15. /\ todo' = IF kind = "dir" THEN <<w1, w2, w3>> ELSE <<w1, w2>>
         /\ todo' \in Seq(DiskWrite)
         /\ Len(todo') = IF kind = "dir" THEN 3 ELSE 2
    <2>1. todo' = <<w1, w2>> \o IF kind = "dir" THEN <<w3>> ELSE <<>>
      BY <1>2 DEF new
    <2> HIDE DEF w1, w2, w3
    <2>2. CASE kind = "dir"
      <3>1. todo' = <<w1, w2>> \o <<w3>>
        BY <2>1, <2>2
      <3>2. todo' = <<w1, w2, w3>>
        BY <1>14, <3>1, ShortSequences
      <3> QED BY <1>14, <2>2, <3>2
    <2>3. CASE kind = "file"
      <3>1. todo' = <<w1, w2>>
        BY <2>1, <2>3
      <3> QED BY <1>14, <2>3, <3>1
    <2> QED BY <2>2, <2>3
  <1>16. /\ Final' = e
         /\ After(0)' = disk /\ After(1)' = e1 /\ After(2)' = e2
         /\ kind = "dir" => After(3)' = e3
    <2> HIDE DEF w1, w2, w3
    <2> QED BY <1>1, <1>15 DEF Final, After, AfterOf
  <1>26. c # d
    BY <1>5, <1>7
  <1>27. /\ e1 \in [Cluster -> Content]
         /\ e1[d] = Table([disk[d].entry EXCEPT ![s] = new])
         /\ \A x \in Cluster \ {d} : e1[x] = disk[x]
    <2>1. w1.content \in Content
      BY <1>14 DEF DiskWrite
    <2> QED BY <1>5, <2>1 DEF Apply, WriteTo
  <1> HIDE DEF e1
  <1>28. /\ e2 \in [Cluster -> Content]
         /\ e2[FAT_CLUSTER_NUMBER] = [is |-> "fat", map |-> fat']
         /\ \A x \in Cluster \ {FAT_CLUSTER_NUMBER} : e2[x] = e1[x]
    <2>1. w2.content \in Content
      BY <1>14 DEF DiskWrite
    <2> QED BY <1>8, <1>27, <2>1 DEF Apply, WriteTo
  <1> HIDE DEF e2
  <1>29. /\ e3 \in [Cluster -> Content]
         /\ e3[c] = EmptyTable
         /\ \A x \in Cluster \ {c} : e3[x] = e2[x]
    <2>1. w3.content \in Content
      BY <1>14 DEF DiskWrite
    <2> QED BY <1>28, <2>1 DEF Apply, WriteTo
  <1> HIDE DEF e3
  <1>17. /\ e \in [Cluster -> Content]
         /\ e[FAT_CLUSTER_NUMBER] = [is |-> "fat", map |-> fat']
         /\ e[d] = Table([disk[d].entry EXCEPT ![s] = new])
         /\ kind = "dir" => e[c] = EmptyTable
         /\ \A x \in Cluster \ {c, d, FAT_CLUSTER_NUMBER} : e[x] = disk[x]
    BY <1>5, <1>8, <1>26, <1>27, <1>28, <1>29
  <1>30. ASSUME NEW g \in {e1, e2, e}
         PROVE  /\ g \in [Cluster -> Content]
                /\ g[BOOT_SECTOR].is = "signature" /\ g[FAT_CLUSTER_NUMBER].is = "fat"
                /\ g[d] = Table([disk[d].entry EXCEPT ![s] = new])
                /\ g[c] = disk[c] \/ (kind = "dir" /\ g[c] = EmptyTable)
                /\ \A x \in Cluster \ {c, d, FAT_CLUSTER_NUMBER} : g[x] = disk[x]
    <2>1. disk[BOOT_SECTOR].is = "signature" /\ disk[FAT_CLUSTER_NUMBER].is = "fat"
      BY <1>5 DEF TablesSound
    <2>2. CASE g = e1
      BY <1>5, <1>8, <1>26, <1>27, <2>1, <2>2
    <2>3. CASE g = e2
      BY <1>5, <1>8, <1>26, <1>27, <1>28, <2>1, <2>3
    <2>4. CASE g = e
      BY <1>5, <1>8, <1>26, <1>27, <1>28, <1>29, <2>1, <2>4
    <2> QED BY <2>2, <2>3, <2>4
  <1> HIDE DEF e
  <1>18. MapOf(e) = fat' /\ (kind = "dir" => e[c].is = "table")
    BY <1>17 DEF MapOf, EmptyTable, Table
  <1>31. Tidy(disk)
    BY DEF DiskInv, DisksTidy
  <1>32. kind = "dir" => d = ROOT_CLUSTER_NUMBER
    OBVIOUS
  <1>19. ASSUME NEW g \in {e1, e2, e}
         PROVE  /\ (kind = "dir" => g[c].is = "table") => TablesSound(g)
                /\ HeadsDiffer(g)
                /\ DirectoriesOn(g) = DirectoriesOn(disk) \cup (IF kind = "dir" THEN {c} ELSE {})
                /\ <<d, s>> \notin EntriesOn(disk)
                /\ EntriesOn(g) = EntriesOn(disk) \cup {<<d, s>>}
                /\ \A p \in EntriesOn(disk) : EntryOn(g, p) = EntryOn(disk, p)
                /\ EntryOn(g, <<d, s>>) = new
                /\ Heads(g) = Heads(disk) \cup {c}
    <2>1. \A x \in DirectoriesOn(disk) \ {d} : g[x] = disk[x]
      BY <1>5, <1>7, <1>30
    <2>2. g[c].is = "table" => \A t \in Slot : g[c].entry[t] = NoEntry
      BY <1>7, <1>30, <1>31 DEF Tidy, EmptyTable, Table
    <2>3. /\ new.kind = "dir" => /\ d = ROOT_CLUSTER_NUMBER
                                 /\ g[new.cluster].is = "table" =>
                                        \A t \in Slot : g[new.cluster].entry[t] = NoEntry
          /\ new \in EntryType /\ new.cluster \notin Heads(disk)
          /\ new.cluster \notin DirectoriesOn(disk)
      BY <1>7, <1>11, <1>32, <2>2
    <2>4. /\ (new.kind = "dir" => g[new.cluster].is = "table") => TablesSound(g)
          /\ HeadsDiffer(g)
          /\ DirectoriesOn(g) = DirectoriesOn(disk)
                                    \cup (IF new.kind = "dir" THEN {new.cluster} ELSE {})
          /\ <<d, s>> \notin EntriesOn(disk)
          /\ EntriesOn(g) = EntriesOn(disk) \cup {<<d, s>>}
          /\ \A p \in EntriesOn(disk) : EntryOn(g, p) = EntryOn(disk, p)
          /\ EntryOn(g, <<d, s>>) = new
          /\ Heads(g) = Heads(disk) \cup {new.cluster}
      <3>1. /\ TablesSound(disk) /\ d \in DirectoriesOn(disk) /\ d \in Cluster
            /\ disk[d].entry[s] = NoEntry
            /\ g \in [Cluster -> Content]
            /\ g[BOOT_SECTOR].is = "signature" /\ g[FAT_CLUSTER_NUMBER].is = "fat"
            /\ g[d] = Table([disk[d].entry EXCEPT ![s] = new])
        BY <1>2, <1>5, <1>30
      <3> QED BY <2>1, <2>3, <3>1, OneMoreEntry
    <2> QED BY <1>11, <2>4
  <1>20. /\ TablesSound(e)
         /\ EntriesOn(e) = EntriesOn(disk) \cup {<<d, s>>}
         /\ \A p \in EntriesOn(disk) : EntryOn(e, p) = EntryOn(disk, p)
         /\ EntryOn(e, <<d, s>>) = new
         /\ Heads(e) = Heads(disk) \cup {c}
    BY <1>18, <1>19
  <1>33. ASSUME NEW g \in {e1, e2, e}
         PROVE  Tidy(g)
    <2>1. ASSUME NEW x \in Cluster \ DirectoriesOn(g)
          PROVE  g[x].is # "table" \/ (g[x] = disk[x] /\ x \notin DirectoriesOn(disk))
      <3>1. x \notin DirectoriesOn(disk) /\ x # d /\ (kind = "dir" => x # c)
        BY <1>5, <1>19
      <3> QED BY <1>30, <3>1
    <2> QED BY <1>19, <1>30, <1>31, <2>1, StillTidy
  <1>34. TreeStep(disk, e1)
    <2>1. HeadsDiffer(disk)
      BY <1>31 DEF Tidy
    <2> QED BY <1>5, <1>11, <1>19, <1>32, <2>1, MoreTree
  <1>35. ASSUME NEW f \in {e1, e2, e}, NEW g \in {e1, e2, e}
         PROVE  TreeStep(f, g)
    <2>1. \A p \in EntriesOn(f) : EntryOn(g, p) = EntryOn(f, p)
      BY <1>19
    <2> QED BY <1>19, <2>1, SameTree
  <1>36. DisksTidy'
    <2>1. Follows(disk, e1) /\ Follows(e1, e2) /\ Follows(e2, e)
      BY <1>33, <1>34, <1>35 DEF Follows
    <2>2. 1 - 1 = 0 /\ 2 - 1 = 1 /\ 3 - 1 = 2
      OBVIOUS
    <2>3. kind = "dir" => After(3)' = e
      BY <1>16 DEF e
    <2>4. /\ kind = "dir" => 1..Len(todo)' = {1, 2, 3}
          /\ kind = "file" => 1..Len(todo)' = {1, 2} /\ e = e2
      BY <1>15 DEF e
    <2>6. ASSUME NEW k \in 1..Len(todo)'
          PROVE  Follows(After(k - 1), After(k))'
      <3>1. CASE kind = "dir"
        BY <1>16, <2>1, <2>2, <2>3, <2>4, <3>1
      <3>2. CASE kind = "file"
        BY <1>16, <2>1, <2>2, <2>4, <3>2
      <3> QED BY <3>1, <3>2
    <2>5. \A k \in 1..Len(todo)' : Follows(After(k - 1), After(k))'
      BY <2>6
    <2> QED BY <1>1, <1>31, <2>5 DEF DisksTidy
  <1>21. Sound(e, lost)
    <2>1. ASSUME NEW p \in EntriesOn(e)
          PROVE  Covers(fat', Head0(e, p), EntryOn(e, p).filesize)
      <3>1. CASE p = <<d, s>>
        BY <1>11, <1>20, <3>1, CoversNothing
      <3>2. CASE p # <<d, s>>
        <4>1. p \in EntriesOn(disk) /\ EntryOn(e, p) = EntryOn(disk, p)
          BY <1>20, <3>2
        <4>2. Head0(e, p) = Head0(disk, p) /\ Head0(disk, p) \in Heads(disk)
          BY <4>1 DEF Head0, Heads
        <4>3. Covers(fat, Head0(disk, p), EntryOn(disk, p).filesize)
          BY <1>4, <4>1 DEF Sound, SizesCovered
        <4> QED BY <1>9, <4>1, <4>2, <4>3, KeepsCovers
      <3> QED BY <3>1, <3>2
    <2> QED BY <1>9, <1>18, <1>20, <2>1 DEF Sound, SizesCovered
  <1>22. DisksSound'
    <2>1. After(Len(todo))' = Final' /\ LostAfter(Len(todo))' = lost
      BY <1>1 DEF Final, LostAfter
    <2> QED BY <1>1, <1>16, <1>21, <2>1 DEF DisksSound, Restartable
  <1>23. ASSUME NEW h \in Handle
         PROVE  HandleOK(h)'
    <2>1. HandleOK(h) /\ handle'[h] = handle[h]
      BY <1>1, <1>4
    <2>2. ASSUME handle[h] # Closed
          PROVE  /\ EntryOf(h) \in EntriesOn(Final')
                 /\ Head0(Final', EntryOf(h)) = Head0(Final, EntryOf(h))
                 /\ EntryOn(Final', EntryOf(h)).kind = EntryOn(Final, EntryOf(h)).kind
                 /\ Head0(Final, EntryOf(h)) \in Cluster
                 /\ Keeps(fat, fat', Head0(Final, EntryOf(h)))
      <3>1. EntryOf(h) \in EntriesOn(disk)
        BY <1>4, <2>1, <2>2 DEF HandleOK
      <3>2. Head0(disk, EntryOf(h)) \in Heads(disk) /\ Heads(disk) \subseteq Cluster
        BY <1>4, <3>1, SoundTables DEF Heads
      <3> QED BY <1>4, <1>9, <1>16, <1>20, <3>1, <3>2 DEF Head0
    <2> QED BY <2>1, <2>2, SameHandle
  <1>24. TypeOK'
    BY <1>1, <1>3, <1>10, <1>15 DEF TypeOK, OpType
  <1>25. todo' # <<>>
    BY <1>15
  <1> QED BY <1>1, <1>16, <1>18, <1>22, <1>23, <1>24, <1>25, <1>36 DEF DiskInv, PowerOn, MapOf

(***************************************************************************)
(* delete_vfs: when the entry is cleared its clusters are lost, until the  *)
(* table that frees them is written.                                       *)
(***************************************************************************)
LEMMA DeleteStep ==
    ASSUME DiskInv, DeleteOpen = FALSE, NEW d \in Directories, NEW n \in Name, Delete(d, n)
    PROVE  DiskInv'
  <1>1. /\ power = "on" /\ op = Idle
        /\ power' = power /\ disk' = disk /\ handle' = handle /\ lost' = lost
    BY DEF Delete, Ready
  <1>2. PICK p \in EntriesOf(d) :
           /\ ~IsOpen(p)
           /\ \/ EntryAt(p).kind = "file"
              \/ EntriesOf(EntryAt(p).cluster) = {}
           /\ fat' = [c \in Cluster |-> IF c \in ChainOf(fat, p)
                                        THEN FAT32_FAT_EMPTY_ENTRY ELSE fat[c]]
           /\ op' = [kind |-> "delete", freed |-> ChainOf(fat, p)]
           /\ todo' = << WriteTo(d, Table([disk[d].entry EXCEPT ![p[2]] = NoEntry])),
                         WriteTo(FAT_CLUSTER_NUMBER, [is |-> "fat", map |-> fat']) >>
    BY Zenon DEF Delete
  <1>3. PICK s \in Slot : p = <<d, s>>
    BY <1>2, Views
  <1> DEFINE head == disk[d].entry[s].cluster
             C == Chain(fat, head)
             w1 == WriteTo(d, Table([disk[d].entry EXCEPT ![s] = NoEntry]))
             w2 == WriteTo(FAT_CLUSTER_NUMBER, [is |-> "fat", map |-> fat'])
             e1 == Apply(disk, w1)
             e2 == Apply(e1, w2)
  <1>4. TypeOK /\ todo = <<>>
    BY <1>1 DEF DiskInv, PowerOn, Idle
  <1>5. /\ Sound(disk, lost) /\ Final = disk /\ fat = MapOf(disk)
        /\ LinksSound(fat, Heads(disk), lost) /\ \A h \in Handle : HandleOK(h)
    BY <1>1, <1>4, AtRest
  <1>6. /\ <<d, s>> \in EntriesOn(disk)
        /\ EntryAt(p) = disk[d].entry[s] /\ Head0(disk, <<d, s>>) = head
        /\ ChainOf(fat, p) = C
    <2>1. HasEntry(disk, <<d, s>>) /\ d \in DirectoriesOn(disk)
      BY <1>2, <1>3, Views
    <2>2. EntryAt(p) = disk[d].entry[s]
      BY <1>3 DEF EntryAt
    <2>3. Head0(disk, <<d, s>>) = head
      BY Unfold
    <2> QED BY <2>1, <2>2, <2>3 DEF EntriesOn, ChainOf
  <1>7. /\ d \in DirectoriesOn(disk) /\ d \in Cluster /\ d # BOOT_SECTOR /\ d # FAT_CLUSTER_NUMBER
        /\ disk[d].is = "table" /\ disk \in [Cluster -> Content] /\ TablesSound(disk)
        /\ DirectoriesOn(disk) \subseteq Cluster /\ FAT_CLUSTER_NUMBER \notin DirectoriesOn(disk)
        /\ ROOT_CLUSTER_NUMBER \notin Heads(disk)
    BY <1>5, Views, SoundTables DEF Sound, TablesSound
  <1>8. /\ BOOT_SECTOR \in Cluster /\ FAT_CLUSTER_NUMBER \in Cluster
        /\ BOOT_SECTOR # FAT_CLUSTER_NUMBER
    BY Fat32Assumption DEF BOOT_SECTOR, FAT_CLUSTER_NUMBER, Cluster
  <1>9. head \in Heads(disk)
    BY <1>6 DEF Heads
  <1>10. LinksSound(fat, Heads(disk) \ {head}, lost \cup C)
    BY <1>5, <1>9, LoseHead
  <1>11. /\ LinksSound(fat', Heads(disk) \ {head}, lost)
         /\ \A g \in Heads(disk) \ {head} : Keeps(fat, fat', g)
    BY <1>2, <1>5, <1>6, <1>9, FreeChain
  <1>12. fat' \in MapType /\ C \subseteq Cluster
    BY <1>10, <1>11 DEF LinksSound, IsMap, Used
  <1>13. disk[d].entry \in [Slot -> EntryType \cup {NoEntry}]
    BY <1>7, TableContent
  <1>14. w1 \in DiskWrite /\ w2 \in DiskWrite
    <2>1. [disk[d].entry EXCEPT ![s] = NoEntry] \in [Slot -> EntryType \cup {NoEntry}]
      BY <1>13
    <2> QED BY <1>7, <1>8, <1>12, <2>1 DEF DiskWrite, WriteTo, Content, Table
  <1>15. todo' = <<w1, w2>> /\ todo' \in Seq(DiskWrite) /\ Len(todo') = 2 /\ todo' # <<>>
    <2>1. todo' = <<w1, w2>>
      BY <1>2, <1>3
    <2> HIDE DEF w1, w2
    <2> QED BY <1>14, <2>1
  <1>16. After(0)' = disk /\ After(1)' = e1 /\ After(2)' = e2 /\ Final' = e2
    <2> HIDE DEF w1, w2
    <2> QED BY <1>1, <1>15 DEF Final, After, AfterOf
  <1>17. /\ e1 \in [Cluster -> Content]
         /\ e1[d] = Table([disk[d].entry EXCEPT ![s] = NoEntry])
         /\ \A x \in Cluster \ {d} : e1[x] = disk[x]
    <2>1. w1.content \in Content
      BY <1>14 DEF DiskWrite
    <2> QED BY <1>7, <2>1 DEF Apply, WriteTo
  <1>18. /\ e2 \in [Cluster -> Content]
         /\ e2[FAT_CLUSTER_NUMBER] = [is |-> "fat", map |-> fat']
         /\ \A x \in Cluster \ {FAT_CLUSTER_NUMBER} : e2[x] = e1[x]
    <2>1. w2.content \in Content
      BY <1>14 DEF DiskWrite
    <2> HIDE DEF e1
    <2> QED BY <1>8, <1>17, <2>1 DEF Apply, WriteTo
  <1> HIDE DEF e1, e2, w1, w2
  <1>19. \A x \in DirectoriesOn(disk) \ {d} : e1[x] = disk[x] /\ e2[x] = disk[x]
    BY <1>7, <1>17, <1>18
  <1>20. disk[d].entry[s].kind = "dir" => \A q \in EntriesOn(disk) : q[1] # head
    <2> SUFFICES ASSUME disk[d].entry[s].kind = "dir", NEW q \in EntriesOn(disk), q[1] = head
                 PROVE  FALSE
      OBVIOUS
    <2>1. EntriesOf(head) = {}
      BY <1>2, <1>6
    <2>2. q \in {head} \X Slot /\ HasEntry(disk, q)
      BY DEF EntriesOn
    <2> QED BY <2>1, <2>2, Views
  <1>21. /\ e1[BOOT_SECTOR].is = "signature" /\ e1[FAT_CLUSTER_NUMBER].is = "fat" /\ MapOf(e1) = fat
         /\ e2[BOOT_SECTOR].is = "signature" /\ e2[FAT_CLUSTER_NUMBER].is = "fat" /\ MapOf(e2) = fat'
         /\ e2[d] = Table([disk[d].entry EXCEPT ![s] = NoEntry])
    BY <1>5, <1>7, <1>8, <1>17, <1>18 DEF MapOf, TablesSound
  <1>22. /\ TablesSound(e1) /\ Heads(e1) = Heads(disk) \ {head}
         /\ DirectoriesOn(e1) = DirectoriesOn(disk)
                                   \ (IF disk[d].entry[s].kind = "dir" THEN {head} ELSE {})
         /\ EntriesOn(e1) = EntriesOn(disk) \ {<<d, s>>}
         /\ \A q \in EntriesOn(e1) : EntryOn(e1, q) = EntryOn(disk, q)
    BY <1>6, <1>7, <1>17, <1>19, <1>20, <1>21, OneLessEntry
  <1>23. /\ TablesSound(e2) /\ Heads(e2) = Heads(disk) \ {head}
         /\ DirectoriesOn(e2) = DirectoriesOn(disk)
                                   \ (IF disk[d].entry[s].kind = "dir" THEN {head} ELSE {})
         /\ EntriesOn(e2) = EntriesOn(disk) \ {<<d, s>>}
         /\ \A q \in EntriesOn(e2) : EntryOn(e2, q) = EntryOn(disk, q)
    BY <1>6, <1>7, <1>18, <1>19, <1>20, <1>21, OneLessEntry
  <1>24. Sound(e1, lost \cup C) /\ Sound(e2, lost)
    <2>1. ASSUME NEW q \in EntriesOn(disk)
          PROVE  Covers(fat, Head0(disk, q), EntryOn(disk, q).filesize)
      BY <1>5 DEF Sound, SizesCovered
    <2>2. SizesCovered(e1)
      BY <1>21, <1>22, <2>1 DEF SizesCovered, Head0
    <2>3. ASSUME NEW q \in EntriesOn(e2)
          PROVE  Covers(fat', Head0(e2, q), EntryOn(e2, q).filesize)
      <3>1. /\ q \in EntriesOn(disk) /\ EntryOn(e2, q) = EntryOn(disk, q)
            /\ Head0(e2, q) = Head0(disk, q) /\ Head0(e2, q) \in Heads(disk) \ {head}
        BY <1>23 DEF Head0, Heads
      <3> QED BY <1>11, <2>1, <3>1, KeepsCovers
    <2>4. SizesCovered(e2)
      BY <1>21, <2>3 DEF SizesCovered
    <2> QED BY <1>10, <1>11, <1>21, <1>22, <1>23, <2>2, <2>4 DEF Sound
  <1>25. op' = [kind |-> "delete", freed |-> C] /\ op'.kind = "delete" /\ op'.freed = C /\ op' # Idle
    <2>1. op' = [kind |-> "delete", freed |-> C]
      BY <1>2, <1>6
    <2>2. op'.kind # Idle.kind
      BY <2>1 DEF Idle
    <2> QED BY <2>1, <2>2
  <1>26. DisksSound'
    <2>1. LostAfter(0)' = lost /\ LostAfter(1)' = lost \cup C /\ LostAfter(2)' = lost
      BY <1>1, <1>15, <1>25 DEF LostAfter
    <2>2. Sound(After(0), LostAfter(0))' /\ Sound(After(1), LostAfter(1))' /\ Sound(After(2), LostAfter(2))'
      BY <1>5, <1>16, <1>24, <2>1
    <2>3. 0..Len(todo)' = {0, 1, 2}
      BY <1>15
    <2> QED BY <2>2, <2>3 DEF DisksSound
  <1>27. ASSUME NEW h \in Handle
         PROVE  HandleOK(h)'
    <2>1. HandleOK(h) /\ handle'[h] = handle[h]
      BY <1>1, <1>5
    <2>2. ASSUME handle[h] # Closed
          PROVE  /\ EntryOf(h) \in EntriesOn(Final')
                 /\ Head0(Final', EntryOf(h)) = Head0(Final, EntryOf(h))
                 /\ EntryOn(Final', EntryOf(h)).kind = EntryOn(Final, EntryOf(h)).kind
                 /\ Head0(Final, EntryOf(h)) \in Cluster
                 /\ Keeps(fat, fat', Head0(Final, EntryOf(h)))
      <3>1. EntryOf(h) \in EntriesOn(disk)
        BY <1>5, <2>1, <2>2 DEF HandleOK
      <3>2. EntryOf(h) # <<d, s>>
        BY <1>2, <1>3, <2>2 DEF IsOpen, EntryOf
      <3>3. EntryOf(h) \in EntriesOn(e2)
        BY <1>23, <3>1, <3>2
      <3>4. /\ Head0(disk, EntryOf(h)) \in Heads(disk) \ {head}
            /\ Heads(disk) \subseteq Cluster
        BY <1>5, <1>6, <1>7, <3>1, <3>2, SoundTables DEF Heads, TablesSound
      <3> QED BY <1>5, <1>11, <1>16, <1>23, <3>3, <3>4 DEF Head0
    <2> QED BY <2>1, <2>2, SameHandle
  <1>28. TypeOK'
    <2>1. op' \in OpType
      BY <1>12, <1>25 DEF OpType
    <2> QED BY <1>1, <1>4, <1>12, <1>15, <2>1 DEF TypeOK
  <1>29. Tidy(disk) /\ HeadsDiffer(disk) /\ HeadsDiffer(e1) /\ HeadsDiffer(e2)
    BY <1>22, <1>23 DEF DiskInv, DisksTidy, Tidy, TablesSound, HeadsDiffer
  <1>30. ASSUME disk[d].entry[s].kind = "dir", head # d, disk[head].is = "table"
         PROVE  \A t \in Slot : disk[head].entry[t] = NoEntry
    <2>1. EntriesOf(head) = {}
      BY <1>2, <1>6, <1>30
    <2>2. ASSUME NEW t \in Slot, disk[head].entry[t] # NoEntry
          PROVE  FALSE
      <3>1. <<head, t>> \in {head} \X Slot /\ HasEntry(disk, <<head, t>>)
        BY <1>30, <2>2 DEF HasEntry, EntryOn
      <3> QED BY <2>1, <3>1, Views
    <2> QED BY <2>2
  <1>31. disk[d].entry[s].kind = "dir" => d = ROOT_CLUSTER_NUMBER /\ head # d
    <2>1. EntryOn(disk, <<d, s>>) = disk[d].entry[s]
      BY Unfold
    <2> QED BY <1>6, <1>7, <1>9, <2>1 DEF TablesSound
  <1>32. ASSUME NEW g \in {e1, e2}
         PROVE  Tidy(g)
    <2>1. ASSUME NEW x \in Cluster \ DirectoriesOn(g)
          PROVE  \/ g[x].is # "table"
                 \/ g[x] = disk[x] /\ x \notin DirectoriesOn(disk)
                 \/ \A t \in Slot : g[x].entry[t] = NoEntry
      <3>1. CASE x \in DirectoriesOn(disk)
        <4>1. disk[d].entry[s].kind = "dir" /\ x = head
          BY <1>22, <1>23, <3>1
        <4>2. g[x] = disk[x] /\ x # d
          BY <1>19, <1>31, <3>1, <4>1
        <4> QED BY <1>30, <4>1, <4>2
      <3>2. CASE x \notin DirectoriesOn(disk)
        <4>1. x # d /\ (g[x] = disk[x] \/ x = FAT_CLUSTER_NUMBER)
          BY <1>7, <1>17, <1>18, <3>2
        <4> QED BY <1>21, <3>2, <4>1
      <3> QED BY <3>1, <3>2
    <2>2. HeadsDiffer(g) /\ g[BOOT_SECTOR].is = "signature"
      BY <1>21, <1>29
    <2> HIDE DEF head
    <2> QED BY <1>29, <2>1, <2>2, StillTidy
  <1>33. TreeStep(disk, e1)
    <2>1. EntryOn(disk, <<d, s>>) = disk[d].entry[s]
      BY Unfold
    <2>2. DirectoriesOn(e1) \subseteq DirectoriesOn(disk)
      BY <1>22
    <2>3. EntryOn(disk, <<d, s>>).kind = "dir" =>
              /\ d = ROOT_CLUSTER_NUMBER
              /\ \A q \in EntriesOn(disk) : q[1] # Head0(disk, <<d, s>>)
      BY <1>6, <1>20, <1>31, <2>1
    <2> HIDE DEF head
    <2> QED BY <1>6, <1>22, <1>29, <2>2, <2>3, LessTree
  <1>34. TreeStep(e1, e2)
    <2>1. \A q \in EntriesOn(e1) : EntryOn(e2, q) = EntryOn(e1, q)
      BY <1>22, <1>23
    <2> QED BY <1>22, <1>23, <1>29, <2>1, SameTree
  <1>35. DisksTidy'
    <2>1. Follows(disk, e1) /\ Follows(e1, e2)
      BY <1>32, <1>33, <1>34 DEF Follows
    <2>2. 1..Len(todo)' = {1, 2} /\ 1 - 1 = 0 /\ 2 - 1 = 1
      BY <1>15
    <2>3. \A k \in 1..Len(todo)' : Follows(After(k - 1), After(k))'
      BY <1>16, <2>1, <2>2
    <2> QED BY <1>1, <1>29, <2>3 DEF DisksTidy
  <1> QED BY <1>1, <1>15, <1>16, <1>21, <1>25, <1>26, <1>27, <1>28, <1>35
         DEF DiskInv, PowerOn, MapOf

-----------------------------------------------------------------------------
(* Open files. *)

(* A step that changes only descriptors and starts at most a write. *)
LEMMA OnlyHandles ==
    ASSUME DiskInv, power = "on", todo = <<>>,
           power' = power, disk' = disk, fat' = fat, todo' = todo, lost' = lost
    PROVE  /\ DisksSound' /\ DisksTidy'
           /\ Final' = disk
           /\ (fat = MapOf(Final))'
           /\ Sound(disk, lost) /\ Final = disk /\ fat = MapOf(disk)
           /\ \A h \in Handle : HandleOK(h) /\ (handle'[h] = handle[h] => HandleOK(h)')
  <1>1. /\ Sound(disk, lost) /\ Final = disk /\ fat = MapOf(disk)
        /\ \A h \in Handle : HandleOK(h)
    BY AtRest
  <1>2. Len(todo') = 0
    OBVIOUS
  <1>3. After(0)' = disk /\ Final' = disk /\ LostAfter(0)' = lost
    BY <1>2 DEF Final, After, AfterOf, LostAfter
  <1>4. DisksSound'
    <2>1. 0..Len(todo)' = {0}
      BY <1>2
    <2> QED BY <1>1, <1>3, <2>1 DEF DisksSound
  <1>5. ASSUME NEW h \in Handle, handle'[h] = handle[h]
        PROVE  HandleOK(h)'
    <2>1. HandleOK(h)
      BY <1>1
    <2> QED BY <1>1, <1>3, <1>5, <2>1 DEF HandleOK, EntryOf
  <1>6. DisksTidy'
    BY NothingToWrite
  <1> QED BY <1>1, <1>3, <1>4, <1>5, <1>6 DEF MapOf

LEMMA OpenStep ==
    ASSUME DiskInv, NEW h \in Handle, NEW d \in Directories, NEW n \in Name, Open(h, d, n)
    PROVE  DiskInv'
  <1>1. /\ power = "on" /\ op = Idle
        /\ power' = power /\ disk' = disk /\ fat' = fat /\ op' = op /\ todo' = todo /\ lost' = lost
    BY DEF Open, Ready
  <1>2. TypeOK /\ todo = <<>>
    BY <1>1 DEF DiskInv, PowerOn, Idle
  <1>3. PICK p \in EntriesOf(d) :
           /\ EntryAt(p).kind = "file"
           /\ handle' = [handle EXCEPT ![h] =
                  [mode |-> "new",
                   current_cluster |-> EntryAt(p).cluster,
                   progress_pointer |-> 0,
                   progress_end |-> EntryAt(p).filesize,
                   directory_cluster |-> d,
                   directory_index |-> p[2]]]
    BY Zenon DEF Open
  <1>4. PICK s \in Slot : p = <<d, s>>
    BY <1>3, Views
  <1> DEFINE entry == disk[d].entry[s]
             new == [mode |-> "new", current_cluster |-> entry.cluster, progress_pointer |-> 0,
                     progress_end |-> entry.filesize, directory_cluster |-> d,
                     directory_index |-> s]
  <1>5. EntryAt(p) = entry
    BY <1>4 DEF EntryAt
  <1>6. handle' = [handle EXCEPT ![h] = new] /\ entry.kind = "file"
    BY <1>3, <1>4, <1>5
  <1>7. /\ DisksSound' /\ DisksTidy' /\ Final' = disk /\ (fat = MapOf(Final))'
        /\ Sound(disk, lost)
        /\ \A g \in Handle : handle'[g] = handle[g] => HandleOK(g)'
    BY <1>1, <1>2, OnlyHandles
  <1>8. /\ <<d, s>> \in EntriesOn(disk) /\ Head0(disk, <<d, s>>) = entry.cluster
        /\ EntryOn(disk, <<d, s>>) = entry /\ d \in Cluster
    <2>1. HasEntry(disk, <<d, s>>) /\ d \in DirectoriesOn(disk)
      BY <1>3, <1>4, Views
    <2> QED BY <1>7, <2>1, Unfold, SoundTables DEF EntriesOn
  <1>9. entry \in EntryType
    BY <1>7, <1>8, SoundTables
  <1>10. /\ new \in HandleType /\ new # Closed /\ new.mode = "new"
         /\ new.current_cluster = entry.cluster /\ new.progress_pointer = 0
         /\ new.progress_end = entry.filesize
    <2>1. new.mode # Closed.mode
      BY DEF Closed
    <2> QED BY <1>8, <1>9, <2>1, Fat32Assumption DEF HandleType, EntryType, Cluster
  <1>11. HandleOK(h)'
    <2>1. handle'[h] = new
      BY <1>2, <1>6 DEF TypeOK
    <2>2. EntryOf(h)' = <<d, s>>
      BY <2>1 DEF EntryOf
    <2>3. Covers(MapOf(disk), entry.cluster, entry.filesize)
      BY <1>7, <1>8 DEF Sound, SizesCovered
    <2>4. PositionOK(fat', entry.cluster, new)
      BY <1>7, <1>10, <2>3 DEF PositionOK, MapOf
    <2> QED BY <1>6, <1>7, <1>8, <1>10, <2>1, <2>2, <2>4 DEF HandleOK
  <1>12. \A g \in Handle : HandleOK(g)'
    BY <1>2, <1>6, <1>7, <1>11 DEF TypeOK
  <1>13. TypeOK'
    BY <1>1, <1>2, <1>6, <1>10 DEF TypeOK
  <1> QED BY <1>1, <1>2, <1>7, <1>12, <1>13 DEF DiskInv, PowerOn, Idle

LEMMA CloseStep ==
    ASSUME DiskInv, NEW h \in Handle, Close(h)
    PROVE  DiskInv'
  <1>1. /\ power = "on" /\ op = Idle
        /\ power' = power /\ disk' = disk /\ fat' = fat /\ op' = op /\ todo' = todo /\ lost' = lost
        /\ handle' = [handle EXCEPT ![h] = Closed]
    BY DEF Close, Ready
  <1>2. TypeOK /\ todo = <<>>
    BY <1>1 DEF DiskInv, PowerOn, Idle
  <1>3. /\ DisksSound' /\ DisksTidy' /\ (fat = MapOf(Final))'
        /\ \A g \in Handle : handle'[g] = handle[g] => HandleOK(g)'
    BY <1>1, <1>2, OnlyHandles
  <1>4. \A g \in Handle : HandleOK(g)'
    BY <1>1, <1>2, <1>3 DEF HandleOK, TypeOK
  <1>5. TypeOK'
    BY <1>1, <1>2 DEF TypeOK
  <1> QED BY <1>1, <1>2, <1>3, <1>4, <1>5 DEF DiskInv, PowerOn, Idle

(* A descriptor that moves in its file. *)
LEMMA MovedHandle ==
    ASSUME NEW h \in Handle, HandleOK(h), handle[h] # Closed,
           Final' = Final, fat' = fat,
           handle'[h].directory_cluster = handle[h].directory_cluster,
           handle'[h].directory_index = handle[h].directory_index,
           PositionOK(fat, Head0(Final, EntryOf(h)), handle'[h])
    PROVE  HandleOK(h)'
  <1>1. EntryOf(h)' = EntryOf(h)
    BY DEF EntryOf
  <1> QED BY <1>1 DEF HandleOK

(* What read_vfs makes of a descriptor v inside a cluster and at a boundary. *)
MovedOn(v) == [v EXCEPT !.mode = "read", !.progress_pointer = v.progress_pointer + 1]

Loaded(map, v) == [MovedOn(v) EXCEPT !.current_cluster = map[v.current_cluster]]

(* A turn of the loop of read_vfs never finds the file corrupted. *)
LEMMA ReadPosition ==
    ASSUME NEW map \in MapType, NEW h, Walk(map, h)[ClusterCount] \notin Cluster,
           NEW v \in HandleType, PositionOK(map, h, v), v.mode \in {"new", "read"},
           v.progress_pointer < v.progress_end
    PROVE  /\ v.progress_pointer % ClusterSize # 0 =>
                  MovedOn(v) \in HandleType /\ PositionOK(map, h, MovedOn(v))
           /\ v.progress_pointer % ClusterSize = 0 =>
                  /\ v.current_cluster \in Cluster
                  /\ Loaded(map, v) \in HandleType /\ PositionOK(map, h, Loaded(map, v))
  <1> DEFINE n == v.progress_pointer
             end == v.progress_end
             c == v.current_cluster
             m == n + 1
             moved == [v EXCEPT !.mode = "read", !.progress_pointer = m]
             next == [moved EXCEPT !.current_cluster = map[c]]
  <1>1. n \in Nat /\ end \in Nat /\ m \in 0..MaxSize /\ n < end
    BY Fat32Assumption DEF HandleType
  <1>2. Covers(map, h, end) /\ IsAhead(map, h, n, end, c)
    BY HeadAhead DEF PositionOK
  <1> HIDE DEF n, end, c
  <1>3. /\ n % ClusterSize = 0 => c \in Cluster /\ IsAhead(map, h, m, end, map[c])
        /\ n % ClusterSize # 0 => IsAhead(map, h, m, end, c)
    BY <1>1, <1>2, ReadAhead
  <1> HIDE DEF m
  <1>4. /\ moved \in HandleType /\ moved.mode = "read" /\ moved.progress_pointer = m
        /\ moved.progress_end = end /\ moved.current_cluster = c
    BY <1>1 DEF HandleType, end, c
  <1>5. /\ n % ClusterSize = 0 => next \in HandleType /\ next.current_cluster = map[c]
        /\ next.mode = "read" /\ next.progress_pointer = m /\ next.progress_end = end
    <2>1. c \in Cluster => map[c] \in 0..(ClusterCount + 1)
      BY DEF MapType
    <2> HIDE DEF moved
    <2> QED BY <1>3, <1>4, <2>1 DEF HandleType
  <1> HIDE DEF moved, next
  <1>6. n % ClusterSize # 0 => PositionOK(map, h, moved)
    BY <1>2, <1>3, <1>4 DEF PositionOK
  <1>7. n % ClusterSize = 0 => PositionOK(map, h, next)
    BY <1>2, <1>3, <1>5 DEF PositionOK
  <1> QED BY <1>3, <1>4, <1>5, <1>6, <1>7 DEF next, moved, m, n, c, MovedOn, Loaded

(* The chain of an open file is one of a sound table. *)
LEMMA FileOfHandle ==
    ASSUME DiskInv, power = "on", todo = <<>>, NEW h \in Handle, handle[h] # Closed
    PROVE  LET head == Head0(disk, EntryOf(h))
           IN  /\ EntryOf(h) \in EntriesOn(disk)
               /\ EntryOn(disk, EntryOf(h)).kind = "file"
               /\ PositionOK(fat, head, handle[h])
               /\ head \in Heads(disk) /\ head \in Cluster
               /\ Walk(fat, head)[ClusterCount] \notin Cluster
  <1> DEFINE head == Head0(disk, EntryOf(h))
  <1>1. /\ Sound(disk, lost) /\ Final = disk /\ fat = MapOf(disk)
        /\ LinksSound(fat, Heads(disk), lost) /\ HandleOK(h)
    BY AtRest
  <1>2. EntryOf(h) \in EntriesOn(disk) /\ EntryOn(disk, EntryOf(h)).kind = "file"
        /\ PositionOK(fat, head, handle[h])
    BY <1>1 DEF HandleOK
  <1>3. head \in Heads(disk)
    BY <1>2 DEF Heads
  <1> HIDE DEF head
  <1>4. head \in Cluster
    BY <1>1, <1>3, SoundTables
  <1>5. EndsInEOF(fat, head)
    BY <1>1, <1>3, ChainOfHead
  <1>6. Walk(fat, head)[ClusterCount] \notin Cluster
    BY <1>5, Fat32Assumption DEF EndsInEOF, FAT32_FAT_END_OF_FILE, Cluster
  <1> QED BY <1>2, <1>3, <1>4, <1>6 DEF head

LEMMA ReadStep ==
    ASSUME DiskInv, NEW h \in Handle, Read(h)
    PROVE  DiskInv'
  <1> DEFINE head == Head0(disk, EntryOf(h))
  <1>1. /\ power = "on" /\ op = Idle
        /\ power' = power /\ disk' = disk /\ fat' = fat /\ op' = op /\ todo' = todo /\ lost' = lost
        /\ handle[h].mode \in {"new", "read"}
        /\ handle[h].progress_pointer < handle[h].progress_end
    BY DEF Read, Ready
  <1>2. TypeOK /\ todo = <<>>
    BY <1>1 DEF DiskInv, PowerOn, Idle
  <1>3. handle[h] \in HandleType /\ handle[h] # Closed /\ fat \in MapType
    BY <1>1, <1>2 DEF TypeOK, Closed
  <1>4. PositionOK(fat, head, handle[h]) /\ Walk(fat, head)[ClusterCount] \notin Cluster
    BY <1>1, <1>2, <1>3, FileOfHandle
  <1> HIDE DEF head
  <1>5. PICK new \in HandleType :
            /\ handle' = [handle EXCEPT ![h] = new]
            /\ PositionOK(fat, head, new)
            /\ new.directory_cluster = handle[h].directory_cluster
            /\ new.directory_index = handle[h].directory_index
    <2> DEFINE a == MovedOn(handle[h])
               b == Loaded(fat, handle[h])
               c == [handle[h] EXCEPT !.mode = "corrupted"]
    <2>1. /\ ~AtBoundary(h) => a \in HandleType /\ PositionOK(fat, head, a)
          /\ AtBoundary(h) => /\ handle[h].current_cluster \in Cluster
                              /\ b \in HandleType /\ PositionOK(fat, head, b)
      BY <1>1, <1>3, <1>4, ReadPosition DEF AtBoundary
    <2>2. handle' = [handle EXCEPT ![h] =
                        IF ~AtBoundary(h) THEN a
                        ELSE IF handle[h].current_cluster \in Cluster THEN b ELSE c]
      BY DEF Read, MovedOn, Loaded
    <2>3. ASSUME NEW x \in {a, b}
          PROVE  /\ x.directory_cluster = handle[h].directory_cluster
                 /\ x.directory_index = handle[h].directory_index
      BY <1>3 DEF HandleType, MovedOn, Loaded
    <2> HIDE DEF a, b, c
    <2> QED BY <2>1, <2>2, <2>3
  <1>6. /\ DisksSound' /\ DisksTidy' /\ Final' = disk /\ Final = disk /\ (fat = MapOf(Final))'
        /\ \A g \in Handle : HandleOK(g) /\ (handle'[g] = handle[g] => HandleOK(g)')
    BY <1>1, <1>2, OnlyHandles
  <1>7. handle'[h] = new /\ \A g \in Handle \ {h} : handle'[g] = handle[g]
    BY <1>2, <1>5 DEF TypeOK
  <1>8. HandleOK(h)'
    BY <1>1, <1>3, <1>5, <1>6, <1>7, MovedHandle DEF head
  <1>9. TypeOK'
    BY <1>1, <1>2, <1>5 DEF TypeOK
  <1> QED BY <1>1, <1>2, <1>6, <1>7, <1>8, <1>9 DEF DiskInv, PowerOn, Idle

LEMMA WriteStep ==
    ASSUME DiskInv, NEW h \in Handle, NEW n \in Nat, Write(h, n)
    PROVE  DiskInv'
  <1>1. /\ power = "on" /\ op = Idle
        /\ power' = power /\ disk' = disk /\ fat' = fat /\ todo' = todo /\ lost' = lost
        /\ handle[h].mode \in {"new", "write"}
        /\ handle' = [handle EXCEPT ![h].mode = "write"]
        /\ op' = [kind |-> "write", handle |-> h, left |-> n]
        /\ handle[h].progress_pointer + n <= MaxSize
    BY DEF Write, Ready
  <1>2. TypeOK /\ todo = <<>>
    BY <1>1 DEF DiskInv, PowerOn, Idle
  <1>3. handle[h] \in HandleType /\ handle[h] # Closed
    BY <1>1, <1>2 DEF TypeOK, Closed
  <1>4. /\ handle'[h] \in HandleType /\ handle'[h].mode = "write"
        /\ handle'[h].directory_cluster = handle[h].directory_cluster
        /\ handle'[h].directory_index = handle[h].directory_index
        /\ handle'[h].current_cluster = handle[h].current_cluster
        /\ handle'[h].progress_pointer = handle[h].progress_pointer
        /\ handle'[h].progress_end = handle[h].progress_end
        /\ \A g \in Handle \ {h} : handle'[g] = handle[g]
        /\ handle' \in [Handle -> HandleType \cup {Closed}]
    BY <1>1, <1>2, <1>3 DEF TypeOK, HandleType
  <1>5. /\ DisksSound' /\ DisksTidy' /\ Final' = disk /\ Final = disk /\ (fat = MapOf(Final))'
        /\ \A g \in Handle : HandleOK(g) /\ (handle'[g] = handle[g] => HandleOK(g)')
    BY <1>1, <1>2, OnlyHandles
  <1>6. PositionOK(fat, Head0(Final, EntryOf(h)), handle'[h])
    <2>1. PositionOK(fat, Head0(Final, EntryOf(h)), handle[h])
      BY <1>3, <1>5 DEF HandleOK
    <2> QED BY <1>1, <1>4, <2>1, OwnsHead DEF PositionOK, IsBuffer
  <1>7. HandleOK(h)'
    BY <1>1, <1>3, <1>4, <1>5, <1>6, MovedHandle
  <1>8. TypeOK'
    BY <1>1, <1>2, <1>4 DEF TypeOK, OpType
  <1>9. op'.kind = "write" /\ op'.handle = h /\ op'.left = n
    BY <1>1
  <1> QED BY <1>1, <1>4, <1>5, <1>7, <1>8, <1>9 DEF DiskInv, PowerOn

(* During a write and with nothing left to write to the disk: the cluster  *)
(* of the buffer is in the file, and in no directory.                      *)
LEMMA AtWriting ==
    ASSUME DiskInv, NEW h \in Handle, Writing(h)
    PROVE  LET head == Head0(disk, EntryOf(h))
               current == handle[h].current_cluster
           IN  /\ TypeOK /\ power = "on" /\ todo = <<>> /\ op.kind = "write" /\ op.handle = h
               /\ op.left \in Nat /\ handle[h].progress_pointer + op.left <= MaxSize
               /\ EntryOn(disk, EntryOf(h)).kind = "file" /\ Tidy(disk)
               /\ Sound(disk, lost) /\ Final = disk /\ fat = MapOf(disk)
               /\ \A g \in Handle : HandleOK(g)
               /\ handle[h] \in HandleType /\ handle[h].mode = "write"
               /\ EntryOf(h) \in EntriesOn(disk)
               /\ head \in Heads(disk) /\ head \in Cluster
               /\ Walk(fat, head)[ClusterCount] \notin Cluster
               /\ Covers(fat, head, handle[h].progress_end)
               /\ IsBuffer(fat, head, handle[h].progress_pointer, current)
               /\ current \in Used(fat) \ lost
               /\ current \notin DirectoriesOn(disk)
               /\ current \in Cluster
  <1> DEFINE head == Head0(disk, EntryOf(h))
  <1>1. /\ power = "on" /\ todo = <<>> /\ op.kind = "write" /\ op.handle = h /\ TypeOK
    BY DEF Writing, DiskInv
  <1>2. op.left \in Nat
    BY <1>1 DEF TypeOK, OpType, Idle
  <1>3. /\ Sound(disk, lost) /\ Final = disk /\ fat = MapOf(disk)
        /\ \A g \in Handle : HandleOK(g)
    BY <1>1, AtRest
  <1>4. /\ handle[h].mode = "write" /\ handle[h].progress_pointer + op.left <= MaxSize
        /\ Tidy(disk)
    BY <1>1 DEF DiskInv, PowerOn, DisksTidy
  <1>5. handle[h] \in HandleType /\ handle[h] # Closed
    BY <1>1, <1>4 DEF TypeOK, Closed
  <1>6. /\ EntryOf(h) \in EntriesOn(disk) /\ EntryOn(disk, EntryOf(h)).kind = "file"
        /\ PositionOK(fat, head, handle[h])
        /\ head \in Heads(disk) /\ head \in Cluster
        /\ Walk(fat, head)[ClusterCount] \notin Cluster
    BY <1>1, <1>5, FileOfHandle
  <1>7. /\ Covers(fat, head, handle[h].progress_end)
        /\ IsBuffer(fat, head, handle[h].progress_pointer, handle[h].current_cluster)
    BY <1>4, <1>6 DEF PositionOK
  <1>8. Owns(fat, head, handle[h].current_cluster)
    BY <1>7 DEF IsBuffer
  <1> QED BY <1>1, <1>2, <1>3, <1>4, <1>5, <1>6, <1>7, <1>8, OwnedByFile

(* A table that is not changed keeps every chain. *)
LEMMA KeepsItself == ASSUME NEW map, NEW h PROVE Keeps(map, map, h)
  BY DEF Keeps

(* What such a step must show: the writes it begins lead through sound     *)
(* disks, on which the entries are the same and the files have their       *)
(* clusters.                                                               *)
LEMMA WritingStep ==
    ASSUME DiskInv, NEW h \in Handle, Writing(h), TypeOK',
           power' = power, disk' = disk, lost' = lost,
           op'.kind # "delete",
           op'.kind = "write" => /\ op' = [op EXCEPT !.left = op'.left]
                                 /\ handle'[h].progress_pointer + op'.left <= MaxSize,
           op'.kind # "write" => (op' = Idle <=> todo' = <<>>),
           \A k \in 0..Len(todo') : Sound(After(k)', lost),
           \A k \in 1..Len(todo') : Follows(After(k - 1)', After(k)'),
           SameEntries(disk, Final'),
           fat' = MapOf(Final'),
           \A g \in Heads(disk) : Keeps(fat, fat', g),
           \A g \in Handle \ {h} : handle'[g] = handle[g],
           handle'[h].directory_cluster = handle[h].directory_cluster,
           handle'[h].directory_index = handle[h].directory_index,
           op'.kind = "write" => handle'[h].mode = "write",
           PositionOK(fat', Head0(disk, EntryOf(h)), handle'[h])
    PROVE  DiskInv'
  <1>1. /\ Final = disk /\ power = "on" /\ op.handle = h /\ op.kind = "write"
        /\ \A g \in Handle : HandleOK(g)
        /\ EntryOf(h) \in EntriesOn(disk) /\ TypeOK /\ Sound(disk, lost) /\ Tidy(disk)
    BY AtWriting
  <1>2. /\ EntriesOn(Final') = EntriesOn(disk)
        /\ \A p \in EntriesOn(disk) : /\ Head0(Final', p) = Head0(disk, p)
                                      /\ EntryOn(Final', p).kind = EntryOn(disk, p).kind
                                      /\ Head0(disk, p) \in Heads(disk)
        /\ Heads(disk) \subseteq Cluster
    BY <1>1, SoundTables DEF SameEntries, Heads
  <1>3. DisksSound'
    BY DEF DisksSound, LostAfter
  <1>4. ASSUME NEW g \in Handle \ {h}
        PROVE  HandleOK(g)'
    <2>1. HandleOK(g) /\ handle'[g] = handle[g]
      BY <1>1
    <2>2. ASSUME handle[g] # Closed
          PROVE  /\ EntryOf(g) \in EntriesOn(Final')
                 /\ Head0(Final', EntryOf(g)) = Head0(Final, EntryOf(g))
                 /\ EntryOn(Final', EntryOf(g)).kind = EntryOn(Final, EntryOf(g)).kind
                 /\ Head0(Final, EntryOf(g)) \in Cluster
                 /\ Keeps(fat, fat', Head0(Final, EntryOf(g)))
      <3>1. EntryOf(g) \in EntriesOn(disk)
        BY <1>1, <2>1, <2>2 DEF HandleOK
      <3> QED BY <1>1, <1>2, <3>1
    <2> QED BY <2>1, <2>2, SameHandle
  <1>5. HandleOK(h)'
    <2>1. EntryOf(h)' = EntryOf(h)
      BY DEF EntryOf
    <2>2. EntryOn(disk, EntryOf(h)).kind = "file"
      <3>1. handle[h].mode = "write"
        BY AtWriting
      <3>2. handle[h] # Closed
        BY <3>1 DEF Closed
      <3> QED BY <1>1, <3>2 DEF HandleOK
    <2> QED BY <1>1, <1>2, <2>1, <2>2 DEF HandleOK
  <1>6. op'.kind = "write" => /\ handle'[op'.handle].mode = "write"
                              /\ handle'[op'.handle].progress_pointer + op'.left <= MaxSize
    <2>1. op'.kind = "write" => op'.handle = op.handle
      BY <1>1 DEF TypeOK, OpType, Idle
    <2> QED BY <1>1, <2>1
  <1>7. DisksTidy'
    BY <1>1 DEF DisksTidy
  <1> QED BY <1>1, <1>3, <1>4, <1>5, <1>6, <1>7 DEF DiskInv, PowerOn, MapOf

(* A descriptor v that has written another byte to the buffer of c. *)
Written(v, c) == [v EXCEPT !.progress_pointer = v.progress_pointer + 1, !.current_cluster = c]

LEMMA MovedBuffer ==
    ASSUME NEW map, NEW h, NEW v \in HandleType, v.mode = "write",
           v.progress_pointer < MaxSize, Covers(map, h, v.progress_end),
           NEW c \in Cluster, IsBuffer(map, h, v.progress_pointer + 1, c)
    PROVE  LET moved == Written(v, c)
           IN  /\ moved \in HandleType /\ moved.mode = "write"
               /\ moved.progress_pointer = v.progress_pointer + 1
               /\ moved.directory_cluster = v.directory_cluster
               /\ moved.directory_index = v.directory_index
               /\ PositionOK(map, h, moved)
  <1> DEFINE n == v.progress_pointer + 1
             moved == [v EXCEPT !.progress_pointer = n, !.current_cluster = c]
  <1>1. n \in 0..MaxSize /\ c \in 0..(ClusterCount + 1)
    BY Fat32Assumption DEF HandleType, Cluster
  <1> HIDE DEF n
  <1>2. /\ moved \in HandleType /\ moved.mode = "write"
        /\ moved.directory_cluster = v.directory_cluster
        /\ moved.directory_index = v.directory_index
        /\ moved.progress_pointer = n /\ moved.current_cluster = c
        /\ moved.progress_end = v.progress_end
    BY <1>1 DEF HandleType
  <1> HIDE DEF moved
  <1>3. PositionOK(map, h, moved)
    BY <1>2 DEF PositionOK, n
  <1> QED BY <1>2, <1>3 DEF moved, n, Written

(* One more byte: what is left of a write still fits in a file. *)
LEMMA OneByte ==
    ASSUME NEW h \in Handle, handle[h] \in HandleType, op.left \in Nat, op.left > 0,
           handle[h].progress_pointer + op.left <= MaxSize,
           op.kind = "write", op \in OpType, op' = [op EXCEPT !.left = op.left - 1]
    PROVE  /\ handle[h].progress_pointer < MaxSize
           /\ op'.kind = "write" /\ op' \in OpType /\ op' = [op EXCEPT !.left = op'.left]
           /\ (handle[h].progress_pointer + 1) + op'.left <= MaxSize
  <1>1. /\ op'.left = op.left - 1 /\ op'.kind = "write" /\ op' \in OpType
        /\ op' = [op EXCEPT !.left = op'.left]
    BY DEF OpType, Idle
  <1>2. handle[h].progress_pointer \in Nat /\ MaxSize \in Nat
    BY Fat32Assumption DEF HandleType
  <1> QED BY <1>1, <1>2

LEMMA WriteInsideStep ==
    ASSUME DiskInv, NEW h \in Handle, WriteInside(h)
    PROVE  DiskInv'
  <1> DEFINE x == handle[h].current_cluster
             head == Head0(disk, EntryOf(h))
             moved == Written(handle[h], x)
  <1>1. /\ Writing(h) /\ op.left > 0 /\ ~AtBoundary(h)
        /\ power' = power /\ disk' = disk /\ fat' = fat /\ todo' = todo /\ lost' = lost
        /\ handle' = [handle EXCEPT ![h].progress_pointer = handle[h].progress_pointer + 1]
        /\ op' = [op EXCEPT !.left = op.left - 1]
    BY DEF WriteInside
  <1>2. /\ TypeOK /\ todo = <<>> /\ op.kind = "write" /\ op.handle = h /\ op.left \in Nat
        /\ Sound(disk, lost) /\ Final = disk /\ fat = MapOf(disk)
        /\ handle[h] \in HandleType /\ handle[h].mode = "write"
        /\ Covers(fat, head, handle[h].progress_end)
        /\ IsBuffer(fat, head, handle[h].progress_pointer, x) /\ x \in Cluster
        /\ handle[h].progress_pointer + op.left <= MaxSize
    BY <1>1, AtWriting
  <1>12. /\ handle[h].progress_pointer < MaxSize
         /\ op'.kind = "write" /\ op' \in OpType /\ op' = [op EXCEPT !.left = op'.left]
         /\ (handle[h].progress_pointer + 1) + op'.left <= MaxSize
    BY <1>1, <1>2, OneByte DEF TypeOK
  <1> HIDE DEF head
  <1>3. handle' = [handle EXCEPT ![h] = moved]
    BY <1>1, <1>2 DEF TypeOK, HandleType, Written
  <1>4. IsBuffer(fat, head, handle[h].progress_pointer + 1, x)
    BY <1>1, <1>2, BufferStays DEF AtBoundary, HandleType
  <1> HIDE DEF x
  <1>5. /\ moved \in HandleType /\ moved.mode = "write"
        /\ moved.progress_pointer = handle[h].progress_pointer + 1
        /\ moved.directory_cluster = handle[h].directory_cluster
        /\ moved.directory_index = handle[h].directory_index
        /\ PositionOK(fat, head, moved)
    <2>1. /\ handle[h] \in HandleType /\ handle[h].mode = "write" /\ x \in Cluster
          /\ Covers(fat, head, handle[h].progress_end)
          /\ handle[h].progress_pointer < MaxSize
      BY <1>2, <1>12
    <2> QED BY <1>4, <2>1, MovedBuffer, Zenon
  <1> HIDE DEF moved
  <1>6. TypeOK'
    BY <1>1, <1>2, <1>3, <1>5, <1>12 DEF TypeOK
  <1>8. Len(todo') = 0 /\ After(0)' = disk /\ Final' = disk
    BY <1>1, <1>2 DEF Final, After, AfterOf
  <1>9. /\ \A k \in 0..Len(todo') : Sound(After(k)', lost)
        /\ \A k \in 1..Len(todo') : Follows(After(k - 1)', After(k)')
    BY <1>2, <1>8
  <1>10. SameEntries(disk, disk)
    BY DEF SameEntries
  <1>11. handle'[h] = moved /\ \A g \in Handle \ {h} : handle'[g] = handle[g]
    BY <1>2, <1>3 DEF TypeOK
  <1>7. handle'[h].progress_pointer + op'.left <= MaxSize
    BY <1>5, <1>11, <1>12
  <1> QED BY <1>1, <1>2, <1>5, <1>6, <1>7, <1>8, <1>9, <1>10, <1>11, <1>12, KeepsItself, WritingStep
         DEF head

(* The disk when the buffer is written. *)
LEMMA FlushedDisk ==
    ASSUME DiskInv, NEW h \in Handle, Writing(h)
    PROVE  LET w == WriteTo(handle[h].current_cluster, Data)
               e == Apply(disk, w)
           IN  /\ w \in DiskWrite
               /\ Sound(e, lost) /\ SameEntries(disk, e) /\ MapOf(e) = fat
               /\ Follows(disk, e)
               /\ \A p \in EntriesOn(disk) : EntryOn(e, p) = EntryOn(disk, p)
               /\ DirectoriesOn(e) = DirectoriesOn(disk)
               /\ \A c \in DirectoriesOn(disk) : e[c] = disk[c]
  <1> DEFINE x == handle[h].current_cluster
  <1>1. /\ Sound(disk, lost) /\ fat = MapOf(disk) /\ Tidy(disk)
        /\ x \in Used(fat) /\ x \notin DirectoriesOn(disk) /\ x \in Cluster
    BY AtWriting
  <1> HIDE DEF x
  <1>2. WriteTo(x, Data) \in DiskWrite
    BY <1>1 DEF DiskWrite, WriteTo, Content
  <1> QED BY <1>1, <1>2, SoundData DEF x

LEMMA WriteNextStep ==
    ASSUME DiskInv, NEW h \in Handle, WriteNext(h)
    PROVE  DiskInv'
  <1> DEFINE x == handle[h].current_cluster
             w == WriteTo(x, Data)
             e == Apply(disk, w)
             head == Head0(disk, EntryOf(h))
             next == NextCluster(h)
             moved == Written(handle[h], next)
  <1>1. /\ Writing(h) /\ op.left > 0 /\ AtBoundary(h)
        /\ power' = power /\ disk' = disk /\ fat' = fat /\ lost' = lost
        /\ next # FAT32_FAT_END_OF_FILE
        /\ todo' = Flushed(h)
        /\ op' = [op EXCEPT !.left = op.left - 1]
    BY DEF WriteNext
  <1>2. /\ TypeOK /\ todo = <<>> /\ op.kind = "write" /\ op.handle = h /\ op.left \in Nat
        /\ Sound(disk, lost) /\ Final = disk /\ fat = MapOf(disk)
        /\ handle[h] \in HandleType /\ handle[h].mode = "write"
        /\ Walk(fat, head)[ClusterCount] \notin Cluster
        /\ Covers(fat, head, handle[h].progress_end)
        /\ IsBuffer(fat, head, handle[h].progress_pointer, x)
        /\ x \in Used(fat) /\ x \in Cluster
        /\ handle[h].progress_pointer + op.left <= MaxSize
    BY <1>1, AtWriting
  <1>12. /\ handle[h].progress_pointer < MaxSize
         /\ op'.kind = "write" /\ op' \in OpType /\ op' = [op EXCEPT !.left = op'.left]
         /\ (handle[h].progress_pointer + 1) + op'.left <= MaxSize
    BY <1>1, <1>2, OneByte DEF TypeOK
  <1>3. handle' = [handle EXCEPT ![h] = moved]
    BY <1>2 DEF WriteNext, TypeOK, Written
  <1> HIDE DEF head
  <1>4. next \in Cluster /\ IsBuffer(fat, head, handle[h].progress_pointer + 1, next)
    <2> DEFINE n == handle[h].progress_pointer
    <2>3. /\ n = 0 => IsBuffer(fat, head, n + 1, x)
          /\ n # 0 /\ fat[x] \in Cluster => IsBuffer(fat, head, n + 1, fat[x])
      BY <1>1, <1>2, BufferMoves DEF AtBoundary, HandleType
    <2>1. CASE n = 0
      BY <1>2, <2>1, <2>3 DEF NextCluster
    <2>2. CASE n # 0
      <3>1. next = fat[x]
        BY <2>2 DEF NextCluster
      <3>2. fat[x] \in Cluster
        BY <1>1, <1>2, <3>1 DEF Sound, LinksSound, IsLinked, Used
      <3> QED BY <2>2, <2>3, <3>1, <3>2
    <2> QED BY <2>1, <2>2
  <1> HIDE DEF next
  <1>5. /\ moved \in HandleType /\ moved.mode = "write"
        /\ moved.progress_pointer = handle[h].progress_pointer + 1
        /\ moved.directory_cluster = handle[h].directory_cluster
        /\ moved.directory_index = handle[h].directory_index
        /\ PositionOK(fat, head, moved)
    <2>1. handle[h] \in HandleType /\ handle[h].mode = "write"
          /\ Covers(fat, head, handle[h].progress_end)
          /\ handle[h].progress_pointer < MaxSize
      BY <1>2, <1>12
    <2> QED BY <1>4, <2>1, MovedBuffer, Zenon
  <1> HIDE DEF moved
  <1>6. /\ w \in DiskWrite
        /\ Sound(e, lost) /\ SameEntries(disk, e) /\ MapOf(e) = fat /\ Follows(disk, e)
    BY <1>1, FlushedDisk
  <1>7. \/ todo' = <<>>
        \/ todo' = <<w>>
    BY <1>1 DEF Flushed
  <1> HIDE DEF w, e
  <1>8. /\ todo' \in Seq(DiskWrite) /\ Len(todo') <= 3
        /\ \A k \in 0..Len(todo') : Sound(After(k)', lost)
        /\ \A k \in 1..Len(todo') : Follows(After(k - 1)', After(k)')
        /\ SameEntries(disk, Final') /\ MapOf(Final') = fat
    <2>1. CASE todo' = <<>>
      <3>1. Len(todo') = 0 /\ After(0)' = disk /\ Final' = disk
        BY <1>1, <2>1 DEF Final, After, AfterOf
      <3> QED BY <1>2, <2>1, <3>1 DEF SameEntries
    <2>2. CASE todo' = <<w>>
      <3>1. Len(todo') = 1 /\ After(0)' = disk /\ After(1)' = e /\ Final' = e
        BY <1>1, <2>2 DEF Final, After, AfterOf, e
      <3>2. 0..Len(todo') = {0, 1} /\ 1..Len(todo') = {1} /\ 1 - 1 = 0
        BY <3>1
      <3>3. todo' \in Seq(DiskWrite) /\ Len(todo') <= 3
        BY <1>6, <2>2
      <3> QED BY <1>2, <1>6, <3>1, <3>2, <3>3
    <2> QED BY <1>7, <2>1, <2>2
  <1>9. TypeOK'
    BY <1>1, <1>2, <1>3, <1>5, <1>8, <1>12 DEF TypeOK
  <1>11. handle'[h] = moved /\ \A g \in Handle \ {h} : handle'[g] = handle[g]
    BY <1>2, <1>3 DEF TypeOK
  <1>10. handle'[h].progress_pointer + op'.left <= MaxSize
    BY <1>5, <1>11, <1>12
  <1> QED BY <1>1, <1>2, <1>5, <1>8, <1>9, <1>10, <1>11, <1>12, KeepsItself, WritingStep DEF head

LEMMA WriteAppendStep ==
    ASSUME DiskInv, NEW h \in Handle, WriteAppend(h)
    PROVE  DiskInv'
  <1> DEFINE x == handle[h].current_cluster
             head == Head0(disk, EntryOf(h))
             w1 == WriteTo(x, Data)
             w2 == WriteTo(FAT_CLUSTER_NUMBER, [is |-> "fat", map |-> fat'])
             e1 == Apply(disk, w1)
             e2 == Apply(e1, w2)
  <1>1. /\ Writing(h) /\ op.left > 0 /\ AtBoundary(h)
        /\ power' = power /\ disk' = disk /\ lost' = lost
        /\ NextCluster(h) = FAT32_FAT_END_OF_FILE
        /\ todo' = Append(Flushed(h), w2)
        /\ op' = [op EXCEPT !.left = op.left - 1]
    BY DEF WriteAppend
  <1>2. PICK c \in Cluster :
           /\ fat[c] = FAT32_FAT_EMPTY_ENTRY
           /\ fat' = [fat EXCEPT ![x] = c, ![c] = FAT32_FAT_END_OF_FILE]
           /\ handle' = [handle EXCEPT
                  ![h].progress_pointer = handle[h].progress_pointer + 1,
                  ![h].current_cluster = c]
    BY DEF WriteAppend, IsFirstFree
  <1> DEFINE moved == Written(handle[h], c)
  <1>3. /\ TypeOK /\ todo = <<>> /\ op.kind = "write" /\ op.handle = h /\ op.left \in Nat
        /\ Sound(disk, lost) /\ Final = disk /\ fat = MapOf(disk)
        /\ handle[h] \in HandleType /\ handle[h].mode = "write"
        /\ head \in Heads(disk) /\ head \in Cluster
        /\ Covers(fat, head, handle[h].progress_end)
        /\ IsBuffer(fat, head, handle[h].progress_pointer, x)
        /\ x \in Used(fat) \ lost /\ x \in Cluster
        /\ handle[h].progress_pointer + op.left <= MaxSize
    BY <1>1, AtWriting
  <1>20. /\ handle[h].progress_pointer < MaxSize
         /\ op'.kind = "write" /\ op' \in OpType /\ op' = [op EXCEPT !.left = op'.left]
         /\ (handle[h].progress_pointer + 1) + op'.left <= MaxSize
    BY <1>1, <1>3, OneByte DEF TypeOK
  <1>4. handle' = [handle EXCEPT ![h] = moved]
    BY <1>2, <1>3 DEF TypeOK, Written
  <1> HIDE DEF head
  <1>5. /\ Flushed(h) = <<w1>> /\ fat[x] = FAT32_FAT_END_OF_FILE
        /\ handle[h].progress_pointer # 0
    <2>1. x # FAT32_FAT_END_OF_FILE
      BY <1>3, Fat32Assumption DEF Cluster, FAT32_FAT_END_OF_FILE
    <2>2. handle[h].progress_pointer # 0
      BY <1>1, <2>1 DEF NextCluster
    <2> QED BY <1>1, <2>2 DEF NextCluster, Flushed
  <1>6. fat' \in MapType /\ fat'[x] = c
    <2>1. fat \in MapType /\ x # c /\ c \in 0..(ClusterCount + 1)
          /\ FAT32_FAT_END_OF_FILE \in 0..(ClusterCount + 1)
      BY <1>2, <1>3, Fat32Assumption DEF TypeOK, Used, Cluster, FAT32_FAT_END_OF_FILE
    <2> QED BY <1>2, <1>3, <2>1 DEF MapType
  <1>7. /\ LinksSound(fat', Heads(disk), lost)
        /\ \A g \in Heads(disk) : Keeps(fat, fat', g)
    BY <1>2, <1>3, <1>5, AppendCluster DEF Sound
  <1>8. /\ moved \in HandleType /\ moved.mode = "write"
        /\ moved.progress_pointer = handle[h].progress_pointer + 1
        /\ moved.directory_cluster = handle[h].directory_cluster
        /\ moved.directory_index = handle[h].directory_index
        /\ PositionOK(fat', head, moved)
    <2> DEFINE n == handle[h].progress_pointer
    <2>1. /\ n \in Nat /\ n # 0 /\ n % ClusterSize = 0
      BY <1>1, <1>3, <1>5 DEF HandleType, AtBoundary
    <2>2. IsBuffer(fat', head, n, x) /\ Covers(fat', head, handle[h].progress_end)
      BY <1>3, <1>7, KeepsBuffer, KeepsCovers
    <2>3. Walk(fat', head)[ClusterCount] \notin Cluster
      <3>1. EndsInEOF(fat', head)
        BY <1>3, <1>7, ChainOfHead
      <3> QED BY <3>1, Fat32Assumption DEF EndsInEOF, FAT32_FAT_END_OF_FILE, Cluster
    <2> HIDE DEF n
    <2>4. IsBuffer(fat', head, n + 1, c)
      BY <1>3, <1>6, <2>1, <2>2, <2>3, BufferMoves
    <2>5. handle[h] \in HandleType /\ handle[h].mode = "write" /\ c \in Cluster
          /\ handle[h].progress_pointer < MaxSize
      BY <1>3, <1>20
    <2> QED BY <2>2, <2>4, <2>5, MovedBuffer DEF n
  <1> HIDE DEF moved
  <1>9. /\ w1 \in DiskWrite
        /\ Sound(e1, lost) /\ SameEntries(disk, e1) /\ MapOf(e1) = fat /\ Follows(disk, e1)
    BY <1>1, FlushedDisk
  <1>10. fat' \in MapType /\ w2 \in DiskWrite
    <2>1. FAT_CLUSTER_NUMBER \in Cluster
      BY Fat32Assumption DEF FAT_CLUSTER_NUMBER, Cluster
    <2> QED BY <1>6, <2>1 DEF DiskWrite, WriteTo, Content
  <1> HIDE DEF w1, e1, x
  <1>11. Heads(e1) = Heads(disk)
    BY <1>9 DEF SameEntries, Heads
  <1>12. Sound(e2, lost) /\ SameEntries(e1, e2) /\ MapOf(e2) = fat' /\ Follows(e1, e2)
    <2>1. Tidy(e1)
      BY <1>9 DEF Follows
    <2> QED BY <1>7, <1>9, <1>10, <1>11, <2>1, SoundMap
  <1> HIDE DEF w2
  <1>13. /\ todo' = <<w1, w2>> /\ todo' \in Seq(DiskWrite) /\ Len(todo') = 2
    <2>1. todo' = <<w1, w2>>
      BY <1>1, <1>5, <1>9, <1>10, ShortSequences
    <2> QED BY <1>9, <1>10, <2>1
  <1>14. After(0)' = disk /\ After(1)' = e1 /\ After(2)' = e2 /\ Final' = e2
    BY <1>1, <1>13 DEF Final, After, AfterOf, e1
  <1>15. /\ \A k \in 0..Len(todo') : Sound(After(k)', lost)
         /\ \A k \in 1..Len(todo') : Follows(After(k - 1)', After(k)')
    <2>1. 0..Len(todo') = {0, 1, 2} /\ 1..Len(todo') = {1, 2} /\ 1 - 1 = 0 /\ 2 - 1 = 1
      BY <1>13
    <2> QED BY <1>3, <1>9, <1>12, <1>14, <2>1
  <1>16. SameEntries(disk, e2)
    BY <1>9, <1>12 DEF SameEntries
  <1>17. TypeOK'
    BY <1>1, <1>3, <1>4, <1>8, <1>10, <1>13, <1>20 DEF TypeOK
  <1>19. handle'[h] = moved /\ \A g \in Handle \ {h} : handle'[g] = handle[g]
    BY <1>3, <1>4 DEF TypeOK
  <1>18. handle'[h].progress_pointer + op'.left <= MaxSize
    BY <1>8, <1>19, <1>20
  <1> HIDE DEF e2
  <1> QED BY <1>1, <1>7, <1>8, <1>12, <1>14, <1>15, <1>16, <1>17, <1>18, <1>19, <1>20, WritingStep
         DEF head

LEMMA WriteFullStep ==
    ASSUME DiskInv, NEW h \in Handle, WriteFull(h)
    PROVE  DiskInv'
  <1> DEFINE x == handle[h].current_cluster
             head == Head0(disk, EntryOf(h))
             w == WriteTo(x, Data)
             e == Apply(disk, w)
             failed == [handle[h] EXCEPT !.mode = "failed",
                                         !.current_cluster = FAT32_FAT_END_OF_FILE]
  <1>1. /\ Writing(h)
        /\ power' = power /\ disk' = disk /\ fat' = fat /\ lost' = lost
        /\ NextCluster(h) = FAT32_FAT_END_OF_FILE
        /\ todo' = Flushed(h)
        /\ op' = IF todo' = <<>> THEN Idle ELSE [kind |-> "update"]
    BY DEF WriteFull
  <1>2. /\ TypeOK /\ todo = <<>>
        /\ Sound(disk, lost) /\ Final = disk /\ fat = MapOf(disk)
        /\ handle[h] \in HandleType /\ handle[h].mode = "write"
        /\ x \in Cluster
        /\ Covers(fat, head, handle[h].progress_end)
    BY <1>1, AtWriting
  <1> HIDE DEF head
  <1>3. handle' = [handle EXCEPT ![h] = failed]
    BY <1>2 DEF WriteFull, TypeOK
  <1>4. /\ failed \in HandleType /\ failed.mode = "failed"
        /\ failed.directory_cluster = handle[h].directory_cluster
        /\ failed.directory_index = handle[h].directory_index
        /\ failed.progress_end = handle[h].progress_end
    <2>1. FAT32_FAT_END_OF_FILE \in 0..(ClusterCount + 1)
      BY Fat32Assumption DEF FAT32_FAT_END_OF_FILE
    <2> QED BY <1>2, <2>1 DEF HandleType
  <1> HIDE DEF failed
  <1>13. PositionOK(fat, head, failed)
    BY <1>2, <1>4 DEF PositionOK
  <1>5. todo' = <<w>>
    <2>1. x # FAT32_FAT_END_OF_FILE
      BY <1>2, Fat32Assumption DEF Cluster, FAT32_FAT_END_OF_FILE
    <2>2. handle[h].progress_pointer # 0
      BY <1>1, <2>1 DEF NextCluster
    <2> QED BY <1>1, <2>2 DEF Flushed
  <1>6. /\ w \in DiskWrite
        /\ Sound(e, lost) /\ SameEntries(disk, e) /\ MapOf(e) = fat /\ Follows(disk, e)
    BY <1>1, FlushedDisk
  <1> HIDE DEF w, e
  <1>7. todo' \in Seq(DiskWrite) /\ Len(todo') = 1 /\ todo' # <<>>
    BY <1>5, <1>6
  <1>8. After(0)' = disk /\ After(1)' = e /\ Final' = e
    BY <1>1, <1>5, <1>7 DEF Final, After, AfterOf, e
  <1>9. /\ \A k \in 0..Len(todo') : Sound(After(k)', lost)
        /\ \A k \in 1..Len(todo') : Follows(After(k - 1)', After(k)')
    <2>1. 0..Len(todo') = {0, 1} /\ 1..Len(todo') = {1} /\ 1 - 1 = 0
      BY <1>7
    <2> QED BY <1>2, <1>6, <1>8, <2>1
  <1>10. op' = [kind |-> "update"] /\ op' # Idle /\ op'.kind = "update"
    <2>1. op' = [kind |-> "update"]
      BY <1>1, <1>7
    <2>2. op'.kind # Idle.kind
      BY <2>1 DEF Idle
    <2> QED BY <2>1, <2>2
  <1>11. TypeOK'
    <2>1. op' \in OpType
      BY <1>10 DEF OpType
    <2> QED BY <1>1, <1>2, <1>3, <1>4, <1>7, <2>1 DEF TypeOK
  <1>12. handle'[h] = failed /\ \A g \in Handle \ {h} : handle'[g] = handle[g]
    BY <1>2, <1>3 DEF TypeOK
  <1> QED BY <1>1, <1>2, <1>4, <1>6, <1>7, <1>8, <1>9, <1>10, <1>11, <1>12, <1>13, KeepsItself,
            WritingStep DEF head

LEMMA LargerOfTwo == ASSUME NEW a \in Nat, NEW b \in Nat PROVE Max({a, b}) \in {a, b}
  <1>1. \E m \in {a, b} : \A y \in {a, b} : m >= y
    BY a >= b \/ b >= a
  <1> QED BY <1>1 DEF Max

LEMMA WriteEndStep ==
    ASSUME DiskInv, NEW h \in Handle, WriteEnd(h)
    PROVE  DiskInv'
  <1> DEFINE x == handle[h].current_cluster
             d == handle[h].directory_cluster
             s == handle[h].directory_index
             head == Head0(disk, EntryOf(h))
             size == Max({handle[h].progress_end, handle[h].progress_pointer})
             ended == [handle[h] EXCEPT !.progress_end = size]
             w1 == WriteTo(x, Data)
             w2 == WriteTo(d, Table([disk[d].entry EXCEPT ![s].filesize = size]))
             e1 == Apply(disk, w1)
             e2 == Apply(e1, w2)
  <1>1. /\ Writing(h)
        /\ power' = power /\ disk' = disk /\ fat' = fat /\ lost' = lost
        /\ op' = [kind |-> "update"]
        /\ handle' = [handle EXCEPT ![h].progress_end = size]
    BY Zenon DEF WriteEnd
  <1>2. todo' = <<w1>> \o IF IsTable(d) /\ disk[d].entry[s] # NoEntry
                          THEN << WriteTo(d, Table([disk[d].entry EXCEPT
                                      ![s].filesize = handle'[h].progress_end])) >>
                          ELSE <<>>
    BY Zenon DEF WriteEnd
  <1>3. /\ TypeOK /\ todo = <<>>
        /\ Sound(disk, lost) /\ Final = disk /\ fat = MapOf(disk)
        /\ handle[h] \in HandleType /\ handle[h].mode = "write"
        /\ EntryOf(h) \in EntriesOn(disk)
        /\ Covers(fat, head, handle[h].progress_end)
        /\ IsBuffer(fat, head, handle[h].progress_pointer, x) /\ x \in Cluster
        /\ EntryOn(disk, EntryOf(h)).kind = "file"
    BY <1>1, AtWriting
  <1>4. size \in 0..MaxSize /\ Covers(fat, head, size)
    <2>1. /\ handle[h].progress_pointer \in Nat /\ handle[h].progress_end \in Nat
          /\ handle[h].progress_pointer \in 0..MaxSize /\ handle[h].progress_end \in 0..MaxSize
      BY <1>3, Fat32Assumption DEF HandleType
    <2>2. size \in {handle[h].progress_end, handle[h].progress_pointer}
      BY <2>1, LargerOfTwo
    <2> HIDE DEF size
    <2> QED BY <1>3, <2>1, <2>2, BufferCovers
  <1> HIDE DEF size
  <1>5. handle' = [handle EXCEPT ![h] = ended]
    BY <1>1, <1>3 DEF TypeOK
  <1>6. /\ ended \in HandleType /\ ended.mode = "write" /\ ended.progress_end = size
        /\ ended.current_cluster = x
        /\ ended.progress_pointer = handle[h].progress_pointer
        /\ ended.directory_cluster = d
        /\ ended.directory_index = s
    BY <1>3, <1>4 DEF HandleType
  <1>7. handle'[h] = ended /\ \A g \in Handle \ {h} : handle'[g] = handle[g]
    BY <1>3, <1>5 DEF TypeOK
  <1> HIDE DEF ended
  <1>19. PositionOK(fat, head, ended)
    BY <1>3, <1>4, <1>6 DEF PositionOK
  <1>8. <<d, s>> \in EntriesOn(disk) /\ d \in DirectoriesOn(disk) /\ s \in Slot
        /\ disk[d].is = "table" /\ disk[d].entry[s] # NoEntry
    BY <1>3, Unfold DEF EntryOf
  <1>9. /\ w1 \in DiskWrite
        /\ Sound(e1, lost) /\ SameEntries(disk, e1) /\ MapOf(e1) = fat /\ Follows(disk, e1)
        /\ \A p \in EntriesOn(disk) : EntryOn(e1, p) = EntryOn(disk, p)
        /\ e1[d] = disk[d]
    BY <1>1, <1>8, FlushedDisk
  <1> HIDE DEF w1, e1, x
  <1>10. /\ <<d, s>> \in EntriesOn(e1) /\ Head0(e1, <<d, s>>) = head
         /\ EntryOn(e1, <<d, s>>).kind = "file"
    <2>1. EntryOf(h) = <<d, s>>
      BY DEF EntryOf
    <2>2. /\ EntryOf(h) \in EntriesOn(e1) /\ Head0(e1, EntryOf(h)) = head
          /\ EntryOn(e1, EntryOf(h)).kind = "file"
      BY <1>3, <1>9 DEF SameEntries
    <2> QED BY <2>1, <2>2, Zenon
  <1>11. Sound(e2, lost) /\ SameEntries(e1, e2) /\ MapOf(e2) = fat /\ Follows(e1, e2)
    <2>1. e2 = Resized(e1, d, s, size)
      BY <1>9 DEF Resized
    <2>2. Covers(MapOf(e1), Head0(e1, <<d, s>>), size)
      BY <1>4, <1>9, <1>10
    <2>3. Tidy(e1)
      BY <1>9 DEF Follows
    <2> HIDE DEF d, s, e2, head
    <2> QED BY <1>4, <1>9, <1>10, <2>1, <2>2, <2>3, SoundSize
  <1>12. w2 \in DiskWrite
    <2>1. d \in Cluster /\ disk \in [Cluster -> Content] /\ disk[d].entry \in [Slot -> EntryType \cup {NoEntry}]
      BY <1>3, <1>8, SoundTables, TableContent DEF Sound, TablesSound
    <2>2. disk[d].entry[s] \in EntryType
      BY <1>8, <2>1, EntryContent
    <2> DEFINE r == [disk[d].entry[s] EXCEPT !.filesize = size]
    <2>3. r \in EntryType
      BY <1>4, <2>2 DEF EntryType
    <2>4. [disk[d].entry EXCEPT ![s].filesize = size] = [disk[d].entry EXCEPT ![s] = r]
      OBVIOUS
    <2> HIDE DEF r, d, s
    <2> QED BY <2>1, <2>3, <2>4 DEF DiskWrite, WriteTo, Content, Table
  <1>13. todo' = <<w1, w2>> /\ todo' \in Seq(DiskWrite) /\ Len(todo') = 2 /\ todo' # <<>>
    <2>3. handle'[h].progress_end = size
      BY <1>6, <1>7
    <2>1. todo' = <<w1>> \o <<w2>>
      BY <1>2, <1>8, <2>3, Zenon DEF IsTable
    <2> HIDE DEF w2
    <2>2. todo' = <<w1, w2>>
      BY <1>9, <1>12, <2>1, ShortSequences
    <2> QED BY <1>9, <1>12, <2>2
  <1> HIDE DEF w2
  <1>14. After(0)' = disk /\ After(1)' = e1 /\ After(2)' = e2 /\ Final' = e2
    BY <1>1, <1>13 DEF Final, After, AfterOf, e1
  <1>15. /\ \A k \in 0..Len(todo') : Sound(After(k)', lost)
         /\ \A k \in 1..Len(todo') : Follows(After(k - 1)', After(k)')
    <2>1. 0..Len(todo') = {0, 1, 2} /\ 1..Len(todo') = {1, 2} /\ 1 - 1 = 0 /\ 2 - 1 = 1
      BY <1>13
    <2> QED BY <1>3, <1>9, <1>11, <1>14, <2>1
  <1>16. SameEntries(disk, e2)
    BY <1>9, <1>11 DEF SameEntries
  <1>17. op'.kind = "update" /\ op' # Idle
    <2>1. op'.kind # Idle.kind
      BY <1>1 DEF Idle
    <2> QED BY <1>1, <2>1
  <1>18. TypeOK'
    <2>1. op' \in OpType
      BY <1>1 DEF OpType
    <2> QED BY <1>1, <1>3, <1>5, <1>6, <1>13, <2>1 DEF TypeOK
  <1> HIDE DEF e2
  <1> QED BY <1>1, <1>3, <1>6, <1>7, <1>11, <1>13, <1>14, <1>15, <1>16, <1>17, <1>18, <1>19,
            KeepsItself, WritingStep DEF x

-----------------------------------------------------------------------------
(* The invariant, and what follows from it. *)

LEMMA InitDiskInv == Init => DiskInv
  <1> SUFFICES ASSUME Init PROVE DiskInv
    OBVIOUS
  <1> USE DEF Init
  <1>1. TypeOK
    <2>1. fat \in MapType
      BY Fat32Assumption DEF MapType, FAT32_FAT_EMPTY_ENTRY
    <2>2. disk \in [Cluster -> Content]
      BY DEF Content
    <2>3. todo \in Seq(DiskWrite) /\ Len(todo) <= 3
      OBVIOUS
    <2> QED BY <2>1, <2>2, <2>3 DEF TypeOK, OpType
  <1>2. PowerOff
    <2>1. BOOT_SECTOR \in Cluster /\ FAT_CLUSTER_NUMBER \in Cluster
      BY Fat32Assumption DEF BOOT_SECTOR, FAT_CLUSTER_NUMBER, Cluster
    <2> QED BY <2>1 DEF PowerOff, Data
  <1>3. DisksTidy
    <2>1. \A c \in Cluster : disk[c].is = "data"
      BY DEF Data
    <2>2. ROOT_CLUSTER_NUMBER \in Cluster
      BY Fat32Assumption DEF ROOT_CLUSTER_NUMBER, Cluster
    <2>3. HeadsDiffer(disk)
      BY <2>1, <2>2, NoEntriesYet
    <2>4. Tidy(disk)
      BY <2>1, <2>2, <2>3 DEF Tidy
    <2> QED BY <2>4 DEF DisksTidy
  <1> QED BY <1>1, <1>2, <1>3 DEF DiskInv

LEMMA NextDiskInv ==
    ASSUME CrashPoints \subseteq {"delete", "write", "update"}, DeleteOpen = FALSE,
           DiskInv, [Next]_vars
    PROVE  DiskInv'
  <1>1. CASE CreateFat32
    BY <1>1, CreateStep
  <1>2. CASE Boot
    BY <1>2, BootStep
  <1>3. CASE Crash
    BY <1>3, CrashStep
  <1>4. CASE WriteClusters
    BY <1>4, WriteClustersStep
  <1>5. ASSUME NEW n \in Name, MkDir(n)
        PROVE  DiskInv'
    <2>1. ROOT_CLUSTER_NUMBER \in Directories
      BY Views DEF DirectoriesOn
    <2>2. MkGeneral(ROOT_CLUSTER_NUMBER, n, "dir")
      BY <1>5, Zenon DEF MkDir
    <2> QED BY <2>1, <2>2, MkStep
  <1>6. ASSUME NEW n \in Name, NEW d \in Directories, MkFile(d, n)
        PROVE  DiskInv'
    BY <1>6, MkStep DEF MkFile
  <1>7. ASSUME NEW n \in Name, NEW d \in Directories, Delete(d, n)
        PROVE  DiskInv'
    BY <1>7, DeleteStep
  <1>8. ASSUME NEW n \in Name, NEW h \in Handle, NEW d \in Directories, Open(h, d, n)
        PROVE  DiskInv'
    BY <1>8, OpenStep
  <1>9. ASSUME NEW h \in Handle,
               \/ Close(h) \/ Read(h)
               \/ \E n \in 0..MaxWrite : Write(h, n)
               \/ WriteInside(h) \/ WriteNext(h) \/ WriteAppend(h)
               \/ WriteFull(h) \/ WriteEnd(h)
        PROVE  DiskInv'
    <2>1. ASSUME NEW n \in 0..MaxWrite, Write(h, n)
          PROVE  DiskInv'
      <3>1. n \in Nat
        BY Fat32Assumption
      <3> QED BY <2>1, <3>1, WriteStep
    <2> QED BY <1>9, <2>1, CloseStep, ReadStep, WriteInsideStep, WriteNextStep, WriteAppendStep,
               WriteFullStep, WriteEndStep
  <1>10. CASE UNCHANGED vars
    BY <1>10 DEF vars, DiskInv, TypeOK, PowerOff, PowerOn, DisksSound, DisksTidy, LostAfter, After,
       Final, HandleOK, EntryOf, MapOf
  <1> QED BY <1>1, <1>2, <1>3, <1>4, <1>5, <1>6, <1>7, <1>8, <1>9, <1>10 DEF Next

(***************************************************************************)
(* Between the writes of every operation but the formatting and mkgeneral  *)
(* the disk is sound, and the operation ends with one that the table in    *)
(* memory agrees with.                                                     *)
(***************************************************************************)
THEOREM DiskInvariant ==
    ASSUME CrashPoints \subseteq {"delete", "write", "update"}, DeleteOpen = FALSE
    PROVE  Spec => []DiskInv
  <1>1. DiskInv /\ [Next]_vars => DiskInv'
    BY NextDiskInv
  <1> QED BY <1>1, InitDiskInv, PTL DEF Spec

LEMMA SoundChains ==
    ASSUME NEW l, Sound(disk, l)
    PROVE  ChainsSound(MapOf(disk))
  <1> DEFINE map == MapOf(disk)
             H == Heads(disk)
  <1>1. /\ TablesSound(disk) /\ LinksSound(map, H, l) /\ IsMap(map) /\ map \in MapType
    BY DEF Sound, LinksSound, IsMap
  <1>2. \A p \in Entries : EntryAt(p).cluster = Head0(disk, p) /\ Head0(disk, p) \in H
                           /\ ChainOf(map, p) = Chain(map, Head0(disk, p))
    BY Views DEF Head0, Heads, ChainOf
  <1>3. \A p, q \in Entries : p # q => Head0(disk, p) # Head0(disk, q)
    BY <1>1, Views DEF TablesSound
  <1> HIDE DEF map, H
  <1>4. Chain(map, ROOT_CLUSTER_NUMBER) = {ROOT_CLUSTER_NUMBER}
    <2>1. /\ ROOT_CLUSTER_NUMBER \in Cluster
          /\ map[ROOT_CLUSTER_NUMBER] \notin Cluster
      BY <1>1, Fat32Assumption DEF IsMap, Cluster, ROOT_CLUSTER_NUMBER, FAT32_FAT_END_OF_FILE
    <2>2. /\ ROOT_CLUSTER_NUMBER \in Chain(map, ROOT_CLUSTER_NUMBER)
          /\ \A c \in Chain(map, ROOT_CLUSTER_NUMBER) : Owns(map, ROOT_CLUSTER_NUMBER, c)
      BY <1>1, <2>1, ChainFacts
    <2>3. {ROOT_CLUSTER_NUMBER} \in SUBSET Cluster /\ IsClosed(map, {ROOT_CLUSTER_NUMBER})
      BY <2>1 DEF IsClosed
    <2> QED BY <2>2, <2>3 DEF Owns
  <1>5. ASSUME NEW p \in Entries
        PROVE  /\ EndsInEOF(map, EntryAt(p).cluster)
               /\ \A c \in ChainOf(map, p) : c > ROOT_CLUSTER_NUMBER
                                             /\ map[c] # FAT32_FAT_EMPTY_ENTRY
               /\ \A q \in Entries \ {p} : ChainOf(map, p) \cap ChainOf(map, q) = {}
    <2> DEFINE h == Head0(disk, p)
    <2>1. h \in H /\ EntryAt(p).cluster = h /\ ChainOf(map, p) = Chain(map, h)
      BY <1>2
    <2>2. \A q \in Entries \ {p} : /\ Head0(disk, q) \in H \ {h}
                                   /\ ChainOf(map, q) = Chain(map, Head0(disk, q))
      BY <1>2, <1>3
    <2> HIDE DEF h
    <2>3. EndsInEOF(map, h) /\ Chain(map, h) \subseteq Used(map)
      BY <1>1, <2>1, ChainOfHead
    <2>4. \A g \in H \ {h} : Chain(map, h) \cap Chain(map, g) = {}
      BY <1>1, <2>1, ChainsApart
    <2> QED BY <2>1, <2>2, <2>3, <2>4 DEF Used
  <1> QED BY <1>4, <1>5 DEF ChainsSound, map

(* No cluster belongs to two files. *)
THEOREM FilesAreDisjoint ==
    ASSUME CrashPoints \subseteq {"delete", "write", "update"}, DeleteOpen = FALSE
    PROVE  Spec => []FilesDisjoint
  <1>1. DiskInv => FilesDisjoint
    <2> SUFFICES ASSUME DiskInv, Ready
                 PROVE  ChainsSound(fat)
      BY DEF FilesDisjoint
    <2>1. power = "on" /\ todo = <<>>
      BY DEF Ready, DiskInv, PowerOn, Idle
    <2> QED BY <2>1, AtRest, SoundChains
  <1> QED BY <1>1, DiskInvariant, PTL

(* A power failure while the disk is changed leaves a sound disk. *)
THEOREM DiskSurvivesCrashes ==
    ASSUME CrashPoints \subseteq {"delete", "write", "update"}, DeleteOpen = FALSE
    PROVE  Spec => []DiskSurvives
  <1>1. DiskInv => DiskSurvives
    <2> SUFFICES ASSUME DiskInv, power = "off", disk[FAT_CLUSTER_NUMBER].is = "fat"
                 PROVE  ChainsSound(disk[FAT_CLUSTER_NUMBER].map)
      BY DEF DiskSurvives
    <2>1. Sound(disk, lost)
      BY DEF DiskInv, PowerOff
    <2> QED BY <2>1, SoundChains DEF MapOf
  <1> QED BY <1>1, DiskInvariant, PTL

(* What is used and in no file was lost in a power failure. *)
THEOREM NothingElseLeaks ==
    ASSUME CrashPoints \subseteq {"delete", "write", "update"}, DeleteOpen = FALSE
    PROVE  Spec => []NothingLeaks
  <1>1. ASSUME DiskInv, Ready
        PROVE  {c \in Cluster : fat[c] # FAT32_FAT_EMPTY_ENTRY}
                   = {BOOT_SECTOR, FAT_CLUSTER_NUMBER} \cup Reached(fat) \cup lost
    <2> DEFINE H == Heads(disk)
    <2>1. power = "on" /\ todo = <<>>
      BY <1>1 DEF Ready, DiskInv, PowerOn, Idle
    <2>2. LinksSound(fat, H, lost)
      BY <1>1, <2>1, AtRest
    <2>3. \A c : c \in UNION {ChainOf(fat, p) : p \in Entries} <=> \E h \in H : c \in Chain(fat, h)
      <3>1. H = {EntryAt(p).cluster : p \in Entries}
        BY Views DEF Heads, Head0
      <3> HIDE DEF H
      <3> QED BY <3>1 DEF ChainOf
    <2> HIDE DEF H
    <2>4. \A h \in H : \A c : c \in Chain(fat, h) <=> c \in Cluster /\ Owns(fat, h, c)
      BY <2>2, ChainOfHead
    <2>5. \A h \in H : Chain(fat, h) \subseteq Used(fat)
      BY <2>2, ChainOfHead
    <2>6. \A c \in Used(fat) : c \in lost \/ \E h \in H : c \in Chain(fat, h)
      BY <2>2, <2>4 DEF LinksSound, Used
    <2>7. lost \subseteq Used(fat) /\ IsMap(fat)
      BY <2>2 DEF LinksSound
    <2>8. {c \in Cluster : fat[c] # FAT32_FAT_EMPTY_ENTRY}
              = {BOOT_SECTOR, FAT_CLUSTER_NUMBER, ROOT_CLUSTER_NUMBER} \cup Used(fat)
      BY <2>7, Fat32Assumption DEF IsMap, Used, Cluster, BOOT_SECTOR, FAT_CLUSTER_NUMBER,
         ROOT_CLUSTER_NUMBER, CLUSTER_0_VALUE, FAT32_FAT_END_OF_FILE, FAT32_FAT_EMPTY_ENTRY
    <2>9. Used(fat) = (UNION {ChainOf(fat, p) : p \in Entries}) \cup lost
      BY <2>3, <2>5, <2>6, <2>7
    <2> QED BY <2>8, <2>9 DEF Reached
  <1>2. DiskInv => NothingLeaks
    BY <1>1 DEF NothingLeaks
  <1> QED BY <1>2, DiskInvariant, PTL

(* A chain has as many clusters as the bytes it covers take. *)
LEMMA ChainHolds ==
    ASSUME NEW map, NEW H, NEW l, LinksSound(map, H, l), NEW h \in H,
           NEW n \in Nat, Covers(map, h, n)
    PROVE  n <= ClusterSize * Cardinality(Chain(map, h))
  <1> DEFINE W == Walk(map, h)
             C == Chain(map, h)
             s == ClusterSize
  <1>1. /\ map \in MapType /\ IsLinked(map) /\ h \in Used(map)
        /\ \A c \in Used(map) : map[c] # h
        /\ EndsInEOF(map, h) /\ C \subseteq Used(map) /\ C \subseteq Cluster
    BY ChainOfHead DEF LinksSound, IsMap, Used
  <1>2. /\ s \in Nat \ {0} /\ ClusterCount \in Nat
        /\ W[ClusterCount] \notin Cluster
        /\ \A i \in 0..ClusterCount : i * s < n => W[i] \in Cluster
    BY <1>1, Fat32Assumption DEF EndsInEOF, FAT32_FAT_END_OF_FILE, Cluster, Covers
  <1>3. \A i \in 0..ClusterCount : W[i] \in Cluster => W[i] \in C
    BY DEF Chain
  <1>4. IsFiniteSet(C) /\ Cardinality(C) \in Nat
    <2>1. IsFiniteSet(Cluster)
      BY <1>2, FS_Interval DEF Cluster
    <2> QED BY <1>1, <2>1, FS_Subset, FS_CardinalityType
  <1> HIDE DEF W, C, s
  <1> DEFINE K == {k \in Nat : n <= k * s}
  <1>5. PICK k \in K : \A j \in K : k <= j
    <2>1. n \in K
      <3>1. 1 <= s /\ n * 1 <= n * s
        BY <1>2
      <3> QED BY <3>1
    <2>2. K \in SUBSET Nat
      OBVIOUS
    <2> HIDE DEF K
    <2> QED BY <2>1, <2>2, SmallestElement
  <1>6. \A i \in 0..(k - 1) : i \in 0..ClusterCount /\ W[i] \in C
    <2>1. ClusterCount \in K
      BY <1>2
    <2>2. k <= ClusterCount
      BY <1>5, <2>1
    <2> SUFFICES ASSUME NEW i \in 0..(k - 1)
                 PROVE  i \in 0..ClusterCount /\ W[i] \in C
      OBVIOUS
    <2>3. i \in Nat /\ i < k /\ i \in 0..ClusterCount
      BY <1>2, <1>5, <2>2
    <2>4. i \notin K
      BY <1>5, <2>3
    <2>5. i * s < n
      BY <1>2, <2>3, <2>4
    <2> QED BY <1>2, <1>3, <2>3, <2>5
  <1>7. k <= Cardinality(C)
    <2> SUFFICES ASSUME Cardinality(C) < k
                 PROVE  FALSE
      BY <1>4, <1>5
    <2> DEFINE P == 0..(k - 1)
               f == [i \in P |-> W[i]]
    <2>1. IsFiniteSet(P) /\ Cardinality(P) = k
      <3>1. k \in Nat /\ k > 0
        BY <1>4, <1>5
      <3>2. 0 \in Int /\ k - 1 \in Int /\ ~(0 > k - 1) /\ (k - 1) - 0 + 1 = k
        BY <3>1
      <3> HIDE DEF K
      <3> QED BY <3>2, FS_Interval
    <2>2. f \in [P -> C]
      BY <1>6
    <2> HIDE DEF P, f
    <2>3. \E x, y \in P : x # y /\ f[x] = f[y]
      BY <1>4, <2>1, <2>2, FS_PigeonHole
    <2>4. PICK x \in P, y \in P : x # y /\ W[x] = W[y]
      BY <2>3 DEF f
    <2>5. k - 1 \in 0..ClusterCount
      BY <1>4, <1>5, <1>6
    <2>6. \A i \in 0..(k - 1) : W[i] \in Used(map)
      BY <1>1, <1>6
    <2> QED BY <1>1, <2>4, <2>5, <2>6, WalkOnce DEF W, P
  <1>8. n <= Cardinality(C) * s
    <2>1. k \in Nat /\ n <= k * s /\ k * s <= Cardinality(C) * s
      BY <1>2, <1>4, <1>5, <1>7, Multiples
    <2> QED BY <1>2, <1>4, <2>1
  <1> QED BY <1>2, <1>4, <1>8 DEF C, s

(* No file is larger than its clusters, and no reader finds it so. *)
THEOREM FilesAreCovered ==
    ASSUME CrashPoints \subseteq {"delete", "write", "update"}, DeleteOpen = FALSE
    PROVE  Spec => []SizesAreCovered
  <1>1. ASSUME DiskInv, power = "off", disk[FAT_CLUSTER_NUMBER].is = "fat", NEW p \in Entries
        PROVE  EntryAt(p).filesize <=
                   ClusterSize * Cardinality(ChainOf(disk[FAT_CLUSTER_NUMBER].map, p))
    <2> DEFINE map == MapOf(disk)
               h == Head0(disk, p)
    <2>1. Sound(disk, lost)
      BY <1>1 DEF DiskInv, PowerOff
    <2>2. /\ p \in EntriesOn(disk) /\ EntryAt(p) = EntryOn(disk, p)
          /\ ChainOf(map, p) = Chain(map, h)
      BY Views DEF ChainOf, Head0
    <2>3. EntryOn(disk, p).filesize \in Nat
      BY <2>1, <2>2, SoundTables DEF EntryType
    <2>4. LinksSound(map, Heads(disk), lost) /\ h \in Heads(disk)
      BY <2>1, <2>2 DEF Sound, Heads
    <2>5. Covers(map, h, EntryOn(disk, p).filesize)
      BY <2>1, <2>2 DEF Sound, SizesCovered
    <2> HIDE DEF map, h
    <2>6. EntryOn(disk, p).filesize <= ClusterSize * Cardinality(Chain(map, h))
      BY <2>3, <2>4, <2>5, ChainHolds
    <2> QED BY <2>2, <2>6 DEF map, MapOf
  <1>2. ASSUME DiskInv, NEW h \in Handle, handle[h] # Closed
        PROVE  handle[h].mode # "corrupted"
    <2>1. HandleOK(h)
      BY <1>2 DEF DiskInv, TypeOK, PowerOff, PowerOn
    <2> QED BY <1>2, <2>1 DEF HandleOK, PositionOK
  <1>3. DiskInv => SizesAreCovered
    BY <1>1, <1>2 DEF SizesAreCovered
  <1> QED BY <1>3, DiskInvariant, PTL

(* Every descriptor keeps the cluster of its position. *)
THEOREM PositionsFollowChains ==
    ASSUME CrashPoints \subseteq {"delete", "write", "update"}, DeleteOpen = FALSE
    PROVE  Spec => []PositionsAgree
  <1>1. ASSUME DiskInv, Ready, NEW h \in Handle, handle[h] # Closed
        PROVE  LET position == handle[h].progress_pointer
                   current  == handle[h].current_cluster
                   loaded   == (position + ClusterSize - 1) \div ClusterSize
               IN  /\ handle[h].mode \in {"new", "write"} /\ position = 0
                          => current = FileChain(h)[0]
                   /\ handle[h].mode = "write" /\ position > 0
                          => current = FileChain(h)[(position - 1) \div ClusterSize]
                   /\ handle[h].mode = "read" /\ loaded * ClusterSize < handle[h].progress_end
                          => current = FileChain(h)[loaded]
    <2> DEFINE position == handle[h].progress_pointer
               current  == handle[h].current_cluster
               end == handle[h].progress_end
               s == ClusterSize
               loaded == (position + s - 1) \div s
               head == Head0(disk, EntryOf(h))
               W == Walk(fat, head)
    <2>1. power = "on" /\ todo = <<>> /\ TypeOK
      BY <1>1 DEF Ready, DiskInv, PowerOn, Idle
    <2>2. PositionOK(fat, head, handle[h]) /\ W[ClusterCount] \notin Cluster
      BY <1>1, <2>1, FileOfHandle
    <2>3. FileChain(h) = W
      BY DEF FileChain, Head0, EntryOn, EntryOf
    <2>4. position \in Nat /\ end \in Nat /\ s \in Nat \ {0} /\ ClusterCount \in Nat
      BY <1>1, <2>1, Fat32Assumption DEF TypeOK, HandleType
    <2>5. W[0] = head
      BY WalkSteps
    <2>6. /\ \A i \in 0..ClusterCount : i * s < end => W[i] \in Cluster
          /\ handle[h].mode = "new" => current = head
          /\ handle[h].mode = "write" =>
                 /\ position = 0 => current = head
                 /\ position > 0 => \E i \in 0..ClusterCount :
                        i * s < position /\ position <= (i + 1) * s /\ current = W[i]
          /\ handle[h].mode = "read" =>
                 \A i \in 0..ClusterCount :
                     (i - 1) * s < position /\ position <= i * s /\ i * s < end
                         => current = W[i]
      BY <2>2 DEF PositionOK, Covers, IsBuffer, IsAhead
    <2> HIDE DEF position, current, end, s, head, W
    <2>7. ASSUME handle[h].mode = "write", position > 0
          PROVE  current = W[(position - 1) \div s]
      <3>1. PICK i \in 0..ClusterCount :
                i * s < position /\ position <= (i + 1) * s /\ current = W[i]
        BY <2>6, <2>7
      <3>2. /\ i \in Nat /\ position - 1 \in Nat
            /\ i * s \in Nat /\ (i + 1) * s \in Nat
        BY <2>4, <2>7
      <3>3. i * s <= position - 1 /\ position - 1 < (i + 1) * s
        BY <2>4, <3>1, <3>2
      <3> QED BY <2>4, <3>1, <3>2, <3>3, Quotient
    <2>8. ASSUME handle[h].mode = "read", loaded * s < end
          PROVE  current = W[loaded]
      <3> DEFINE m == position + s - 1
      <3>1. m \in Nat /\ loaded = m \div s
        BY <2>4
      <3>2. loaded \in Nat /\ loaded * s <= m /\ m < (loaded + 1) * s
        BY <2>4, <3>1, Quotients
      <3> HIDE DEF loaded
      <3>3. (loaded + 1) * s = loaded * s + s /\ (loaded - 1) * s = loaded * s - s
            /\ loaded * s \in Nat
        BY <2>4, <3>2
      <3>4. (loaded - 1) * s < position /\ position <= loaded * s
        BY <2>4, <3>2, <3>3
      <3>5. loaded \in 0..ClusterCount
        <4>1. ClusterCount * s \in Nat /\ ClusterCount * s >= end
          BY <2>2, <2>4, <2>6
        <4>2. loaded * s < ClusterCount * s
          BY <2>4, <2>8, <3>3, <4>1
        <4> QED BY <2>4, <3>2, <4>2, Multiples
      <3> QED BY <2>6, <2>8, <3>4, <3>5
    <2> QED BY <2>3, <2>5, <2>6, <2>7, <2>8 DEF position, current, end, s
  <1>2. DiskInv => PositionsAgree
    BY <1>1 DEF PositionsAgree
  <1> QED BY <1>2, DiskInvariant, PTL

-----------------------------------------------------------------------------
(* The tree that the disk implements. *)

LEMMA TreeView == TreeOnDisk = TreeOn(disk)
  <1>1. ASSUME NEW p
        PROVE  PlaceOf(p) = PlaceOn(disk, p)
    <2>1. CASE p[1] = ROOT_CLUSTER_NUMBER
      BY <2>1 DEF PlaceOf, PlaceOn, SlotOf
    <2>2. CASE p[1] # ROOT_CLUSTER_NUMBER
      <3> DEFINE holder == CHOOSE s \in Slot :
                               LET e == disk[ROOT_CLUSTER_NUMBER].entry[s]
                               IN  e # NoEntry /\ e.cluster = p[1]
      <3>1. PlaceOf(p) = <<holder, p[2]>>
        BY <2>2, Zenon DEF PlaceOf
      <3>2. SlotOf(disk, p[1]) = holder
        BY <2>2, Zenon DEF SlotOf
      <3> HIDE DEF holder
      <3> QED BY <3>1, <3>2 DEF PlaceOn
    <2> QED BY <2>1, <2>2
  <1>2. Entries = EntriesOn(disk) /\ \A p : EntryAt(p) = EntryOn(disk, p)
    BY Views
  <1>3. {PlaceOf(p) : p \in Entries} = {PlaceOn(disk, p) : p \in EntriesOn(disk)}
    BY <1>1, <1>2
  <1>4. \A place : (CHOOSE p \in Entries : PlaceOf(p) = place)
                       = (CHOOSE p \in EntriesOn(disk) : PlaceOn(disk, p) = place)
    BY <1>1, <1>2
  <1>5. TreeOnDisk = [place \in {PlaceOn(disk, p) : p \in EntriesOn(disk)} |->
                         Shown(EntryAt(CHOOSE p \in Entries : PlaceOf(p) = place))]
    BY <1>3 DEF TreeOnDisk, Shown
  <1>6. ASSUME NEW place
        PROVE  Shown(EntryAt(CHOOSE p \in Entries : PlaceOf(p) = place))
                   = Shown(EntryOn(disk, CHOOSE p \in EntriesOn(disk) : PlaceOn(disk, p) = place))
    BY <1>2, <1>4, Zenon
  <1> QED BY <1>5, <1>6 DEF TreeOn

(* The operations of the tree are those of FileTree. *)
LEMMA TreeStepIsFileTree ==
    ASSUME TreeStep(disk, disk')
    PROVE  [FT!Next]_TreeOnDisk
  <1>1. TreeOnDisk = TreeOn(disk)
    BY TreeView
  <1>2. TreeOnDisk' = TreeOn(disk')
    <2>1. (TreeOnDisk = TreeOn(disk))'
      BY TreeView, PTL
    <2> QED BY <2>1
  <1>3. CASE TreeOn(disk') = TreeOn(disk)
    BY <1>1, <1>2, <1>3
  <1>4. ASSUME NEW p \in (0..SlotCount) \X Slot, NEW kind \in {"file", "dir"}, NEW name \in Name,
               Makes(TreeOnDisk, TreeOnDisk', p, kind, name)
        PROVE  FT!Next
    <2>1. FT!Make(p, kind, name)
      BY <1>4 DEF FT!Make, FT!IsDirectory, Makes
    <2> QED BY <2>1 DEF FT!Next, FT!Place, Slot
  <1>5. ASSUME NEW p \in (0..SlotCount) \X Slot, Removes(TreeOnDisk, TreeOnDisk', p)
        PROVE  FT!Next
    <2>1. FT!Remove(p)
      BY <1>5 DEF FT!Remove, Removes
    <2> QED BY <2>1 DEF FT!Next, FT!Place, Slot
  <1>6. ASSUME NEW p \in (0..SlotCount) \X Slot, NEW size \in 0..MaxSize,
               Resizes(TreeOnDisk, TreeOnDisk', p, size)
        PROVE  FT!Next
    <2>1. FT!Resize(p, size)
      BY <1>6 DEF FT!Resize, Resizes
    <2> QED BY <2>1 DEF FT!Next, FT!Place, Slot
  <1> QED BY <1>1, <1>2, <1>3, <1>4, <1>5, <1>6 DEF TreeStep

(* A formatted disk to be shows no entries. *)
LEMMA InitTree == Init => FT!Init
  <1> SUFFICES ASSUME Init PROVE FT!Init
    OBVIOUS
  <1>1. disk[ROOT_CLUSTER_NUMBER].is # "table"
    BY Fat32Assumption DEF Init, Data, ROOT_CLUSTER_NUMBER, Cluster
  <1>2. EntriesOn(disk) = {}
    BY <1>1, NoEntriesYet
  <1>3. TreeOn(disk) = [p \in {} |-> 0]
    BY <1>2 DEF TreeOn
  <1> QED BY <1>3, TreeView DEF FT!Init

(* Only a write to the disk changes what it shows, and as its operation    *)
(* says.                                                                   *)
LEMMA NextTree ==
    ASSUME DiskInv, [Next]_vars
    PROVE  [FT!Next]_TreeOnDisk
  <1>1. CASE WriteClusters
    <2>1. todo # <<>> /\ disk' = Apply(disk, todo[1]) /\ 1 \in 1..Len(todo)
      <3>1. todo \in Seq(DiskWrite) /\ todo # <<>>
        BY <1>1 DEF WriteClusters, DiskInv, TypeOK
      <3>2. Len(todo) \in Nat /\ Len(todo) # 0 /\ Head(todo) = todo[1]
        BY <3>1, EmptySeq
      <3>3. disk' = Apply(disk, Head(todo))
        BY <1>1, Zenon DEF WriteClusters, Apply
      <3>4. 1 \in 1..Len(todo)
        BY <3>2
      <3> QED BY <3>1, <3>2, <3>3, <3>4
    <2>2. Follows(After(1 - 1), After(1))
      BY <2>1 DEF DiskInv, DisksTidy
    <2>3. After(1 - 1) = disk /\ After(1) = disk'
      BY <2>1 DEF After, AfterOf
    <2>4. TreeStep(disk, disk')
      BY <2>2, <2>3 DEF Follows
    <2> QED BY <2>4, TreeStepIsFileTree
  <1>2. ASSUME disk' = disk
        PROVE  [FT!Next]_TreeOnDisk
    <2>1. TreeStep(disk, disk')
      BY <1>2 DEF TreeStep
    <2> QED BY <2>1, TreeStepIsFileTree
  <1>3. CASE ~WriteClusters
    <2>1. CASE UNCHANGED vars
      BY <1>2, <2>1 DEF vars
    <2>2. CASE CreateFat32 \/ Boot \/ Crash
      BY <1>2, <2>2 DEF CreateFat32, Boot, Crash
    <2>3. ASSUME NEW n \in Name, MkDir(n)
          PROVE  disk' = disk
      BY <2>3, Zenon DEF MkDir, MkGeneral
    <2>4. ASSUME NEW n \in Name, NEW d \in Directories, MkFile(d, n) \/ Delete(d, n)
          PROVE  disk' = disk
      BY <2>4, Zenon DEF MkFile, MkGeneral, Delete
    <2>5. ASSUME NEW n \in Name, NEW h \in Handle, NEW d \in Directories, Open(h, d, n)
          PROVE  disk' = disk
      BY <2>5, Zenon DEF Open
    <2>6. ASSUME NEW h \in Handle,
                 \/ Close(h) \/ Read(h)
                 \/ \E n \in 0..MaxWrite : Write(h, n)
                 \/ WriteInside(h) \/ WriteNext(h) \/ WriteAppend(h)
                 \/ WriteFull(h) \/ WriteEnd(h)
          PROVE  disk' = disk
      BY <2>6, Zenon DEF Close, Read, Write, WriteInside, WriteNext, WriteAppend, WriteFull, WriteEnd
    <2>7. Next => disk' = disk \/ CreateFat32 \/ Boot \/ Crash
      BY <1>3, <2>3, <2>4, <2>5, <2>6 DEF Next
    <2> QED BY <1>2, <2>1, <2>2, <2>7
  <1> QED BY <1>1, <1>3

(***************************************************************************)
(* Whatever the interleaving of descriptors, and wherever the power fails  *)
(* in a write or a delete, what the disk shows changes only as if          *)
(* mkgeneral, delete_vfs and write_vfs happened at once: a file of a       *)
(* directory is made in a place that was free, only an empty directory is  *)
(* removed, and only a file gets another size.                             *)
(***************************************************************************)
THEOREM DiskImplementsTree ==
    ASSUME CrashPoints \subseteq {"delete", "write", "update"}, DeleteOpen = FALSE
    PROVE  Spec => RefinesFileTree
  <1>1. Spec => []DiskInv
    BY DiskInvariant
  <1>2. DiskInv /\ [Next]_vars => [FT!Next]_TreeOnDisk
    BY NextTree
  <1> QED BY <1>1, <1>2, InitTree, PTL DEF Spec, RefinesFileTree, FT!Spec
=============================================================================
