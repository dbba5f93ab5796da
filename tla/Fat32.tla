-------------------------------- MODULE Fat32 --------------------------------
(***************************************************************************)
(* The FAT32 file system: fat32.c.  The driver keeps the file allocation   *)
(* table in memory and writes it, the directory tables and the data of     *)
(* files to the disk, one cluster at a time.  A system call runs with      *)
(* interrupts disabled, so operations do not interleave; but the power may *)
(* fail between two writes of one operation (todo holds those to come).    *)
(*                                                                         *)
(* Abstractions: a cluster is written completely or not at all; file data  *)
(* never looks like a directory entry; a byte is one of ClusterSize units  *)
(* of a cluster and has no value.  Operations that return an error before  *)
(* they change anything are stuttering steps.                              *)
(***************************************************************************)
EXTENDS Integers, FiniteSets, FiniteSetsExt, SequencesExt

CONSTANTS
    ClusterCount,   \* CLUSTER_MAP_SIZE
    ClusterSize,    \* CLUSTER_SIZE
    SlotCount,      \* MAX_DIR_TABLE_ENTRY - RESERVED_ENTRY
    Name,           \* file names: [base, ext] with ext = "" for none
    Handle,         \* the file table's entries for this file system
    MaxWrite,       \* bound: the size of one write
    MaxSize,        \* bound: files do not grow beyond it
    CrashPoints,    \* the operations that a power failure may interrupt
    DeleteOpen      \* may programs delete files that are open?

ASSUME Fat32Assumption ==
    /\ ClusterCount \in Nat /\ ClusterCount > 2
    /\ ClusterSize \in Nat \ {0}
    /\ SlotCount \in Nat
    /\ MaxWrite \in Nat /\ MaxSize \in Nat
    /\ CrashPoints \subseteq {"format", "mk", "delete", "write", "update"}
    /\ DeleteOpen \in BOOLEAN

Cluster == 0..(ClusterCount - 1)
Slot == 1..SlotCount

BOOT_SECTOR == 0
FAT_CLUSTER_NUMBER == 1
ROOT_CLUSTER_NUMBER == 2

(* Values of the file allocation table that are not the next cluster.      *)
FAT32_FAT_EMPTY_ENTRY == 0
FAT32_FAT_END_OF_FILE == ClusterCount
CLUSTER_0_VALUE == ClusterCount + 1

VARIABLES
    power,      \* "on" or "off"
    disk,       \* what each cluster of the disk holds
    fat,        \* fat32_driver_state.fat_table.cluster_map
    handle,     \* struct VFSState of each open file
    op,         \* the operation in progress, and for a write what is left of it
    todo,       \* the disk writes it has still to do
    lost        \* history: clusters that a power failure made unreachable

vars == <<power, disk, fat, handle, op, todo, lost>>

Closed == [mode |-> "closed"]

Idle == [kind |-> "idle"]

NoEntry == [kind |-> "none"]

Table(entries) == [is |-> "table", entry |-> entries]

EmptyTable == Table([s \in Slot |-> NoEntry])

IsTable(c) == disk[c].is = "table"

Data == [is |-> "data"]

WriteTo(c, content) == [cluster |-> c, content |-> content]

Ready == power = "on" /\ op = Idle

(***************************************************************************)
(* Following a chain: the n-th step from c, which stays where the value is *)
(* no cluster, and the clusters passed.                                    *)
(***************************************************************************)
Walk(map, c) ==
    LET f[n \in 0..ClusterCount] ==
            IF n = 0 THEN c
            ELSE IF f[n - 1] \in Cluster THEN map[f[n - 1]] ELSE f[n - 1]
    IN  f

EndsInEOF(map, c) == Walk(map, c)[ClusterCount] = FAT32_FAT_END_OF_FILE

Chain(map, c) == {Walk(map, c)[n] : n \in 0..ClusterCount} \cap Cluster

-----------------------------------------------------------------------------
(* Boot, power failure, and the disk.                                      *)

(* A disk without the signature. *)
Init == /\ power = "off"
        /\ disk = [c \in Cluster |-> Data]
        /\ fat = [c \in Cluster |-> FAT32_FAT_EMPTY_ENTRY]
        /\ handle = [h \in Handle |-> Closed]
        /\ op = Idle
        /\ todo = <<>>
        /\ lost = {}

(* create_fat32's table: clusters 0 and 1 have the same reserved value. *)
FormattedFat ==
    [c \in Cluster |-> CASE c \in {0, 1} -> CLUSTER_0_VALUE
                         [] c = 2 -> FAT32_FAT_END_OF_FILE
                         [] OTHER -> FAT32_FAT_EMPTY_ENTRY]

(* initialize_filesystem_fat32 on a disk without the signature. *)
CreateFat32 ==
    /\ power = "off"
    /\ disk[BOOT_SECTOR].is # "signature"
    /\ power' = "on"
    /\ lost' = {}
    /\ fat' = FormattedFat
    /\ op' = [kind |-> "format"]
    /\ todo' = << WriteTo(BOOT_SECTOR, [is |-> "signature"]),
                  WriteTo(FAT_CLUSTER_NUMBER, [is |-> "fat", map |-> FormattedFat]),
                  WriteTo(ROOT_CLUSTER_NUMBER, EmptyTable) >>
    /\ UNCHANGED <<disk, handle>>

(* initialize_filesystem_fat32 on a disk with it. *)
Boot ==
    /\ power = "off"
    /\ disk[BOOT_SECTOR].is = "signature"
    /\ power' = "on"
    /\ fat' = disk[FAT_CLUSTER_NUMBER].map
    /\ UNCHANGED <<disk, handle, op, todo, lost>>

(* The next write_clusters of the operation; other operations wait. *)
WriteClusters ==
    /\ todo # <<>>
    /\ disk' = [disk EXCEPT ![Head(todo).cluster] = Head(todo).content]
    /\ todo' = Tail(todo)
    /\ op' = IF todo' = <<>> /\ op.kind # "write" THEN Idle ELSE op
    /\ UNCHANGED <<power, fat, handle, lost>>

-----------------------------------------------------------------------------
(* What a directory tree on the disk holds.  Bound: directories are made   *)
(* in the root only.                                                       *)

EntryAt(p) == disk[p[1]].entry[p[2]]

(* A cluster that holds data shows no entries. *)
EntriesOf(d) == {p \in {d} \X Slot : IsTable(d) /\ EntryAt(p) # NoEntry}

SubdirectoriesOf(d) == {EntryAt(p).cluster : p \in {q \in EntriesOf(d) : EntryAt(q).kind = "dir"}}

Directories == {ROOT_CLUSTER_NUMBER} \cup SubdirectoriesOf(ROOT_CLUSTER_NUMBER)

Entries == UNION {EntriesOf(d) : d \in Directories}

ChainOf(map, p) == Chain(map, EntryAt(p).cluster)

Reached(map) == {ROOT_CLUSTER_NUMBER} \cup UNION {ChainOf(map, p) : p \in Entries}

-----------------------------------------------------------------------------

(***************************************************************************)
(* The power fails; what was in memory and the writes to come are gone. If *)
(* delete_vfs had cleared the entry only, its clusters are lost.           *)
(***************************************************************************)
Crash ==
    /\ power = "on"
    /\ op = Idle \/ op.kind \in CrashPoints
    /\ power' = "off"
    /\ op' = Idle
    /\ todo' = <<>>
    /\ handle' = [h \in Handle |-> Closed]
    /\ fat' = [c \in Cluster |-> FAT32_FAT_EMPTY_ENTRY]
    /\ lost' = IF op.kind = "delete" /\ Len(todo) = 1 THEN lost \cup op.freed ELSE lost
    /\ UNCHANGED disk

-----------------------------------------------------------------------------
(* Making and deleting.                                                    *)

(* The first entry of the table whose full name is n, if any. *)
IsFound(p, d, n) == /\ p \in EntriesOf(d)
                    /\ EntryAt(p).name = n
                    /\ \A q \in EntriesOf(d) : EntryAt(q).name = n => p[2] <= q[2]

(* The search for a free cluster. *)
IsFirstFree(c) == /\ c \in Cluster
                  /\ fat[c] = FAT32_FAT_EMPTY_ENTRY
                  /\ \A e \in 0..(c - 1) : fat[e] # FAT32_FAT_EMPTY_ENTRY

(***************************************************************************)
(* mkgeneral in directory d.  The name is compared, without its extension, *)
(* with the full names in the directory.  The directory entry is written   *)
(* before the table that makes its cluster used.                           *)
(***************************************************************************)
MkGeneral(d, n, kind) ==
    /\ Ready
    /\ IsTable(d)
    /\ \A p \in EntriesOf(d) : EntryAt(p).name # [n EXCEPT !.ext = ""]
    /\ \E s \in Slot, c \in Cluster :
           /\ disk[d].entry[s] = NoEntry
           /\ \A t \in 1..(s - 1) : disk[d].entry[t] # NoEntry
           /\ IsFirstFree(c)
           /\ fat' = [fat EXCEPT ![c] = FAT32_FAT_END_OF_FILE]
           /\ LET entry == [kind |-> kind, name |-> n, cluster |-> c, filesize |-> 0]
                  table == Table([disk[d].entry EXCEPT ![s] = entry])
              IN  todo' = << WriteTo(d, table),
                             WriteTo(FAT_CLUSTER_NUMBER, [is |-> "fat", map |-> fat']) >>
                          \o IF kind = "dir" THEN << WriteTo(c, EmptyTable) >> ELSE <<>>
    /\ op' = [kind |-> "mk"]
    /\ UNCHANGED <<power, disk, handle, lost>>

MkFile(d, n) == MkGeneral(d, n, "file")

(* A directory has no extension.  Bound: it is made in the root. *)
MkDir(n) == /\ n.ext = ""
            /\ MkGeneral(ROOT_CLUSTER_NUMBER, n, "dir")

IsOpen(p) == \E h \in Handle : /\ handle[h] # Closed
                               /\ handle[h].directory_cluster = p[1]
                               /\ handle[h].directory_index = p[2]

(* Fault: only the first cluster is freed. *)
DeleteFirstCluster(d, n) ==
    /\ Ready
    /\ IsTable(d)
    /\ \E p \in EntriesOf(d) :
           /\ IsFound(p, d, n)
           /\ DeleteOpen \/ ~IsOpen(p)
           /\ EndsInEOF(fat, EntryAt(p).cluster)
           /\ \/ EntryAt(p).kind = "file"
              \/ EntriesOf(EntryAt(p).cluster) = {}
           /\ fat' = [c \in Cluster |-> IF c = EntryAt(p).cluster
                                        THEN FAT32_FAT_EMPTY_ENTRY ELSE fat[c]]
           /\ op' = [kind |-> "delete", freed |-> ChainOf(fat, p)]
           /\ todo' = << WriteTo(d, Table([disk[d].entry EXCEPT ![p[2]] = NoEntry])),
                         WriteTo(FAT_CLUSTER_NUMBER, [is |-> "fat", map |-> fat']) >>
    /\ UNCHANGED <<power, disk, handle, lost>>

(* Fault: the table is written before the directory. *)
DeleteTableFirst(d, n) ==
    /\ Ready
    /\ IsTable(d)
    /\ \E p \in EntriesOf(d) :
           /\ IsFound(p, d, n)
           /\ DeleteOpen \/ ~IsOpen(p)
           /\ EndsInEOF(fat, EntryAt(p).cluster)
           /\ \/ EntryAt(p).kind = "file"
              \/ EntriesOf(EntryAt(p).cluster) = {}
           /\ fat' = [c \in Cluster |-> IF c \in ChainOf(fat, p)
                                        THEN FAT32_FAT_EMPTY_ENTRY ELSE fat[c]]
           /\ op' = [kind |-> "delete", freed |-> ChainOf(fat, p)]
           /\ todo' = << WriteTo(FAT_CLUSTER_NUMBER, [is |-> "fat", map |-> fat']),
                         WriteTo(d, Table([disk[d].entry EXCEPT ![p[2]] = NoEntry])) >>
    /\ UNCHANGED <<power, disk, handle, lost>>

(* Fault: a directory need not be empty. *)
DeleteFull(d, n) ==
    /\ Ready
    /\ IsTable(d)
    /\ \E p \in EntriesOf(d) :
           /\ IsFound(p, d, n)
           /\ DeleteOpen \/ ~IsOpen(p)
           /\ EndsInEOF(fat, EntryAt(p).cluster)
           /\ fat' = [c \in Cluster |-> IF c \in ChainOf(fat, p)
                                        THEN FAT32_FAT_EMPTY_ENTRY ELSE fat[c]]
           /\ op' = [kind |-> "delete", freed |-> ChainOf(fat, p)]
           /\ todo' = << WriteTo(d, Table([disk[d].entry EXCEPT ![p[2]] = NoEntry])),
                         WriteTo(FAT_CLUSTER_NUMBER, [is |-> "fat", map |-> fat']) >>
    /\ UNCHANGED <<power, disk, handle, lost>>

(***************************************************************************)
(* delete_vfs: a file or an empty directory.  The entry is cleared on the  *)
(* disk before its clusters are. Bound: its chain ends (the loop would not *)
(* return from one that ends in cluster 0).                                *)
(***************************************************************************)
Delete(d, n) ==
    /\ Ready
    /\ IsTable(d)
    /\ \E p \in EntriesOf(d) :
           /\ IsFound(p, d, n)
           /\ DeleteOpen \/ ~IsOpen(p)
           /\ EndsInEOF(fat, EntryAt(p).cluster)
           /\ \/ EntryAt(p).kind = "file"
              \/ EntriesOf(EntryAt(p).cluster) = {}
           /\ fat' = [c \in Cluster |-> IF c \in ChainOf(fat, p)
                                        THEN FAT32_FAT_EMPTY_ENTRY ELSE fat[c]]
           /\ op' = [kind |-> "delete", freed |-> ChainOf(fat, p)]
           /\ todo' = << WriteTo(d, Table([disk[d].entry EXCEPT ![p[2]] = NoEntry])),
                         WriteTo(FAT_CLUSTER_NUMBER, [is |-> "fat", map |-> fat']) >>
    /\ UNCHANGED <<power, disk, handle, lost>>

-----------------------------------------------------------------------------
(* Open files.  Bound: a program either reads or writes through one open   *)
(* (the two functions disagree on what current_cluster means), and it does *)
(* not write again after a write that failed.                              *)

Open(h, d, n) ==
    /\ Ready
    /\ handle[h] = Closed
    /\ IsTable(d)
    /\ \E p \in EntriesOf(d) :
           /\ IsFound(p, d, n)
           /\ EntryAt(p).kind = "file"
           /\ handle' = [handle EXCEPT ![h] =
                  [mode |-> "new",
                   current_cluster |-> EntryAt(p).cluster,
                   progress_pointer |-> 0,
                   progress_end |-> EntryAt(p).filesize,
                   directory_cluster |-> d,
                   directory_index |-> p[2]]]
    /\ UNCHANGED <<power, disk, fat, op, todo, lost>>

Close(h) ==
    /\ Ready
    /\ handle[h] # Closed
    /\ handle' = [handle EXCEPT ![h] = Closed]
    /\ UNCHANGED <<power, disk, fat, op, todo, lost>>

AtBoundary(h) == handle[h].progress_pointer % ClusterSize = 0

(***************************************************************************)
(* One turn of the loop of read_vfs.  At a boundary current_cluster is     *)
(* loaded and moves on; if it is the end of the file, which is shorter     *)
(* than its size, read_vfs returns -1.                                     *)
(***************************************************************************)
Read(h) ==
    /\ Ready
    /\ handle[h].mode \in {"new", "read"}
    /\ handle[h].progress_pointer < handle[h].progress_end
    /\ LET current == handle[h].current_cluster
           moved == [handle[h] EXCEPT !.mode = "read",
                                      !.progress_pointer = handle[h].progress_pointer + 1]
       IN  handle' = [handle EXCEPT ![h] =
               IF ~AtBoundary(h) THEN moved
               ELSE IF current \in Cluster
               THEN [moved EXCEPT !.current_cluster = fat[current]]
               ELSE [handle[h] EXCEPT !.mode = "corrupted"]]
    /\ UNCHANGED <<power, disk, fat, op, todo, lost>>

(* Fault: the size is written before the data and the table. *)
WriteSizeFirst(h, n) ==
    /\ Ready
    /\ handle[h].mode \in {"new", "write"}
    /\ handle[h].progress_pointer + n <= MaxSize
    /\ handle' = [handle EXCEPT ![h].mode = "write"]
    /\ op' = [kind |-> "write", handle |-> h, left |-> n]
    /\ LET d == handle[h].directory_cluster
           s == handle[h].directory_index
           size == Max({handle[h].progress_end, handle[h].progress_pointer + n})
       IN  todo' = << WriteTo(d, Table([disk[d].entry EXCEPT ![s].filesize = size])) >>
    /\ UNCHANGED <<power, disk, fat, lost>>

(* write_vfs is called with n bytes. *)
Write(h, n) ==
    /\ Ready
    /\ handle[h].mode \in {"new", "write"}
    /\ handle[h].progress_pointer + n <= MaxSize
    /\ handle' = [handle EXCEPT ![h].mode = "write"]
    /\ op' = [kind |-> "write", handle |-> h, left |-> n]
    /\ UNCHANGED <<power, disk, fat, todo, lost>>

Writing(h) == /\ power = "on"
              /\ op.kind = "write" /\ op.handle = h
              /\ todo = <<>>

(* The loop inside a cluster only fills the buffer. *)
WriteInside(h) ==
    /\ Writing(h)
    /\ op.left > 0
    /\ ~AtBoundary(h)
    /\ handle' = [handle EXCEPT ![h].progress_pointer = @ + 1]
    /\ op' = [op EXCEPT !.left = @ - 1]
    /\ UNCHANGED <<power, disk, fat, todo, lost>>

(* At a boundary: the buffer goes to the disk, and the next cluster is... *)
Flushed(h) == IF handle[h].progress_pointer = 0
              THEN <<>>
              ELSE << WriteTo(handle[h].current_cluster, Data) >>

(* Fault: the first write moves on, too. *)
NextClusterAlways(h) == fat[handle[h].current_cluster]

NextCluster(h) == IF handle[h].progress_pointer = 0
                  THEN handle[h].current_cluster
                  ELSE fat[handle[h].current_cluster]

(* ... one the file has already, ... *)
WriteNext(h) ==
    /\ Writing(h)
    /\ op.left > 0
    /\ AtBoundary(h)
    /\ NextCluster(h) # FAT32_FAT_END_OF_FILE
    /\ handle' = [handle EXCEPT ![h].progress_pointer = @ + 1,
                                ![h].current_cluster = NextCluster(h)]
    /\ todo' = Flushed(h)
    /\ op' = [op EXCEPT !.left = @ - 1]
    /\ UNCHANGED <<power, disk, fat, lost>>

(* Fault: the new cluster does not end the chain. *)
WriteAppendUnended(h) ==
    /\ Writing(h)
    /\ op.left > 0
    /\ AtBoundary(h)
    /\ NextCluster(h) = FAT32_FAT_END_OF_FILE
    /\ \E c \in Cluster :
           /\ IsFirstFree(c)
           /\ fat' = [fat EXCEPT ![handle[h].current_cluster] = c]
           /\ handle' = [handle EXCEPT ![h].progress_pointer = @ + 1,
                                       ![h].current_cluster = c]
    /\ todo' = Append(Flushed(h), WriteTo(FAT_CLUSTER_NUMBER, [is |-> "fat", map |-> fat']))
    /\ op' = [op EXCEPT !.left = @ - 1]
    /\ UNCHANGED <<power, disk, lost>>

(* ... a free one that is linked behind the last, ... *)
WriteAppend(h) ==
    /\ Writing(h)
    /\ op.left > 0
    /\ AtBoundary(h)
    /\ NextCluster(h) = FAT32_FAT_END_OF_FILE
    /\ \E c \in Cluster :
           /\ IsFirstFree(c)
           /\ fat' = [fat EXCEPT ![handle[h].current_cluster] = c,
                                 ![c] = FAT32_FAT_END_OF_FILE]
           /\ handle' = [handle EXCEPT ![h].progress_pointer = @ + 1,
                                       ![h].current_cluster = c]
    /\ todo' = Append(Flushed(h), WriteTo(FAT_CLUSTER_NUMBER, [is |-> "fat", map |-> fat']))
    /\ op' = [op EXCEPT !.left = @ - 1]
    /\ UNCHANGED <<power, disk, lost>>

(* ... or the storage is full: write_vfs returns -1 and updates nothing. *)
WriteFull(h) ==
    /\ Writing(h)
    /\ op.left > 0
    /\ AtBoundary(h)
    /\ NextCluster(h) = FAT32_FAT_END_OF_FILE
    /\ \A c \in Cluster : fat[c] # FAT32_FAT_EMPTY_ENTRY
    /\ handle' = [handle EXCEPT ![h].mode = "failed",
                                ![h].current_cluster = FAT32_FAT_END_OF_FILE]
    /\ todo' = Flushed(h)
    /\ op' = IF todo' = <<>> THEN Idle ELSE [kind |-> "update"]
    /\ UNCHANGED <<power, disk, fat, lost>>

(***************************************************************************)
(* After the loop the buffer goes to the disk, and progress_end to the     *)
(* directory entry the file was opened with, whatever is there now.        *)
(***************************************************************************)
WriteEnd(h) ==
    /\ Writing(h)
    /\ op.left = 0
    /\ handle' = [handle EXCEPT ![h].progress_end = Max({@, handle[h].progress_pointer})]
    /\ LET d == handle[h].directory_cluster
           s == handle[h].directory_index
           entries == disk[d].entry
           size == handle'[h].progress_end
       IN  todo' = << WriteTo(handle[h].current_cluster, Data) >>
                   \o IF IsTable(d) /\ entries[s] # NoEntry
                      THEN << WriteTo(d, Table([entries EXCEPT ![s].filesize = size])) >>
                      ELSE <<>>
    /\ op' = [kind |-> "update"]
    /\ UNCHANGED <<power, disk, fat, lost>>

Next ==
    \/ CreateFat32 \/ Boot \/ Crash
    \/ WriteClusters
    \/ \E n \in Name : \/ MkDir(n)
                       \/ \E d \in Directories : MkFile(d, n) \/ Delete(d, n)
                       \/ \E h \in Handle, d \in Directories : Open(h, d, n)
    \/ \E h \in Handle : \/ Close(h)
                         \/ Read(h)
                         \/ \E n \in 0..MaxWrite : Write(h, n)
                         \/ WriteInside(h) \/ WriteNext(h) \/ WriteAppend(h)
                         \/ WriteFull(h) \/ WriteEnd(h)

Spec == Init /\ [][Next]_vars

-----------------------------------------------------------------------------
(* Properties.                                                             *)

(* Every entry's chain ends, no chain meets another, the root's or the     *)
(* reserved clusters, and none contains a free cluster.                    *)
ChainsSound(map) ==
    /\ Chain(map, ROOT_CLUSTER_NUMBER) = {ROOT_CLUSTER_NUMBER}
    /\ \A p \in Entries :
           /\ EndsInEOF(map, EntryAt(p).cluster)
           /\ \A c \in ChainOf(map, p) : c > ROOT_CLUSTER_NUMBER
                                         /\ map[c] # FAT32_FAT_EMPTY_ENTRY
           /\ \A q \in Entries \ {p} : ChainOf(map, p) \cap ChainOf(map, q) = {}

(***************************************************************************)
(* Whatever was made, written and deleted, between two system calls no     *)
(* cluster belongs to two files: the search for a free cluster, the        *)
(* linking in write_vfs and the freeing in delete_vfs agree.               *)
(***************************************************************************)
FilesDisjoint == Ready => ChainsSound(fat)

(***************************************************************************)
(* The order in which write_vfs and delete_vfs write the directory and the *)
(* table makes the disk sound whenever the power fails during one of them  *)
(* (during mkgeneral it does not: see SignatureKept).                      *)
(***************************************************************************)
DiskSurvives ==
    power = "off" /\ disk[FAT_CLUSTER_NUMBER].is = "fat"
        => ChainsSound(disk[FAT_CLUSTER_NUMBER].map)

(***************************************************************************)
(* Every used cluster belongs to an entry, but for those that an           *)
(* interrupted delete_vfs left behind: deleting frees a whole chain, also  *)
(* the part that a failed write had added.                                 *)
(***************************************************************************)
NothingLeaks ==
    Ready => {c \in Cluster : fat[c] # FAT32_FAT_EMPTY_ENTRY}
                 = {BOOT_SECTOR, FAT_CLUSTER_NUMBER} \cup Reached(fat) \cup lost

(***************************************************************************)
(* No file is larger than its clusters, also after a power failure or a    *)
(* full disk in the middle of a write, and through a descriptor opened     *)
(* before another made the file longer or shorter: read_vfs never gets to  *)
(* its "Corrupted file".                                                   *)
(***************************************************************************)
SizesAreCovered ==
    /\ power = "off" /\ disk[FAT_CLUSTER_NUMBER].is = "fat"
           => \A p \in Entries : EntryAt(p).filesize <=
                  ClusterSize * Cardinality(ChainOf(disk[FAT_CLUSTER_NUMBER].map, p))
    /\ \A h \in Handle : handle[h] # Closed => handle[h].mode # "corrupted"

(* The chain of the file that a descriptor was opened on, by position.     *)
FileChain(h) ==
    Walk(fat, disk[handle[h].directory_cluster].entry[handle[h].directory_index].cluster)

(***************************************************************************)
(* The two meanings of current_cluster: write_vfs keeps the cluster of its *)
(* buffer, read_vfs the one after it.  Each stays right while other        *)
(* descriptors make the same file longer; a reader's goes stale only where *)
(* it has nothing left to read.                                            *)
(***************************************************************************)
PositionsAgree ==
    Ready => \A h \in Handle : handle[h] # Closed =>
        LET position == handle[h].progress_pointer
            current  == handle[h].current_cluster
            loaded   == (position + ClusterSize - 1) \div ClusterSize
        IN  /\ handle[h].mode \in {"new", "write"} /\ position = 0
                   => current = FileChain(h)[0]
            /\ handle[h].mode = "write" /\ position > 0
                   => current = FileChain(h)[(position - 1) \div ClusterSize]
            /\ handle[h].mode = "read" /\ loaded * ClusterSize < handle[h].progress_end
                   => current = FileChain(h)[loaded]

(***************************************************************************)
(* No write of file data hits a directory, and a directory has its table   *)
(* when mkdir returns, also in a cluster that another file had before.     *)
(***************************************************************************)
DirectoriesStayTables == Ready => \A d \in Directories : IsTable(d)

(***************************************************************************)
(* With power failures during delete_vfs and write_vfs the disk implements *)
(* a tree that only whole operations change.                               *)
(***************************************************************************)
PlaceOf(p) == IF p[1] = ROOT_CLUSTER_NUMBER
              THEN <<0, p[2]>>
              ELSE << CHOOSE s \in Slot : LET e == disk[ROOT_CLUSTER_NUMBER].entry[s]
                                          IN  e # NoEntry /\ e.cluster = p[1], p[2] >>

TreeOnDisk == [place \in {PlaceOf(p) : p \in Entries} |->
                  LET e == EntryAt(CHOOSE p \in Entries : PlaceOf(p) = place)
                  IN  [kind |-> e.kind, name |-> e.name, size |-> e.filesize]]

FT == INSTANCE FileTree WITH Slots <- SlotCount, Names <- Name, Largest <- MaxSize,
                             tree <- TreeOnDisk

RefinesFileTree == FT!Spec

-----------------------------------------------------------------------------
(* What the headers say, and the code breaks.                              *)

(***************************************************************************)
(* header/filesystem/fat32.h, line 19: "FAT reserved value for cluster 0   *)
(* and 1 in FileAllocationTable": no file gets cluster 0, which holds the  *)
(* signature that a formatted disk is recognised by.                       *)
(***************************************************************************)
SignatureKept == [][disk[BOOT_SECTOR].is = "signature"
                        => disk'[BOOT_SECTOR].is = "signature"]_vars

(***************************************************************************)
(* shared/header/fat32.h, line 40: "Filesize of this file, if this is      *)
(* directory / folder, filesize is 0".                                     *)
(***************************************************************************)
DirectorySizeIsZero == \A p \in Entries : EntryAt(p).kind = "dir" => EntryAt(p).filesize = 0
=============================================================================
