-------------------------------- MODULE Vfs --------------------------------
(***************************************************************************)
(* The tree of files as programs see it through vfs.c: the FAT32 file      *)
(* system at "/" with /proc and /dev mounted in it. Each system call is    *)
(* one step. What the FAT32 driver does to the disk is in Fat32; here it   *)
(* is a tree of names, with the clusters that are left. Files have no      *)
(* extension: mkgeneral keeps such names unique.                           *)
(***************************************************************************)
EXTENDS Paths

CONSTANTS
    Symbol,        \* characters and pieces of names
    Pid,           \* the processes that may run
    CLUSTER_SIZE,  \* characters in a cluster
    Clusters       \* clusters for files and directories

ASSUME VfsAssumption ==
    /\ CLUSTER_SIZE \in Nat \ {0} /\ Clusters \in Nat
    /\ {"/", ".", "proc", "dev", "stdin", "stdout", "stdout_layered", "junk"} \subseteq Symbol
    /\ IsFiniteSet(Pid) /\ Pid # {} /\ Pid \subseteq Symbol \ {"/", "."}

VARIABLES
    tree,     \* by the names of its path: [type, content, clusters]
    running   \* the processes that exist

vfsVars == <<tree, running>>

Text == Seq(Symbol)
Name == {word \in Text : word # <<>> /\ \A i \in 1..Len(word) : word[i] # "/"}

Proc == <<"proc">>
Dev == <<"dev">>
DevNames == << <<"stdin">>, <<"stdout">>, <<"stdout_layered">> >>

(* mount, as called by kernel_setup. *)
MountPaths == <<Slash, TextOf(<<Proc>>), TextOf(<<Dev>>)>>
Handlers == <<"fat32", "proc", "dev">>

(* get_handler_by_path: the longest mount path the text begins with, even  *)
(* if it ends in the middle of a name.                                     *)
HandlerOf(text) ==
    LET matching == {i \in DOMAIN MountPaths : IsPrefix(MountPaths[i], text)}
    IN  IF matching = {} THEN "none"
        ELSE Handlers[CHOOSE i \in matching :
                         \A j \in matching : Len(MountPaths[j]) <= Len(MountPaths[i])]

(* A tree as the kernel makes it: directories with files and directories   *)
(* in them, none where a mount would hide it, and in the root perhaps the  *)
(* entry without a name that mkdir("/") makes.                             *)
Places == (Seq(Name) \ {<<>>}) \cup {<< <<>> >>}
Node == [type : {"dir", "file"}, content : Text, clusters : Nat]

IsTree(t) ==
    /\ IsFiniteSet(DOMAIN t) /\ DOMAIN t \subseteq Places /\ t \in [DOMAIN t -> Node]
    /\ \A names \in DOMAIN t :
          /\ \/ Front(names) = <<>>
             \/ Front(names) \in DOMAIN t /\ t[Front(names)].type = "dir"
          /\ HandlerOf(TextOf(names)) = "fat32"

(* The mounts that are listed in the directory text. *)
MountSplits == [i \in DOMAIN MountPaths |-> SplitPath(MountPaths[i])]
IsMountIn(i, text) == MountSplits[i].dirname = text /\ MountSplits[i].basename # <<>>
MountsIn(text) == Selected(MountPaths, {i \in DOMAIN MountPaths : IsMountIn(i, text)})

-----------------------------------------------------------------------------

(* The entries of the three file systems. A result is the entry, or one    *)
(* whose type is "none" for an error.                                      *)

Failed == [name |-> <<>>, type |-> "none", size |-> 0]
Directory(name, size) == [name |-> name, type |-> "dir", size |-> size]
File(name, size) == [name |-> name, type |-> "file", size |-> size]

IsDirectory(names) == names = <<>> \/ (names \in DOMAIN tree /\ tree[names].type = "dir")

Children(names) == {c \in DOMAIN tree : Len(c) = Len(names) + 1 /\ IsPrefix(names, c)}

(* fat32.c: get_entry, get_entry_count and fat32_to_vfs. *)
FatStat(names) ==
    CASE IsDirectory(names) ->
            Directory(IF names = <<>> THEN <<>> ELSE Last(names), Cardinality(Children(names)))
      [] names \in DOMAIN tree /\ ~IsDirectory(names) -> File(Last(names), Len(tree[names].content))
      [] OTHER -> Failed

(* The order of the entries in a directory does not matter here. *)
FatDirStat(names) == InSomeOrder({FatStat(c) : c \in Children(names)})

(* proc.c. A process is named by its number, and found by the first number *)
(* in a name (strtoi). A number here is one character, of Pid: others, for *)
(* which the table is read behind its end, are left out, and so is a text  *)
(* with no name at all, for which strtoi reads at address 0.               *)
NameOf(pid) == <<pid>>

FirstNumberIs(word, pid) ==
    \E i \in DOMAIN word :
        /\ word[i] = pid
        /\ \A j \in 1..(i - 1) : word[j] \notin Pid
        /\ i < Len(word) => word[i + 1] \notin Pid

ProcStat(text) ==
    LET names == Words(text)
        found == {pid \in running : Len(names) = 2 /\ FirstNumberIs(names[2], pid)}
    IN  CASE text = TextOf(<<Proc>>) -> Directory(Proc, Cardinality(running))
          [] text # TextOf(<<Proc>>) /\ found # {} -> File(NameOf(CHOOSE pid \in found : TRUE), 0)
          [] OTHER -> Failed

ProcDirStat == InSomeOrder({File(NameOf(pid), 0) : pid \in running})

(* dev.c. *)
DevStat(text) ==
    LET split == SplitPath(text)
    IN  CASE text = TextOf(<<Dev>>) -> Directory(Dev, Len(DevNames))
          [] /\ text # TextOf(<<Dev>>)
             /\ split.dirname = TextOf(<<Dev>>) /\ split.basename \in Range(DevNames) ->
                File(split.basename, 0)
          [] OTHER -> Failed

DevDirStat == [i \in DOMAIN DevNames |-> File(DevNames[i], 0)]

HandlerStat(text) ==
    CASE HandlerOf(text) = "fat32" -> FatStat(Words(text))
      [] HandlerOf(text) = "proc" -> ProcStat(text)
      [] HandlerOf(text) = "dev" -> DevStat(text)
      [] HandlerOf(text) = "none" -> Failed

(* Fault: the mounts are listed, but not counted. *)
StatUncounted(text) == HandlerStat(text)

(* VFS_STAT. *)
Stat(text) ==
    LET entry == HandlerStat(text)
    IN  IF entry.type = "dir" THEN [entry EXCEPT !.size = @ + Len(MountsIn(text))] ELSE entry

(* dirstat of fat32.c does not ask whether the entry is a directory: it    *)
(* takes the cluster of a file for a table, and does not fail.             *)
TakesForTable(text) == HandlerOf(text) = "fat32" /\ FatStat(Words(text)).type = "file"

(* VFS_DIR_STAT: the entries it writes if it does not take a file for a    *)
(* table; none if it fails.                                                *)
DirStat(text) ==
    IF HandlerStat(text).type # "dir" THEN <<>>
    ELSE (CASE HandlerOf(text) = "fat32" -> FatDirStat(Words(text))
            [] HandlerOf(text) = "proc" -> ProcDirStat
            [] HandlerOf(text) = "dev" -> DevDirStat)
         \o [i \in DOMAIN MountsIn(text) |-> HandlerStat(MountsIn(text)[i])]

-----------------------------------------------------------------------------

(* What the system calls make of the tree.                                 *)

FreeClusters == Clusters - FoldFunction(LAMBDA e, n : e.clusters + n, 0, tree)

With(names, entry) == [n \in DOMAIN tree \cup {names} |-> IF n = names THEN entry ELSE tree[n]]
Without(names) == [n \in DOMAIN tree \ {names} |-> tree[n]]

(* mkfile and mkdir: the name is what follows the last "/", which is       *)
(* nothing for mkdir("/"). Only fat32.c has these functions.               *)
Place(text) == LET split == SplitPath(text) IN Append(Words(split.dirname), split.basename)

CanMake(text) ==
    /\ HandlerOf(text) = "fat32"
    /\ IsDirectory(Front(Place(text)))
    /\ Place(text) \notin DOMAIN tree
    /\ FreeClusters > 0

Made(text, type) == With(Place(text), [type |-> type, content |-> <<>>, clusters |-> 1])

(* delete_vfs; of a directory with entries it fails. *)
CanDelete(text) ==
    /\ HandlerOf(text) = "fat32"
    /\ Words(text) \in DOMAIN tree
    /\ Children(Words(text)) = {}

(* The root has no entry that delete_vfs could clear, which it does not    *)
(* look at: it frees the first cluster, and clears what index happens to   *)
(* say.                                                                    *)
EmptyRoot(text) == HandlerOf(text) = "fat32" /\ Words(text) = <<>> /\ Children(<<>>) = {}

(* mkgeneral does not ask whether the parent is a directory. *)
InsideFile(text) ==
    /\ HandlerOf(text) = "fat32"
    /\ Front(Place(text)) \in DOMAIN tree /\ ~IsDirectory(Front(Place(text)))

(* open of fat32.c: a descriptor, with the position and the end it knows.  *)
(* Its buffer has the cluster of the character before the position.        *)
CanOpen(text) == HandlerOf(text) = "fat32" /\ FatStat(Words(text)).type = "file"
Opened(text) == [file |-> Words(text), pos |-> 0, buffer |-> <<>>,
                 end |-> Len(tree[Words(text)].content)]

(* Text, cut or continued by what the clusters happen to hold. *)
Resize(text, size) ==
    SubSeq(text, 1, Min({size, Len(text)})) \o [i \in 1..(size - Len(text)) |-> "junk"]

Overwrite(content, pos, text) ==
    Resize(content, pos) \o text \o SubSeq(content, pos + Len(text) + 1, Len(content))

(* Where the cluster in the buffer begins, and the buffer at pos. *)
Base(pos) == IF pos = 0 THEN 0 ELSE ((pos - 1) \div CLUSTER_SIZE) * CLUSTER_SIZE
Buffer(text, pos) ==
    LET end == Base(pos) + CLUSTER_SIZE IN SubSeq(Resize(text, end), Base(pos) + 1, end)

(* The file as the descriptor has it: its cluster is not read again. *)
Seen(d) == IF d.pos = 0 THEN tree[d.file].content
           ELSE Overwrite(tree[d.file].content, Base(d.pos), d.buffer)

(* The characters VFS_READ gives. *)
ReadFrom(d, size) == SubSeq(Resize(Seen(d), d.end), d.pos + 1, Min({d.pos + size, d.end}))

ClustersFor(size) == Max({1, (size + CLUSTER_SIZE - 1) \div CLUSTER_SIZE})

(* The part of text VFS_WRITE finds clusters for; if that is not all, it   *)
(* fails, and the size stays as it was.                                    *)
Fitting(d, text) ==
    LET room == (tree[d.file].clusters + FreeClusters) * CLUSTER_SIZE - d.pos
    IN  SubSeq(text, 1, Min({Len(text), Max({0, room})}))

(* The tree when part of text was written. Another writer's size is lost:  *)
(* the file ends where this one knows.                                     *)
Written(d, text, part) ==
    LET e == tree[d.file]
        size == IF part = text THEN Max({d.end, d.pos + Len(text)}) ELSE Len(e.content)
    IN  With(d.file, [e EXCEPT !.content = Resize(Overwrite(Seen(d), d.pos, part), size),
                               !.clusters = Max({@, ClustersFor(d.pos + Len(part))})])
=============================================================================
