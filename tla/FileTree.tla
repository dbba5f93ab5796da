------------------------------ MODULE FileTree ------------------------------
(***************************************************************************)
(* What a file system promises its users: a tree of named entries that     *)
(* only the operations change, each of them at once.  There is no action   *)
(* for a power failure, because a user must not be able to see one: an     *)
(* operation that it interrupts has happened or it has not.                *)
(***************************************************************************)
EXTENDS Naturals

CONSTANTS
    Slots,      \* the number of entries of a directory
    Names,      \* names of files and directories
    Largest     \* the largest size of a file

(* Directories are the root, 0, and those made in one of its slots. *)
Place == (0..Slots) \X (1..Slots)

Entries == [kind : {"file", "dir"}, name : Names, size : 0..Largest]

VARIABLE tree   \* the entry at each place that has one

Init == tree = [p \in {} |-> 0]

IsDirectory(d) == \/ d = 0
                  \/ <<0, d>> \in DOMAIN tree /\ tree[<<0, d>>].kind = "dir"

Make(p, kind, name) ==
    /\ p \notin DOMAIN tree
    /\ IsDirectory(p[1])
    /\ kind = "dir" => p[1] = 0
    /\ tree' = [q \in DOMAIN tree \cup {p} |->
                   IF q = p THEN [kind |-> kind, name |-> name, size |-> 0] ELSE tree[q]]

Remove(p) ==
    /\ p \in DOMAIN tree
    /\ tree[p].kind = "dir" => \A q \in DOMAIN tree : q[1] # p[2]
    /\ tree' = [q \in DOMAIN tree \ {p} |-> tree[q]]

Resize(p, size) ==
    /\ p \in DOMAIN tree
    /\ tree[p].kind = "file"
    /\ tree' = [tree EXCEPT ![p].size = size]

Next == \E p \in Place :
            \/ \E kind \in {"file", "dir"}, name \in Names : Make(p, kind, name)
            \/ Remove(p)
            \/ \E size \in 0..Largest : Resize(p, size)

Spec == Init /\ [][Next]_tree
=============================================================================
