------------------------------ MODULE MCShell ------------------------------
(***************************************************************************)
(* Model checking of Shell: a program and a directory at boot, and one of  *)
(* two users. The first types lines with relative and absolute paths, with *)
(* "." and ".." in them, of files and directories, and of what is mounted. *)
(* The second makes a directory a file and leaves rows of find behind.     *)
(***************************************************************************)
EXTENDS Shell

X == <<"x">>
D == <<"d">>
E == <<"e">>
File0 == [type |-> "file", content |-> <<>>, clusters |-> 1]

(* /shell, an empty directory, /d and a file in it of two clusters. *)
MCTrees ==
    {[names \in {<< <<"shell">> >>, <<D>>, <<E>>, <<D, X>>} |->
        CASE names \in {<<D>>, <<E>>} -> [type |-> "dir", content |-> <<>>, clusters |-> 1]
          [] names = <<D, X>> -> [type |-> "file", content |-> <<"a", "b", "c", "d", "e">>,
                                  clusters |-> 2]
          [] OTHER -> File0]}

(* /shell, an empty directory, and /d with a file in it: the disk is full. *)
MCRowTrees ==
    {[names \in {<< <<"shell">> >>, <<D>>, <<E>>, <<D, X>>} |->
        CASE names \in {<<D>>, <<E>>} -> [type |-> "dir", content |-> <<>>, clusters |-> 1]
          [] names = << <<"shell">> >> -> [File0 EXCEPT !.clusters = 4]
          [] OTHER -> File0]}

MCSymbol == {"/", ".", "proc", "dev", "stdin", "stdout", "stdout_layered", "1", "2",
             "shell", "x", "y", "d", "e", "a", "b", "c", "nul", "junk"}

Line(cmd, args) == [cmd |-> cmd, args |-> args]

MCLines ==
    {Line("exec", << <<"/", "shell">> >>),
     Line("cd", <<D>>),
     Line("cd", << >>),
     Line("ls", << >>),
     Line("stat", << <<"/", "proc", "/", "x", "1">> >>),
     Line("mkdir", << Slash >>),
     Line("mkdir", << <<"/", "d", "/", "dev", "x">> >>),
     Line("touch", << <<"/", "dev", "x">> >>),
     Line("touch", << <<"/", "d", "/", ".", "/", "x", "/", ".", ".", "/", ".", ".",
                        "/", "d", "/", "y">> >>),
     Line("touch", << <<"/", "d", "/", "x", "/", "y">> >>),
     Line("del", << X >>),
     Line("del -r", << <<"/", "d">> >>),
     Line("tac", << X, <<"e">> >>),
     Line("cat", << X >>),
     Line("cp", << X, <<".", ".", "/", "x">> >>),
     Line("mv", << <<"/", "d", "/", "x">>, <<"/", "d", "/", "y">> >>),
     Line("find", << X >>),
     Line("exit", << >>),
     Line("kill", << >>)}

MCRowLines ==
    {Line("exec", << <<"/", "shell">> >>),
     Line("ls", << <<"/", "d">> >>),
     Line("touch", << <<"/", "d">> >>),
     Line("del -r", << <<"/", "d">> >>),
     Line("del -r", << Slash >>),
     Line("find", << X >>),
     Line("exit", << >>),
     Line("kill", << >>)}

Users == {[trees |-> MCTrees, lines |-> MCLines, most |-> 4],
          [trees |-> MCRowTrees, lines |-> MCRowLines, most |-> 5]}

AllLines == MCLines \cup MCRowLines
AllTrees == MCTrees \cup MCRowTrees

VARIABLE user   \* who types the lines, and the most of them

MCInit == user \in Users /\ Init /\ tree \in user.trees

MCNext ==
    \E p \in Pid :
        \/ Work(p) /\ UNCHANGED user
        \/ \E line \in user.lines : Run(p, line) /\ typed' <= user.most /\ UNCHANGED user

MCSpec == MCInit /\ [][MCNext]_<<vars, user>> /\ \A p \in Pid : WF_vars(Work(p))
=============================================================================
