------------------------------- MODULE Shell -------------------------------
(***************************************************************************)
(* The shell (shell.c, delete.c), by its system calls: between any two of  *)
(* them another shell may do anything. There can be two at work: exec      *)
(* starts a second one, and until that has opened /dev/stdin the first may *)
(* be given another line; from then on the second gets the lines while the *)
(* first still runs its command. A line is [cmd, args], what strtok makes  *)
(* of it. Scheduler and Console say when a reader gets a line; here it may *)
(* always be typed.                                                        *)
(*                                                                         *)
(* The model stops (wild) where the rest is unknown: a read or write       *)
(* through a descriptor whose file was deleted; a write after one that     *)
(* failed; a file or directory made inside a file, or a list of a file,    *)
(* whose content is taken for a table; a list of entries that does not fit *)
(* its array, or has the nameless one that "mkdir /" or "touch /" made; a  *)
(* deletion of the root.                                                   *)
(***************************************************************************)
EXTENDS Vfs

CONSTANTS
    Lines,       \* the lines that may be typed
    Trees,       \* the trees the disk may have at boot
    BLOCK,       \* characters copied at a time
    MaxLines     \* bound on the lines that are typed, but for exit

Commands == {"ls", "cd", "stat", "mkdir", "touch", "del", "del -r", "tac", "cat", "cp", "mv",
             "find", "exec", "exit", "kill"}

ASSUME ShellAssumption ==
    /\ BLOCK \in Nat \ {0} /\ MaxLines \in Nat
    /\ "nul" \in Symbol /\ "deleted" \notin Symbol
    /\ Lines \subseteq [cmd : Commands, args : Seq(Text)]
    /\ \A t \in Trees : IsTree(t)

VARIABLES
    sh,          \* what each shell does
    foreground,  \* the processes that opened stdin, the top one first
    typed,       \* the lines typed so far, without exit
    wild,        \* what follows is unknown: the model stops
    uncleared    \* find's rows in the stacks of shells that are no more

vars == <<vfsVars, sh, foreground, typed, wild, uncleared>>

NoDescriptor == [file |-> <<>>, pos |-> 0, buffer |-> <<>>, end |-> 0]
NoLine == [cmd |-> "none", args |-> <<>>]
Deleted == << <<"deleted">> >>

(* A shell that waits at its prompt. *)
Idle == [pc |-> "prompt", cwd |-> Slash,
         line |-> NoLine, path |-> Slash, to |-> Slash,
         entry |-> Failed,                          \* what VFS_STAT said
         from_fd |-> NoDescriptor, to_fd |-> NoDescriptor, buffer |-> <<>>,
         work |-> <<>>,                             \* what delete_recursive has to do
         file_list |-> <<>>, leftover |-> <<>>,     \* find's rows; those an abort left
         found |-> <<>>,
         quiet |-> TRUE,          \* history: nobody else changed anything meanwhile
         failed |-> FALSE,        \* history: a write failed
         before |-> <<>>]         \* history: the tree when the command began

Off == [Idle EXCEPT !.pc = "off"]
FirstShell == CHOOSE p \in Pid : TRUE

Init ==
    /\ tree \in Trees
    /\ running = {FirstShell}
    /\ sh = [p \in Pid |-> IF p = FirstShell THEN [Idle EXCEPT !.pc = "start"] ELSE Off]
    /\ foreground = <<>>
    /\ typed = 0
    /\ wild = FALSE
    /\ uncleared = {}

-----------------------------------------------------------------------------

(* Shell p goes on as s. *)
Go(p, s) == /\ sh' = [sh EXCEPT ![p] = s]
            /\ UNCHANGED <<vfsVars, foreground, typed, wild, uncleared>>

Refresh(d, t) == IF d = NoDescriptor \/ d.file \in DOMAIN t THEN d
                 ELSE [d EXCEPT !.file = Deleted]

(* For the others something changed. *)
Disturbed(s, t) ==
    [s EXCEPT !.quiet = FALSE, !.before = <<>>,
              !.from_fd = Refresh(@, t), !.to_fd = Refresh(@, t)]

(* Shell p makes the tree t and goes on as s. *)
Change(p, t, s) ==
    /\ tree' = t
    /\ sh' = [q \in Pid |->
                 IF q = p THEN [s EXCEPT !.from_fd = Refresh(@, t), !.to_fd = Refresh(@, t)]
                 ELSE IF sh[q].pc \in {"off", "start", "prompt"} THEN sh[q]
                 ELSE Disturbed(sh[q], t)]
    /\ UNCHANGED <<running, foreground, typed, wild, uncleared>>

Prompt(p) == [Idle EXCEPT !.cwd = sh[p].cwd, !.leftover = sh[p].leftover]
At(p, pc) == sh[p].pc = pc /\ ~wild
Step(p, pc) == [sh[p] EXCEPT !.pc = pc]

(* Behind a call that failed, the command prints a message and ends. *)
Abort(p) == Go(p, Prompt(p))

GoWild(p) == /\ wild' = TRUE
             /\ sh' = [sh EXCEPT ![p] = Prompt(p)]
             /\ UNCHANGED <<vfsVars, foreground, typed, uncleared>>

(* The array for the entries is as long as the size VFS_STAT gave. *)
Fits(p, entries) == Len(entries) = sh[p].entry.size

(* The path of a nameless entry is again the root: find goes round for ever *)
(* if it is a directory, and delete_recursive in any case.                 *)
AllNamed(p, entries) == Fits(p, entries) /\ \A e \in Range(entries) : e.name # <<>>

FullPath(p, arg) == ResolvePath(CombinePath(sh[p].cwd, arg))
Arg(line, i) == IF i \in DOMAIN line.args THEN line.args[i] ELSE <<>>

-----------------------------------------------------------------------------

(* main, get_prompt and run_prompt.                                        *)

(* The first get_prompt opens /dev/stdin. *)
OpenStdin(p) ==
    /\ At(p, "start")
    /\ foreground' = <<p>> \o foreground
    /\ sh' = [sh EXCEPT ![p].pc = "prompt"]
    /\ UNCHANGED <<vfsVars, typed, wild, uncleared>>

FirstStep(cmd) ==
    CASE cmd \in {"ls", "cd", "stat", "del", "del -r", "tac", "cat", "cp", "mv"} -> "stat"
      [] OTHER -> cmd

(* run_prompt, up to the first system call of the command. *)
Run(p, line) ==
    /\ At(p, "prompt") /\ foreground # <<>> /\ Head(foreground) = p
    /\ typed' = typed + (IF line.cmd = "exit" THEN 0 ELSE 1)
    /\ typed' <= MaxLines
    /\ sh' = [sh EXCEPT ![p] = [Idle EXCEPT
                 !.pc = FirstStep(line.cmd), !.cwd = sh[p].cwd, !.line = line,
                 !.path = FullPath(p, IF line.cmd = "cd" /\ line.args = <<>> THEN Slash
                                                                           ELSE Arg(line, 1)),
                 !.to = FullPath(p, Arg(line, 2)),
                 !.leftover = sh[p].leftover,
                 !.before = IF line.cmd \in {"del -r", "mv"} THEN tree ELSE <<>>]]
    /\ UNCHANGED <<vfsVars, foreground, wild, uncleared>>

-----------------------------------------------------------------------------

(* What the commands do with the entry of their first argument. *)
AfterStat(p, entry) ==
    LET s == [sh[p] EXCEPT !.entry = entry]
        cmd == s.line.cmd
        Then(ok, pc) == IF ok THEN [s EXCEPT !.pc = pc] ELSE Prompt(p)
    IN  CASE cmd = "cd" /\ entry.type = "dir" -> [Prompt(p) EXCEPT !.cwd = s.path]
          [] cmd = "ls" -> Then(entry.type = "dir", "ls")
          [] cmd = "del" -> Then(entry.type = "file" \/ entry = Directory(entry.name, 0), "del")
          [] cmd = "del -r" /\ entry.type = "dir" /\ entry.size # 0 ->
                [s EXCEPT !.pc = "del -r", !.work = <<[op |-> "stat", path |-> s.path]>>]
          [] cmd \in {"tac", "cat", "cp", "mv"} -> Then(entry.type = "file", "open")
          [] OTHER -> Prompt(p)

(* tac, cp and mv do not look at the result: if the call failed, the entry *)
(* was never written.                                                      *)
EntriesSeen(p) ==
    LET entry == Stat(sh[p].path)
    IN  IF entry.type = "none" /\ sh[p].line.cmd \in {"tac", "cp", "mv"}
        THEN {File(<<>>, 0), Directory(<<>>, 0)} ELSE {entry}

(* The first call of ls, cd, stat, delete, tac, cat, cp and mv. *)
StatArgument(p) == At(p, "stat") /\ \E entry \in EntriesSeen(p) : Go(p, AfterStat(p, entry))

Ls(p) ==
    /\ At(p, "ls")
    /\ IF \/ TakesForTable(sh[p].path)
          \/ Stat(sh[p].path).type = "dir" /\ ~Fits(p, DirStat(sh[p].path))
       THEN GoWild(p) ELSE Abort(p)

(* VFS_MKFILE and VFS_MKDIR; behind them p goes on as s. *)
Make(p, path, type, s) ==
    CASE CanMake(path) -> Change(p, Made(path, type), s)
      [] InsideFile(path) -> GoWild(p)
      [] OTHER -> Abort(p)

Mkdir(p) == At(p, "mkdir") /\ Make(p, sh[p].path, "dir", Prompt(p))
Touch(p) == At(p, "touch") /\ Make(p, sh[p].path, "file", Prompt(p))

(* VFS_DELETE; behind it p goes on as s. *)
Delete(p, path, s) ==
    CASE CanDelete(path) -> Change(p, Without(Words(path)), s)
      [] EmptyRoot(path) -> GoWild(p)
      [] OTHER -> Go(p, s)

Del(p) == At(p, "del") /\ Delete(p, sh[p].path, Prompt(p))

-----------------------------------------------------------------------------

(* delete_recursive. A call is an item of work: "stat", then "list" if the *)
(* path is a directory with entries, then those, then "delete".            *)

Todo(p) == Head(sh[p].work)
Item(op, path) == [op |-> op, path |-> path]

WithWork(p, work) == IF work = <<>> THEN Prompt(p) ELSE [sh[p] EXCEPT !.work = work]

DeleteStat(p) ==
    /\ At(p, "del -r") /\ Todo(p).op = "stat"
    /\ \E entry \in {Stat(Todo(p).path)} :
       LET next == CASE entry.type = "none" -> <<>>
                     [] entry.type = "dir" /\ entry.size # 0 -> <<Item("list", Todo(p).path)>>
                     [] OTHER -> <<Item("delete", Todo(p).path)>>
           s == WithWork(p, next \o Tail(sh[p].work))
       IN  Go(p, IF s.pc = "prompt" THEN s ELSE [s EXCEPT !.entry = entry])

(* Fault: the entries are deleted after their directory. *)
ExpandDirectoryFirst(path, entries) ==
    <<Item("delete", path)>>
    \o [i \in DOMAIN entries |-> Item("stat", path \o Slash \o entries[i].name)]

Expand(path, entries) ==
    [i \in DOMAIN entries |-> Item("stat", path \o Slash \o entries[i].name)]
    \o <<Item("delete", path)>>

DeleteList(p) ==
    /\ At(p, "del -r") /\ Todo(p).op = "list"
    /\ LET path == Todo(p).path
           rest == Tail(sh[p].work)
       IN  \E entries \in {DirStat(path)} :
              CASE \/ TakesForTable(path)
                   \/ Stat(path).type = "dir" /\ ~AllNamed(p, entries) -> GoWild(p)
                [] ~TakesForTable(path) /\ Stat(path).type # "dir" -> Go(p, WithWork(p, rest))
                [] OTHER -> Go(p, WithWork(p, Expand(path, entries) \o rest))

DeleteDelete(p) ==
    /\ At(p, "del -r") /\ Todo(p).op = "delete"
    /\ Delete(p, Todo(p).path, WithWork(p, Tail(sh[p].work)))

-----------------------------------------------------------------------------

(* tac, cat, cp and mv.                                                    *)

OpenSource(p) ==
    /\ At(p, "open")
    /\ IF ~CanOpen(sh[p].path) THEN Abort(p)
       ELSE Go(p, [Step(p, CASE sh[p].line.cmd = "tac" -> "tac"
                              [] sh[p].line.cmd = "cat" -> "cat"
                              [] OTHER -> "mkfile")
                   EXCEPT !.from_fd = Opened(sh[p].path)])

(* mkfile for the copy: it must not exist yet. *)
MakeCopy(p) == At(p, "mkfile") /\ Make(p, sh[p].to, "file", Step(p, "open copy"))

OpenCopy(p) ==
    /\ At(p, "open copy")
    /\ IF CanOpen(sh[p].to) THEN Go(p, [Step(p, "read") EXCEPT !.to_fd = Opened(sh[p].to)])
                            ELSE Abort(p)

Gone(d) == d.file = Deleted

(* VFS_READ into a buffer that was not filled before. *)
ReadBlock(p) ==
    /\ At(p, "read")
    /\ LET d == sh[p].from_fd
           text == ReadFrom(d, BLOCK)
           pos == d.pos + Len(text)
           buffer == Resize(sh[p].buffer, BLOCK)
       IN  CASE Gone(d) -> GoWild(p)
             [] ~Gone(d) /\ text # <<>> ->
                    Go(p, [Step(p, "write") EXCEPT
                              !.from_fd.pos = pos, !.from_fd.buffer = Buffer(Seen(d), pos),
                              !.buffer = Overwrite(buffer, 0, text)])
             [] ~Gone(d) /\ text = <<>> ->
                    Go(p, IF sh[p].line.cmd = "mv" THEN Step(p, "mv") ELSE Prompt(p))

(* Fault: the position is set by the caller. *)
AdvanceNot(d, part) ==
    [d EXCEPT !.end = Max({@, d.pos + Len(part)}),
              !.buffer = Buffer(Overwrite(Seen(d), d.pos, part), d.pos + Len(part))]

(* The descriptor when part was written. *)
Advance(d, part) ==
    [d EXCEPT !.pos = @ + Len(part), !.end = Max({@, d.pos + Len(part)}),
              !.buffer = Buffer(Overwrite(Seen(d), d.pos, part), d.pos + Len(part))]

(* VFS_WRITE, whose result cp and mv ignore. *)
WriteBlock(p) ==
    /\ At(p, "write")
    /\ LET d == sh[p].to_fd
           text == sh[p].buffer
       IN  IF Gone(d) \/ sh[p].failed THEN GoWild(p)
           ELSE \E part \in {Fitting(d, text)} :
                   Change(p, Written(d, text, part),
                          [Step(p, "read") EXCEPT !.to_fd = Advance(d, part),
                                                   !.failed = part # text])

(* The last step of mv. *)
MoveDelete(p) == At(p, "mv") /\ Delete(p, sh[p].path, Prompt(p))

(* tac: the content, unless it does not fit, then the character '\0'. *)
Content(p) == IF sh[p].buffer = <<>> THEN Arg(sh[p].line, 2) ELSE <<"nul">>

Tac(p) ==
    /\ At(p, "tac")
    /\ LET d == sh[p].from_fd
           text == Content(p)
           After(part) == IF part # text \/ text = <<"nul">> THEN Prompt(p)
                          ELSE [sh[p] EXCEPT !.from_fd = Advance(d, part), !.buffer = text]
       IN  IF Gone(d) THEN GoWild(p)
           ELSE \E part \in {Fitting(d, text)} : Change(p, Written(d, text, part), After(part))

(* cat: VFS_READ and VFS_CLOSE. *)
Cat(p) == At(p, "cat") /\ Go(p, Prompt(p))

-----------------------------------------------------------------------------

(* find: a depth-first search from "/", whatever its argument. The rows of *)
(* file_list are not cleared: those an aborted find left behind the first  *)
(* may still be there or have been overwritten.                            *)

FindBegin(p) ==
    /\ At(p, "find")
    /\ \E rows \in {sh[p].leftover, <<>>} :
          Go(p, [Step(p, "find stat") EXCEPT !.file_list = <<Slash>> \o rows, !.leftover = rows])

FindAbort(p) == Go(p, [Prompt(p) EXCEPT !.leftover = Tail(sh[p].file_list)])

FindStat(p) ==
    /\ At(p, "find stat")
    /\ \E entry \in {Stat(Last(sh[p].file_list))} :
          IF entry.type = "none" THEN FindAbort(p)
          ELSE Go(p, [Step(p, "find list") EXCEPT !.entry = entry])

(* Fault: the row is still there when its entries are added. *)
PopNot(rows) == rows

Pop(rows) == Front(rows)

(* Fault: where the entry is does not matter. *)
PathBelowRoot(dir, e) == Slash \o e.name

(* One turn of the loop: the names that match are printed, the directories *)
(* pushed.                                                                 *)
Path(dir, e) == (IF dir = Slash THEN <<>> ELSE dir) \o Slash \o e.name
PathsOf(dir, entries) == [i \in DOMAIN entries |-> Path(dir, entries[i])]

(* Fault: files are searched like directories. *)
ListingAll(p, dir, entries) ==
    [Step(p, "find stat") EXCEPT !.file_list = Pop(@) \o PathsOf(dir, entries)]

Listing(p, dir, entries) ==
    LET deeper == Selected(entries, {i \in DOMAIN entries : entries[i].type = "dir"})
        matching == Selected(entries, {i \in DOMAIN entries : entries[i].name = Arg(sh[p].line, 1)})
        rows == Pop(sh[p].file_list) \o PathsOf(dir, deeper)
    IN  [Step(p, IF rows = <<>> THEN "found" ELSE "find stat") EXCEPT
            !.file_list = rows,
            !.found = @ \o PathsOf(dir, matching)]

FindList(p) ==
    /\ At(p, "find list")
    /\ LET dir == Last(sh[p].file_list)
       IN  \E entries \in {DirStat(dir)} :
              CASE \/ TakesForTable(dir)
                   \/ Stat(dir).type = "dir" /\ ~AllNamed(p, entries) -> GoWild(p)
                [] ~TakesForTable(dir) /\ Stat(dir).type # "dir" -> FindAbort(p)
                [] OTHER -> Go(p, Listing(p, dir, entries))

(* The last line of find; not a system call that changes anything. *)
FindEnd(p) == At(p, "found") /\ Go(p, [Prompt(p) EXCEPT !.leftover = <<>>])

-----------------------------------------------------------------------------

(* exec, exit and kill.                                                    *)

(* What the stack of shell p has of find's rows behind the first. *)
RowsLeft(p) == CASE sh[p].pc \in {"find stat", "find list"} -> Tail(sh[p].file_list)
                 [] sh[p].pc = "found" -> <<>>
                 [] OTHER -> sh[p].leftover

(* The processes become those of r. *)
Population(r, s) ==
    /\ running' = r
    /\ sh' = [q \in Pid |-> CASE q \notin r -> Off
                              [] q \in r /\ s[q].pc \in {"off", "start", "prompt"} -> s[q]
                              [] OTHER -> [s[q] EXCEPT !.quiet = FALSE, !.before = <<>>]]
    /\ foreground' = Selected(foreground, {i \in DOMAIN foreground : foreground[i] \in r})
    /\ uncleared' = uncleared \cup ({RowsLeft(q) : q \in running \ r} \ {<<>>})
    /\ UNCHANGED <<tree, typed, wild>>

(* EXEC of the shell; what other programs do, and leave in the memory they *)
(* had, is left out. paging_allocate_user_page_frame does not clear the    *)
(* frame: find's rows of a shell that had it are still there.              *)
Exec(p) ==
    /\ At(p, "exec")
    /\ IF CanOpen(sh[p].path) /\ running # Pid
       THEN LET q == CHOOSE q \in Pid : q \notin running
            IN  \E rows \in {<<>>} \cup uncleared :
                   Population(running \cup {q},
                              [sh EXCEPT ![p] = Prompt(p),
                                         ![q] = [Idle EXCEPT !.pc = "start", !.leftover = rows]])
       ELSE Abort(p)

(* EXIT fails if every other process is blocked. *)
Exit(p) ==
    /\ At(p, "exit")
    /\ \/ running # {p} /\ Population(running \ {p}, sh)
       \/ Abort(p)

(* KILL of the other shell, wherever it is. *)
Kill(p) ==
    /\ At(p, "kill")
    /\ IF running # {p} THEN Population({p}, [sh EXCEPT ![p] = Prompt(p)]) ELSE Abort(p)

-----------------------------------------------------------------------------

(* Shell p goes on, without its user. *)
Work(p) ==
    \/ OpenStdin(p)
    \/ StatArgument(p) \/ Ls(p) \/ Mkdir(p) \/ Touch(p) \/ Del(p)
    \/ DeleteStat(p) \/ DeleteList(p) \/ DeleteDelete(p)
    \/ OpenSource(p) \/ MakeCopy(p) \/ OpenCopy(p) \/ ReadBlock(p) \/ WriteBlock(p)
    \/ MoveDelete(p) \/ Tac(p) \/ Cat(p)
    \/ FindBegin(p) \/ FindStat(p) \/ FindList(p) \/ FindEnd(p)
    \/ Exec(p) \/ Exit(p) \/ Kill(p)

Next == \E p \in Pid : Work(p) \/ \E line \in Lines : Run(p, line)

(* The scheduler lets every process that is not blocked go on. *)
Spec == Init /\ [][Next]_vars /\ \A p \in Pid : WF_vars(Work(p))

-----------------------------------------------------------------------------

(* Whatever is typed in whatever directory, a command works on the path    *)
(* that it means, in its canonical form: get_handler_by_path and strcmp    *)
(* compare it character by character.                                      *)
PathsAreCanonical ==
    [][\A p \in Pid :
          sh[p].pc = "prompt" /\ sh'[p].line # NoLine /\ sh'[p].line.args # <<>> =>
              sh'[p].path = TextOf(Meaning(CombinePath(sh[p].cwd, sh'[p].line.args[1])))]_vars

(* VFS_DIR_STAT is asked of a directory, and what it writes fits into the  *)
(* array that VFS_STAT was asked the size of, with the mounts, for ls, find *)
(* and delete_recursive, unless a process or a file came or went between   *)
(* the two calls. Only a find that began with rows an earlier one left may *)
(* come to a file.                                                         *)
Listed(p) == CASE sh[p].pc = "ls" -> {sh[p].path}
               [] sh[p].pc = "find list" -> {Last(sh[p].file_list)}
               [] sh[p].pc = "del -r" /\ Todo(p).op = "list" -> {Todo(p).path}
               [] OTHER -> {}
Stray(p) == sh[p].pc = "find list" /\ sh[p].leftover # <<>>
ListingsFit ==
    \A p \in Pid : sh[p].quiet =>
        \A path \in Listed(p) :
            \/ Stat(path).type = "dir" /\ Fits(p, DirStat(path))
            \/ Stat(path).type = "file" /\ Stray(p)

(* A find that comes to its end (the model does not stop in it) printed    *)
(* every file and directory of that name and nothing else, with those of   *)
(* /proc and /dev, if nothing changed meanwhile; and each once, unless it  *)
(* began with rows an earlier one left.                                    *)
Everything == {TextOf(names) : names \in DOMAIN tree}
              \cup {TextOf(<<Proc>>), TextOf(<<Dev>>)}
              \cup {TextOf(<<Proc, NameOf(p)>>) : p \in running}
              \cup {TextOf(<<Dev, name>>) : name \in Range(DevNames)}
FindIsComplete ==
    \A p \in Pid : sh[p].pc = "found" /\ sh[p].quiet =>
        /\ Range(sh[p].found) = {path \in Everything :
                                    SplitPath(path).basename = Arg(sh[p].line, 1)}
        /\ sh[p].leftover = <<>> => IsInjective(sh[p].found)

(* del -r of a directory with entries that comes to its end leaves nothing *)
(* at and below it, and everything else, if nothing changes meanwhile but  *)
(* by itself. (That of the root does not: the model stops.)                *)
DeletesExactlyBelow ==
    [][\A p \in Pid :
          sh[p].pc = "del -r" /\ sh'[p].pc = "prompt" /\ sh[p].quiet /\ ~wild' =>
              tree' = LET kept == {names \in DOMAIN sh[p].before :
                                      ~IsPrefix(Words(sh[p].path), names)}
                      IN  [names \in kept |-> sh[p].before[names]]]_vars

(* mv deletes its source only when the copy has all of its content (and    *)
(* what fills its last block), unless a write failed, whose result it does *)
(* not look at, or another shell changed a file meanwhile.                 *)
MoveKeepsContent ==
    [][\A p \in Pid :
          MoveDelete(p) /\ sh[p].quiet /\ ~sh[p].failed =>
              /\ Words(sh[p].path) \notin DOMAIN tree'
              /\ IsPrefix(sh[p].before[Words(sh[p].path)].content,
                          tree'[Words(sh[p].to)].content)]_vars

(* Every command ends, or what it does is unknown: a shell is at its prompt *)
(* (or gone) again and again.                                              *)
CommandsEnd == \A p \in Pid : []<>(sh[p].pc \in {"prompt", "off"} \/ wild)
=============================================================================
