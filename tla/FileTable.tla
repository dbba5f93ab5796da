------------------------------ MODULE FileTable ------------------------------
(***************************************************************************)
(* Open files: the descriptors of each process (file_descriptor.c), the    *)
(* file table that they point into (vfs.c), and what opening and closing   *)
(* do in the devices (dev.c), in /proc (proc.c) and on the screen.         *)
(*                                                                         *)
(* A system call runs with interrupts disabled, so each is one action.     *)
(* Bounds: programs use descriptors they got from VFS_OPEN only (vfs.c     *)
(* does not check the index), and the table does not fill up (its search   *)
(* would return the index behind it).                                      *)
(***************************************************************************)
EXTENDS Screen

CONSTANTS
    Process,        \* process identifiers
    PROCESS_MAX_FD,
    MAX_FT

ASSUME FileTableAssumption ==
    /\ PROCESS_MAX_FD \in Nat \ {0}
    /\ MAX_FT \in Nat \ {0}
    /\ Blank \in Char /\ Empty \notin Char

Fd == 0..(PROCESS_MAX_FD - 1)
Ft == 0..(MAX_FT - 1)
Free == -1

(* The word behind fd[], which get_free_fd_of_current_process returns the  *)
(* index of when no descriptor is free; it belongs to the heap.            *)
Beyond == PROCESS_MAX_FD
HeapWord == MAX_FT

(* Opening a file of the disk or /dev/stdout changes nothing but the table. *)
Kind == {"plain", "proc", "stdin", "stdout_layered"}

VARIABLES
    alive,      \* the processes there are
    fd,         \* pcb->fd and the word behind it
    files,      \* file_table_context and _handler: the kind, or "none"
    foreground, \* the foreground list, top_foreground first
    display,    \* the screen
    spilled     \* history: files whose descriptor was stored behind fd[]

vars == <<alive, fd, files, foreground, display, spilled>>

NoDescriptors == [i \in Fd \cup {Beyond} |-> IF i = Beyond THEN HeapWord ELSE Free]

Init == /\ alive = {}
        /\ fd = [p \in Process |-> NoDescriptors]
        /\ files = [t \in Ft |-> "none"]
        /\ foreground = <<>>
        /\ display = Initial
        /\ spilled = {}

(* register_file_table_context's search. *)
IsFreeFt(t) == /\ t \in Ft
               /\ files[t] = "none"
               /\ \A u \in 0..(t - 1) : files[u] # "none"

(* get_free_fd_of_current_process. *)
GetFreeFd(p) == CHOOSE i \in Fd \cup {Beyond} :
                    /\ i \in Fd => fd[p][i] = Free
                    /\ \A j \in Fd : j < i => fd[p][j] # Free

-----------------------------------------------------------------------------
(* Opening.                                                                *)

(* VFS_OPEN stores the file table index, also behind fd[]. *)
SetFt(p, t) ==
    /\ fd' = [fd EXCEPT ![p][GetFreeFd(p)] = t]
    /\ spilled' = IF GetFreeFd(p) = Beyond THEN spilled \cup {t} ELSE spilled

Register(p, t, kind) ==
    /\ p \in alive
    /\ IsFreeFt(t)
    /\ files' = [files EXCEPT ![t] = kind]
    /\ SetFt(p, t)
    /\ UNCHANGED alive

(* A file of the disk, a file of /proc, or /dev/stdout. *)
OpenPlain(p, t, kind) ==
    /\ kind \in {"plain", "proc"}
    /\ Register(p, t, kind)
    /\ UNCHANGED <<foreground, display>>

(* stdin_open. That it may be refused is a stuttering step: the duplicate  *)
(* check compares with pids that are never filled in.                      *)
OpenStdin(p, t) ==
    /\ Register(p, t, "stdin")
    /\ foreground' = <<t>> \o foreground
    /\ UNCHANGED display

OpenLayer(p, t) ==
    /\ Register(p, t, "stdout_layered")
    /\ display' = CreateLayer(display, t)
    /\ UNCHANGED foreground

-----------------------------------------------------------------------------
(* Closing, as a function of what it changes.                              *)

World == [files |-> files, foreground |-> foreground, display |-> display]

(* Fault: only the process at the top of the list can leave it. *)
StdinCloseTop(list, t) == IF list # <<>> /\ Head(list) = t THEN Tail(list) ELSE list

(* stdin_close. *)
StdinClose(list, t) == RemoveFirst(list, t)

(* vfs.close; the one of proc.c does nothing but return -1. *)
CloseFile(w, t) ==
    IF w.files[t] = "proc" THEN w
    ELSE [files |-> [w.files EXCEPT ![t] = "none"],
          foreground |-> IF w.files[t] = "stdin" THEN StdinClose(w.foreground, t)
                                                 ELSE w.foreground,
          display |-> IF w.files[t] = "stdout_layered" THEN RemoveLayer(w.display, t)
                                                       ELSE w.display]

Becomes(w) == /\ files' = w.files
              /\ foreground' = w.foreground
              /\ display' = w.display
              /\ spilled' = {t \in spilled : w.files[t] # "none"}

(* Fault: the descriptor is not cleared. *)
CloseUncleared(p, i) ==
    /\ p \in alive
    /\ fd[p][i] \in Ft
    /\ Becomes(CloseFile(World, fd[p][i]))
    /\ UNCHANGED <<alive, fd>>

(* VFS_CLOSE clears the descriptor if the file could be closed. *)
Close(p, i) ==
    /\ p \in alive
    /\ fd[p][i] \in Ft
    /\ Becomes(CloseFile(World, fd[p][i]))
    /\ fd' = IF files[fd[p][i]] = "proc" THEN fd ELSE [fd EXCEPT ![p][i] = Free]
    /\ UNCHANGED alive

-----------------------------------------------------------------------------
(* Processes.                                                              *)

(***************************************************************************)
(* process_create clears the descriptors of the new process. It opens the  *)
(* program's file and closes it again, for which it needs a free index.    *)
(***************************************************************************)
Create(p) ==
    /\ p \notin alive
    /\ \E t \in Ft : IsFreeFt(t)
    /\ alive' = alive \cup {p}
    /\ fd' = [fd EXCEPT ![p] = NoDescriptors]
    /\ UNCHANGED <<files, foreground, display, spilled>>

(* What cleanup_fd has closed after the first n descriptors. *)
ClosedBelow(p) ==
    LET w[n \in 0..PROCESS_MAX_FD] ==
            IF n = 0 THEN World
            ELSE IF fd[p][n - 1] = Free THEN w[n - 1]
            ELSE CloseFile(w[n - 1], fd[p][n - 1])
    IN  w

(* Fault: the loop ends at the first free descriptor. *)
CleanupFdToFirstFree(p) ==
    ClosedBelow(p)[Min({n \in 0..PROCESS_MAX_FD : n = PROCESS_MAX_FD \/ fd[p][n] = Free})]

(* cleanup_fd closes them in order; it does not look behind fd[]. *)
CleanupFd(p) == ClosedBelow(p)[PROCESS_MAX_FD]

(* process_destroy: EXIT, KILL or a page fault. *)
Destroy(p) ==
    /\ p \in alive
    /\ Becomes(CleanupFd(p))
    /\ alive' = alive \ {p}
    /\ fd' = [fd EXCEPT ![p] = NoDescriptors]

-----------------------------------------------------------------------------
(* The screen.                                                             *)

(* fputc and stdout_write print on the console, with or without a file. *)
Echo(c) ==
    /\ display' = Put(display, c)
    /\ UNCHANGED <<alive, fd, files, foreground, spilled>>

(* framebuffer_clear and framebuffer_scroll_up. *)
Scroll(c) ==
    /\ display' = WriteToLayer(display, Base, c)
    /\ UNCHANGED <<alive, fd, files, foreground, spilled>>

(* stdout_layered_write. *)
WriteLayer(p, i, c) ==
    /\ p \in alive
    /\ fd[p][i] \in Ft
    /\ files[fd[p][i]] = "stdout_layered"
    /\ display' = WriteToLayer(display, fd[p][i], c)
    /\ UNCHANGED <<alive, fd, files, foreground, spilled>>

Next ==
    \/ \E p \in Process :
           \/ Create(p) \/ Destroy(p)
           \/ \E t \in Ft : \/ \E kind \in Kind : OpenPlain(p, t, kind)
                            \/ OpenStdin(p, t)
                            \/ OpenLayer(p, t)
           \/ \E i \in Fd \cup {Beyond} : \/ Close(p, i)
                                          \/ \E c \in Char : WriteLayer(p, i, c)
    \/ \E c \in Char : Echo(c) \/ Scroll(c)

Spec == Init /\ [][Next]_vars

-----------------------------------------------------------------------------
(* Properties.                                                             *)

Descriptors == {d \in alive \X (Fd \cup {Beyond}) : fd[d[1]][d[2]] \in Ft}

FileOf(d) == fd[d[1]][d[2]]

(***************************************************************************)
(* Through all openings, closings and endings of processes, a descriptor   *)
(* points to a file that is open, and no two descriptors, of one process   *)
(* or of two, to the same: nobody reads the input or closes the file of    *)
(* another.                                                                *)
(***************************************************************************)
DescriptorsExclusive ==
    \A d \in Descriptors : /\ files[FileOf(d)] # "none"
                           /\ \A e \in Descriptors \ {d} : FileOf(e) # FileOf(d)

(***************************************************************************)
(* A file that no living process has open is one of /proc, which cannot be *)
(* closed, or was stored behind fd[], where cleanup_fd does not find it:   *)
(* nothing else is ever leaked.                                            *)
(***************************************************************************)
LeaksExplained ==
    \A t \in Ft : files[t] # "none"
                      => \/ \E d \in Descriptors : FileOf(d) = t
                         \/ files[t] = "proc"
                         \/ t \in spilled

(***************************************************************************)
(* The foreground list and the layers are those of the open files, once    *)
(* each. So closing one takes it out from wherever it is, and a process    *)
(* that ended takes no further input and leaves nothing on the screen, but *)
(* by a file that was stored behind fd[], which stays open for ever.       *)
(***************************************************************************)
DevicesFollowFiles ==
    /\ IsInjective(foreground)
    /\ ToSet(foreground) = {t \in Ft : files[t] = "stdin"}
    /\ IsInjective(display.layers)
    /\ ToSet(display.layers) = {Base} \cup {t \in Ft : files[t] = "stdout_layered"}

(***************************************************************************)
(* Whatever the order in which layers were opened, written and closed, the *)
(* screen shows the highest layer that has something there, unless the     *)
(* console printed over it since.                                          *)
(***************************************************************************)
TopLayerShows ==
    ~display.overprinted => display.shown = Topmost(display, Len(display.layers))
=============================================================================
