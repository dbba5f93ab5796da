------------------------------- MODULE Paging -------------------------------
(***************************************************************************)
(* The physical memory of processes: paging.c.  Memory is a row of 4 MiB   *)
(* page frames; the page manager records which are mapped and by which     *)
(* page directory, and hands out the lowest free one.  A page directory is *)
(* identified with the process it belongs to, and its only user entry is   *)
(* the one process_create fills, at virtual address 0: the entries of the  *)
(* kernel's half are the same in every directory and never change.         *)
(***************************************************************************)
EXTENDS Processes, FiniteSets, Integers

CONSTANT FrameCount     \* PAGE_FRAME_MAX_COUNT

(* Frames 0 and 1 hold the kernel. *)
KernelFrames == {0, 1}

(* One frame more, for the first process, or the system does not start. *)
ASSUME FrameCountAssumption == FrameCount \in Nat /\ FrameCount > 2

Frame == 0..(FrameCount - 1)

NoFrame == -1

VARIABLES
    mapped,                 \* page_manager_state.mapped
    mapped_dir,             \* page_manager_state.mapped_dir
    free_page_frame_count,  \* page_manager_state.free_page_frame_count
    directories,            \* the page directories that are allocated
    entry,                  \* the frame that user page 0 of each maps
    cr3                     \* the page directory the CPU uses

frameVars == <<mapped, mapped_dir, free_page_frame_count>>
pagingVars == <<mapped, mapped_dir, free_page_frame_count, directories, entry,
                cr3>>

PagingTypeOK == /\ mapped \in [Frame -> BOOLEAN]
                /\ mapped_dir \in [Frame -> Pid \cup {NoPid}]
                /\ free_page_frame_count \in Nat
                /\ directories \subseteq Pid
                /\ entry \in [Pid -> Frame \cup {NoFrame}]
                /\ cr3 \in Pid

FreeFrames == {f \in Frame : ~mapped[f]}

(* paging_allocate_check(amount). *)
AllocateCheck(amount) == amount <= free_page_frame_count

(* The first free frame in the order of the array. *)
IsFirstFree(f) == /\ f \in FreeFrames
                  /\ \A g \in 0..(f - 1) : mapped[g]

(***************************************************************************)
(* paging_create_new_page_directory and then                               *)
(* paging_allocate_user_page_frame(d, 0), successful.                      *)
(***************************************************************************)
AllocateUserFrame(d) ==
    /\ free_page_frame_count # 0
    /\ \E f \in Frame : /\ IsFirstFree(f)
                        /\ mapped' = [mapped EXCEPT ![f] = TRUE]
                        /\ mapped_dir' = [mapped_dir EXCEPT ![f] = d]
                        /\ entry' = [entry EXCEPT ![d] = f]
    /\ free_page_frame_count' = free_page_frame_count - 1
    /\ directories' = directories \cup {d}

(* The first frame that the page manager recorded for d, if any. *)
IsFrameOf(f, d) == /\ mapped_dir[f] = d
                   /\ \A g \in 0..(f - 1) : mapped_dir[g] # d

(* Fault: the owner of the frame is not reset. *)
FreePageDirectoryKeepsOwner(d) ==
    /\ \E f \in Frame : IsFrameOf(f, d) /\ mapped' = [mapped EXCEPT ![f] = FALSE]
    /\ free_page_frame_count' = free_page_frame_count + 1
    /\ entry' = [entry EXCEPT ![d] = NoFrame]
    /\ directories' = directories \ {d}
    /\ UNCHANGED mapped_dir

(***************************************************************************)
(* paging_free_page_directory(d): a present user entry gives its frame     *)
(* back, then the directory is cleared and freed.                          *)
(***************************************************************************)
FreePageDirectory(d) ==
    /\ IF entry[d] # NoFrame /\ \E f \in Frame : mapped_dir[f] = d
       THEN /\ \E f \in Frame :
                   /\ IsFrameOf(f, d)
                   /\ mapped' = [mapped EXCEPT ![f] = FALSE]
                   /\ mapped_dir' = [mapped_dir EXCEPT ![f] = NoPid]
            /\ free_page_frame_count' = free_page_frame_count + 1
       ELSE UNCHANGED frameVars
    /\ entry' = [entry EXCEPT ![d] = NoFrame]
    /\ directories' = directories \ {d}

(* paging_use_page_directory(d). *)
UsePageDirectory(d) == cr3' = d

(***************************************************************************)
(* Right after the process first was created and started: it has the first *)
(* frame after the kernel's.  page_manager_state starts with the two       *)
(* kernel frames mapped, but its counter starts at all the frames.         *)
(***************************************************************************)
PagingInit(first) ==
    /\ mapped = [f \in Frame |-> f \in KernelFrames \cup {2}]
    /\ mapped_dir = [f \in Frame |-> IF f = 2 THEN first ELSE NoPid]
    /\ free_page_frame_count = FrameCount - 1
    /\ directories = {first}
    /\ entry = [d \in Pid |-> IF d = first THEN 2 ELSE NoFrame]
    /\ cr3 = first

-----------------------------------------------------------------------------

(***************************************************************************)
(* The records of the page manager and the page directories agree: a       *)
(* directory maps the frame recorded for it and no other directory maps    *)
(* that frame; a frame is mapped if and only if it is the kernel's or some *)
(* directory's.  So no process sees the memory of another or of the        *)
(* kernel, and no frame is lost.                                           *)
(***************************************************************************)
FramesIsolated ==
    /\ \A f \in Frame, d \in Pid : mapped_dir[f] = d <=> entry[d] = f
    /\ \A f \in Frame : mapped[f] <=> f \in KernelFrames \/ mapped_dir[f] # NoPid
    /\ \A f \in KernelFrames : mapped_dir[f] = NoPid
    /\ \A d \in Pid : d \in directories <=> entry[d] # NoFrame

(***************************************************************************)
(* The counter of free frames is always two too high, because it counts    *)
(* the kernel's frames: it is exact about changes and wrong by a constant. *)
(***************************************************************************)
CounterCountsKernel ==
    free_page_frame_count = Cardinality(FreeFrames) + Cardinality(KernelFrames)
=============================================================================
