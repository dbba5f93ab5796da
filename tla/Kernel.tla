------------------------------- MODULE Kernel -------------------------------
(***************************************************************************)
(* The whole process path of the kernel: the scheduler composed with the   *)
(* memory of processes and with what interrupts and system calls do to     *)
(* the registers (interrupt.c, intsetup.s).                                *)
(*                                                                         *)
(* Every action is an action of Scheduler together with what the same      *)
(* handler does to the page directories and to eax.  eax stands for all    *)
(* registers: it is the only one a system call writes.  Its value is       *)
(*   "own"      what the process computed, which it must get back;         *)
(*   "number"   the number of the system call it made;                     *)
(*   "result"   the result of that call;                                   *)
(*   "foreign"  the result of a system call of another process.            *)
(***************************************************************************)
EXTENDS Scheduler, Paging

VARIABLES
    eax,                        \* eax in user mode, or in the frame on the stack
    saved,                      \* eax in context.frame of each process
    owed,                       \* history: what each process must find in eax
    syscall_return_value_flag,
    active_process_count        \* process_manager_state

registerVars == <<eax, saved, owed, syscall_return_value_flag>>
kernelVars == <<vars, pagingVars, registerVars, active_process_count>>

Value == {"own", "number", "result", "foreign"}

KernelTypeOK == /\ TypeOK
                /\ PagingTypeOK
                /\ eax \in Value
                /\ saved \in [Pid -> {"own", "number"}]
                /\ owed \in [Pid -> {"own", "result", "anything"}]
                /\ syscall_return_value_flag \in BOOLEAN
                /\ active_process_count \in Nat

KernelInit == /\ Init
              /\ PagingInit(1)
              /\ eax = "own"
              /\ saved = [p \in Pid |-> "own"]
              /\ owed = [p \in Pid |-> "own"]
              /\ syscall_return_value_flag = FALSE
              /\ active_process_count = 1

-----------------------------------------------------------------------------
(* Registers.                                                              *)

(* memcpy of the interrupt frame to the context of the current process. *)
SaveFrame(value, must) == /\ saved' = [saved EXCEPT ![current] = value]
                          /\ owed' = [owed EXCEPT ![current] = must]

(* The entry of a system call sets the flag; its handler may clear it. *)
EnterSyscall == syscall_return_value_flag' = TRUE

(* A system call that does not switch writes its result to eax. *)
ImmediateSyscall == /\ EnterSyscall
                    /\ eax' = "result"
                    /\ owed' = [owed EXCEPT ![current] = "result"]
                    /\ UNCHANGED saved

(* An interrupt that does not switch leaves the frame alone. *)
NoSwitch == UNCHANGED registerVars

-----------------------------------------------------------------------------
(* Memory.                                                                 *)

KeepMemory == UNCHANGED <<pagingVars, active_process_count>>

ReleaseMemory(p) == /\ FreePageDirectory(p)
                    /\ active_process_count' = active_process_count - 1
                    /\ UNCHANGED cr3

-----------------------------------------------------------------------------
(* The handlers.                                                           *)

(***************************************************************************)
(* EXEC of a program file.  process_create loads the file through the new  *)
(* page directory and then restores the caller's.  needed is the number of *)
(* frames it checks for; it allocates one.                                 *)
(***************************************************************************)
Exec(p) == \E needed \in 1..FrameCount :
    /\ ProcessCreate(p)
    /\ active_process_count < MaxPid
    /\ AllocateCheck(needed)
    /\ AllocateUserFrame(p)
    /\ UsePageDirectory(cr3)
    /\ active_process_count' = active_process_count + 1
    /\ saved' = [saved EXCEPT ![p] = "own"]
    /\ owed' = [owed EXCEPT ![p] = "anything", ![current] = "result"]
    /\ eax' = "result"
    /\ EnterSyscall

(***************************************************************************)
(* EXEC that fails: no such file, a directory, a file too large, no pid,   *)
(* no memory.  What process_create had allocated by then is freed again.   *)
(***************************************************************************)
ExecFails == /\ mode = "user"
             /\ UNCHANGED vars
             /\ KeepMemory
             /\ ImmediateSyscall

KernelKill(p) == /\ Kill(p)
                 /\ ReleaseMemory(p)
                 /\ ImmediateSyscall

(* KILL of the caller itself. *)
KillSelfFails == /\ mode = "user"
                 /\ UNCHANGED vars
                 /\ KeepMemory
                 /\ ImmediateSyscall

KernelExit == /\ Exit
              /\ SaveFrame("number", "result")
              /\ EnterSyscall
              /\ KeepMemory
              /\ UNCHANGED eax

KernelPageFault == /\ PageFault
                   /\ SaveFrame("own", "own")
                   /\ KeepMemory
                   /\ UNCHANGED <<eax, syscall_return_value_flag>>

(* The frame is saved only if the interrupt preempts the current process. *)
KernelTimer == /\ Timer
               /\ IF state[current] = "Waiting"
                  THEN UNCHANGED <<saved, owed>>
                  ELSE SaveFrame("own", "own")
               /\ KeepMemory
               /\ UNCHANGED <<eax, syscall_return_value_flag>>

KernelKeyboard == Keyboard /\ NoSwitch /\ KeepMemory

KernelSleep(seconds) == /\ Sleep(seconds)
                        /\ SaveFrame("number", "anything")
                        /\ EnterSyscall
                        /\ KeepMemory
                        /\ UNCHANGED eax

KernelReadLine == ReadLine /\ ImmediateSyscall /\ KeepMemory

(* Fault: the frame is saved after the result was written to it. *)
KernelReadBlocksSavesLate == /\ ReadBlocks
                             /\ SaveFrame("result", "result")
                             /\ EnterSyscall
                             /\ KeepMemory
                             /\ UNCHANGED eax

KernelReadBlocks == /\ ReadBlocks
                    /\ SaveFrame("number", "result")
                    /\ EnterSyscall
                    /\ KeepMemory
                    /\ UNCHANGED eax

KernelOpenStdin == OpenStdin /\ ImmediateSyscall /\ KeepMemory

KernelLoseStdin == LoseStdin /\ ImmediateSyscall /\ KeepMemory

KernelCloseStdin == CloseStdin /\ ImmediateSyscall /\ KeepMemory

-----------------------------------------------------------------------------
(* The switch.                                                             *)

KernelScanPast == ScanPast /\ NoSwitch /\ KeepMemory

KernelScanHalt == ScanHalt /\ NoSwitch /\ KeepMemory

KernelResume == Resume /\ NoSwitch /\ KeepMemory

(* Fault: the page directory of the chosen process is not loaded. *)
KernelDispatchKeepsDirectory ==
    /\ Dispatch
    /\ eax' = saved[current']
    /\ KeepMemory
    /\ UNCHANGED <<saved, owed, syscall_return_value_flag>>

(***************************************************************************)
(* The chosen process's page directory and frame are loaded.  A recall     *)
(* runs syscall_handler on that frame: it writes the result only if the    *)
(* flag is set, and the flag is cleared afterwards, so that the handler    *)
(* that called the scan does not write its own result over it.             *)
(***************************************************************************)
KernelDispatch ==
    /\ Dispatch
    /\ UsePageDirectory(current')
    /\ LET recall == notifier[current'].kind = "line"
       IN  /\ eax' = IF recall /\ syscall_return_value_flag
                     THEN "result" ELSE saved[current']
           /\ syscall_return_value_flag' =
                  IF recall THEN FALSE ELSE syscall_return_value_flag
    /\ UNCHANGED <<saved, owed, frameVars, directories, entry,
                   active_process_count>>

(* Fault: process_current_sleep does not clear syscall_return_value_flag. *)
KernelReturnKeepsFlag ==
    /\ Return
    /\ eax' = IF cause \in {"sleep", "read", "exit"} /\ syscall_return_value_flag
              THEN IF current = prev THEN "result" ELSE "foreign"
              ELSE eax
    /\ IF cause \in {"exit", "fault"} /\ current # prev
       THEN ReleaseMemory(prev)
       ELSE KeepMemory
    /\ UNCHANGED <<saved, owed, syscall_return_value_flag>>

(***************************************************************************)
(* The rest of the handler: stdin_read returns 0 to the system call that   *)
(* blocked, EXIT takes the result of process_destroy, and syscall_handler  *)
(* writes it to the frame, which is the frame of the process switched to.  *)
(***************************************************************************)
KernelReturn ==
    /\ Return
    /\ eax' = IF cause \in {"read", "exit"} /\ syscall_return_value_flag
              THEN IF current = prev THEN "result" ELSE "foreign"
              ELSE eax
    /\ syscall_return_value_flag' =
           IF cause = "sleep" THEN FALSE ELSE syscall_return_value_flag
    /\ IF cause \in {"exit", "fault"} /\ current # prev
       THEN ReleaseMemory(prev)
       ELSE KeepMemory
    /\ UNCHANGED <<saved, owed>>

KernelNext ==
    \/ KernelScanPast \/ KernelScanHalt \/ KernelDispatch
    \/ KernelResume \/ KernelReturn
    \/ KernelTimer \/ KernelKeyboard
    \/ \E p \in Pid : Exec(p) \/ KernelKill(p)
    \/ ExecFails \/ KillSelfFails
    \/ KernelExit \/ KernelPageFault
    \/ \E seconds \in 0..MaxSecond : KernelSleep(seconds)
    \/ KernelReadLine \/ KernelReadBlocks
    \/ KernelOpenStdin \/ KernelLoseStdin \/ KernelCloseStdin

KernelSpec == KernelInit /\ [][KernelNext]_kernelVars

-----------------------------------------------------------------------------

(***************************************************************************)
(* The CPU uses the page directory of the process it executes (during the  *)
(* scan and its hlt, of the process it was called for), and never one that *)
(* has been freed, not even between the switch away from a dying process   *)
(* and the end of its process_destroy.                                     *)
(***************************************************************************)
ActiveDirectory == /\ cr3 \in directories
                   /\ cr3 = IF mode = "scan" THEN prev ELSE current

(***************************************************************************)
(* Memory follows life: the live processes are exactly the owners of page  *)
(* directories and their number is the count that limits EXEC.             *)
(***************************************************************************)
MemoryIsLive == /\ directories = live
                /\ active_process_count = Cardinality(live)

(***************************************************************************)
(* A process preempted by the timer or a page fault finds its registers as *)
(* they were when a timer interrupt, another's SLEEP or another's page     *)
(* fault switches back to it.                                              *)
(***************************************************************************)
PreemptionIsTransparent ==
    [][mode = "return" /\ cause \in {"timer", "sleep", "fault"} /\ owed[current] = "own"
           => eax' = "own"]_kernelVars

(***************************************************************************)
(* The same whatever switched back to it, as the comment on struct         *)
(* ProcessContext promises: "Contain information needed for task to be     *)
(* able to get interrupted and resumed later".  The code breaks this.      *)
(***************************************************************************)
RegistersRestored == mode = "user" /\ owed[current] = "own" => eax = "own"

(***************************************************************************)
(* A process that blocked in VFS_READ gets the result of its read when it  *)
(* goes on, which is what the recall of its system call is for.  The code  *)
(* breaks this.                                                            *)
(***************************************************************************)
ReadsReturnTheirResult ==
    mode = "user" /\ owed[current] = "result" => eax = "result"
=============================================================================
