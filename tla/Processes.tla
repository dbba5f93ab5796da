----------------------------- MODULE Processes -----------------------------
(***************************************************************************)
(* Process identifiers: pids run from PROCESS_START_PID, 1, for            *)
(* PROCESS_COUNT_MAX processes (process.h).                                *)
(***************************************************************************)
EXTENDS Naturals

CONSTANT MaxPid     \* PROCESS_COUNT_MAX

ASSUME MaxPidAssumption == MaxPid \in Nat \ {0}

Pid == 1..MaxPid

(* No process: -1 or NULL in the code. *)
NoPid == 0
=============================================================================
