----------------------------- MODULE MCPidAlloc -----------------------------
(* Two callers of allocate_pid, e.g. main starting a thread and a process  *)
(* forking.                                                                *)
EXTENDS PidAlloc
CONSTANTS c1, c2
MCCallers == {c1, c2}
=============================================================================
