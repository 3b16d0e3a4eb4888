--------------------------- MODULE MCProcMonitor ---------------------------
(* Two daemons, two processes.                                             *)
EXTENDS ProcMonitor

MCBefore == [p \in {"p1", "p2"} |-> IF p = "p2" THEN {"p1"} ELSE {}]
=============================================================================
