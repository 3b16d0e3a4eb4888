--------------------------- MODULE MCStatsWindow ---------------------------
(* Two daemons; two connections to one host by two programs, one with       *)
(* arguments; the details by host and by program.                           *)
EXTENDS StatsWindow, TLC

MCSymmetry == Permutations(Peers)
MCArgsOf == [c \in {"c1", "c2"} |-> IF c = "c1" THEN "none" ELSE "args"]
MCWhatOf == [c \in {"c1", "c2"} |->
               [hosts |-> "h", procs |-> IF c = "c1" THEN "p" ELSE "q"]]
MCRuleOf == [c \in {"c1", "c2"} |-> "r"]
=============================================================================
