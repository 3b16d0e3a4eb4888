---------------------------- MODULE MCEventsTab ----------------------------
(* A small instance of EventsTab: two actions; a number, a greater one that *)
(* a text comparison puts first, and no host name at all.  One program of  *)
(* one user reaches all three, two of them at one address.                 *)
EXTENDS EventsTab

MCNumber == [d \in {"10", "7", ""} |-> CASE d = "10" -> 10 [] d = "7" -> 7 [] OTHER -> 0]
MCCollation == [d \in {"10", "7", ""} |-> CASE d = "10" -> 2 [] d = "7" -> 3 [] OTHER -> 1]
MCHolds == [t \in {"o"} |-> {"allow"}]
MCNameOf == [u \in {"0"} |-> "root"]
MCColumnsOf == [d \in {"10", "7", ""} |->
  [node |-> "n", protocol |-> IF d = "" THEN "udp" ELSE "tcp", src_ip |-> "s",
   dst_ip |-> IF d = "10" THEN "a" ELSE "b", dst_port |-> "53", uid |-> "0", pid |-> "1",
   process |-> "p", process_args |-> "", process_cwd |-> "", rule |-> "r"]]

\* What the theorem about the order asks of the destinations holds here.
ASSUME MCConsistentAssumption == Consistent
=============================================================================
