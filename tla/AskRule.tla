------------------------------ MODULE AskRule ------------------------------
(***************************************************************************)
(* What answering the daemon's questions promises, with no thread in it: a *)
(* handler object exists for every question while the question is open, a  *)
(* question is settled once (answered, abandoned by the daemon, or refused *)
(* because the server stops), and the object goes away only afterwards.    *)
(***************************************************************************)
CONSTANT Calls

VARIABLES question, object
vars == <<question, object>>

Settled(c) == question[c] \in {"answered", "abandoned", "refused"}

Init ==
  /\ question = [c \in Calls |-> "idle"]
  /\ \E h \in Calls : object = [c \in Calls |-> IF c = h THEN "live" ELSE "none"]

\* A handler is made; it is born refused when the server no longer accepts.
Create(c) ==
  /\ object[c] = "none"
  /\ object' = [object EXCEPT ![c] = "live"]
  /\ question' \in {question, [question EXCEPT ![c] = "refused"]}

Move(c, from, to) ==
  /\ object[c] = "live"
  /\ question[c] = from
  /\ question' = [question EXCEPT ![c] = to]
  /\ UNCHANGED object

Pose(c) == Move(c, "idle", "open")
Answer(c) == Move(c, "open", "answered")
Abandon(c) == Move(c, "open", "abandoned")

RefuseIdle ==
  /\ question' = [c \in Calls |-> IF object[c] = "live" /\ question[c] = "idle"
                                  THEN "refused" ELSE question[c]]
  /\ UNCHANGED object

Free(c) ==
  /\ object[c] = "live" /\ Settled(c)
  /\ object' = [object EXCEPT ![c] = "freed"]
  /\ UNCHANGED question

Next ==
  \/ \E c \in Calls : Create(c) \/ Pose(c) \/ Answer(c) \/ Abandon(c) \/ Free(c)
  \/ RefuseIdle

Spec == Init /\ [][Next]_vars
=============================================================================
