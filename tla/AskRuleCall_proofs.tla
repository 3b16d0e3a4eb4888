------------------------- MODULE AskRuleCall_proofs -------------------------
(***************************************************************************)
(* Proofs about AskRuleCall, for every set of calls and both switches.     *)
(***************************************************************************)
EXTENDS AskRuleCall, TLAPS

\* Where the frame of a call is before and after Finish() was decided on.
WaitingPlaces  == {"queued", "prompt", "finish"}
FinishedPlaces == {"storeFinish", "release", "readDone", "readCompleted",
                   "delete", "returned"}
DonePlaces     == {"done", "doneUnheld", "doneCompleted"}
Over == {"replied", "cancelled"}

\* What each kind of completion says about its call.
TagInv ==
  \A m \in completions :
    /\ m.tag = "ACCEPT" /\ m.ok =>
         /\ rpc[m.call] \in {"open", "cancelled"}
         /\ gui[m.call] = "none"
         /\ cqCall # m.call
    /\ m.tag = "ACCEPT" /\ ~m.ok => rpc[m.call] = "aborted"
    /\ m.tag = "FINISH" => gui[m.call] \in FinishedPlaces /\ rpc[m.call] \in Over
    /\ m.tag = "DONE" => gui[m.call] # "none" /\ rpc[m.call] \in Over

\* What the place of the cq thread says about the call it works on.
CqInv ==
  /\ cqAt = "accept" =>
       gui[cqCall] = "none" /\ rpc[cqCall] \in {"open", "cancelled"}
  /\ cqAt \in DonePlaces => gui[cqCall] # "none"
  /\ cqAt \in DonePlaces \cup {"finish", "finishCheck"} => rpc[cqCall] \in Over
  /\ cqAt = "delete" => rpc[cqCall] \in Over \cup {"aborted"}

\* What the daemon's view of a call says about the threads.
RpcInv ==
  \A c \in Calls :
    /\ rpc[c] \in {"idle", "aborted"} => gui[c] = "none"
    /\ rpc[c] = "idle" => cqCall # c
    /\ life[c] = "none" => rpc[c] = "idle"
    /\ life[c] = "freed" => rpc[c] \in Over \cup {"aborted"}
    /\ doneNotified[c] \/ finishCompleted[c] => rpc[c] \in Over
    /\ guiHolding[c] => gui[c] # "none"

\* A call that waits for its answer is held, alive, and out of reach of every
\* path of the cq thread that deletes.
WaitingInv ==
  \A c \in Calls : gui[c] \in WaitingPlaces =>
    /\ guiHolding[c]
    /\ life[c] = "live"
    /\ rpc[c] \in {"open", "cancelled"}
    /\ cqCall = c => cqAt \in DonePlaces \cup {"storeWaiting"}

\* A call past the decision is one the daemon is done with.
FinishedInv ==
  \A c \in Calls : gui[c] \in FinishedPlaces => rpc[c] \in Over

\* A posted event is handled once.
EventsInv ==
  /\ \A i \in 1..Len(events) : gui[events[i]] = "queued"
  /\ \A i, j \in 1..Len(events) : events[i] = events[j] => i = j

\* Only a call that the daemon gave up on is deleted, or about to be, while held.
HeldInv ==
  /\ cqAt = "delete" /\ guiHolding[cqCall] => rpc[cqCall] = "cancelled"
  /\ \A m \in completions : m.tag = "FINISH" /\ ~m.ok => rpc[m.call] = "cancelled"
  /\ \A c \in Calls :
       /\ life[c] = "freed" /\ guiHolding[c] => rpc[c] = "cancelled"
       /\ gui[c] \in {"readDone", "readCompleted", "delete"} => ~guiHolding[c]

IInv == /\ TypeOK /\ TagInv /\ CqInv /\ RpcInv
        /\ WaitingInv /\ FinishedInv /\ EventsInv /\ HeldInv
-----------------------------------------------------------------------------
(* The stack keeps its type when the innermost frame returns.               *)
LEMMA PopIsSeq ==
  ASSUME NEW S, NEW s \in Seq(S), s # <<>>
  PROVE  SubSeq(s, 1, Len(s) - 1) \in Seq(S)
OBVIOUS

LEMMA PopKeepsType ==
  ASSUME stack \in Seq(Calls), stack # <<>>,
         stack' = stack \/ stack' = SubSeq(stack, 1, Len(stack) - 1)
  PROVE  stack' \in Seq(Calls)
BY PopIsSeq

\* The tags that the code hands to gRPC are completions.
LEMMA TagIsCompletion ==
  ASSUME NEW c \in Calls, NEW t \in {"ACCEPT", "FINISH", "DONE"}, NEW ok \in BOOLEAN
  PROVE  Tag(c, t, ok) \in Completion
BY DEF Tag, Completion

\* Every action keeps the ranges of the variables: no thread can leave proceed(),
\* finishWithRule() or releaseFromGui() in a place the code does not have.
THEOREM TypeCorrect == Spec => []TypeOK
<1>1. Init => TypeOK
  BY DEF Init, TypeOK, CqPlaces, GuiPlaces, Completion
<1>2. TypeOK /\ [Next]_vars => TypeOK'
  <2> SUFFICES ASSUME TypeOK, [Next]_vars PROVE TypeOK'
    OBVIOUS
  <2> USE DEF TypeOK, CqPlaces, GuiPlaces, flags, cqVars, guiVars
  <2>1. ASSUME NEW c \in Calls, Ask(c) PROVE TypeOK'
    BY <2>1, TagIsCompletion DEF Ask
  <2>2. ASSUME NEW c \in Calls, Cancel(c) PROVE TypeOK'
    BY <2>2, TagIsCompletion DEF Cancel
  <2>3. ASSUME NEW m \in completions, CqNext(m) PROVE TypeOK'
    BY <2>3 DEF CqNext, CqGoto, Completion
  <2>4. ASSUME NEW c \in Calls, OnAccept(c) PROVE TypeOK'
    <3>1. PICK n \in Calls : OnAccept(c)!3!(n)
      BY <2>4 DEF OnAccept
    <3>2. completions' \in SUBSET Completion
      <4>1. Tag(n, "ACCEPT", FALSE) \in Completion /\ Tag(c, "DONE", TRUE) \in Completion
        BY TagIsCompletion
      <4> QED
        BY <3>1, <4>1
    <3>3. life' \in [Calls -> {"none", "live", "freed"}]
          /\ mState' \in [Calls -> {"CREATE", "PROCESS", "WAITING", "FINISH"}]
          /\ rpc' \in [Calls -> {"idle", "open", "replied", "cancelled", "aborted"}]
      BY <3>1
    <3>4. /\ guiHolding' \in [Calls -> BOOLEAN]
          /\ gui' \in [Calls -> GuiPlaces]
          /\ events' \in Seq(Calls)
      BY <2>4 DEF OnAccept
    <3>5. cqAt' = "storeWaiting" /\ cqCall' = c
      BY <2>4 DEF OnAccept, CqGoto
    <3>6. UNCHANGED <<finishCompleted, doneNotified, finishStarted, stack, untimed, srv, fault>>
      BY <2>4 DEF OnAccept
    <3> QED
      BY <3>2, <3>3, <3>4, <3>5, <3>6
  <2>5. ASSUME NEW c \in Calls, StoreWaiting(c) PROVE TypeOK'
    BY <2>5 DEF StoreWaiting, CqAt, CqReturn
  <2>6. ASSUME NEW c \in Calls, OnDone(c) PROVE TypeOK'
    BY <2>6 DEF OnDone, CqAt, CqGoto
  <2>7. ASSUME NEW c \in Calls, DoneUnheld(c) PROVE TypeOK'
    BY <2>7 DEF DoneUnheld, CqAt, CqGoto
  <2>8. ASSUME NEW c \in Calls, DoneCompleted(c) PROVE TypeOK'
    BY <2>8 DEF DoneCompleted, CqAt, CqGoto, CqReturn
  <2>9. ASSUME NEW c \in Calls, OnFinish(c) PROVE TypeOK'
    BY <2>9 DEF OnFinish, CqAt, CqGoto
  <2>10. ASSUME NEW c \in Calls, FinishCheck(c) PROVE TypeOK'
    BY <2>10 DEF FinishCheck, CqAt, CqGoto, CqReturn
  <2>11. ASSUME NEW c \in Calls, CqDelete(c) PROVE TypeOK'
    BY <2>11 DEF CqDelete, CqAt, CqReturn
  <2>12. ASSUME NEW c \in Calls, TakeEvent(c) PROVE TypeOK'
    BY <2>12 DEF TakeEvent, GuiGoto
  <2>13. ASSUME NEW c \in Calls, FinishSkipped(c) PROVE TypeOK'
    BY <2>13 DEF FinishSkipped, GuiAt, GuiGoto
  <2>14. ASSUME NEW c \in Calls, FinishChosen(c) PROVE TypeOK'
    BY <2>14 DEF FinishChosen, GuiAt, GuiGoto
  <2>15. ASSUME NEW c \in Calls, StartFinish(c) PROVE TypeOK'
    <3>0. \/ /\ rpc' = [rpc EXCEPT ![c] = "replied"]
             /\ completions' = completions \cup {Tag(c, "FINISH", TRUE), Tag(c, "DONE", TRUE)}
          \/ /\ rpc' = rpc
             /\ \E ok \in BOOLEAN : completions' = completions \cup {Tag(c, "FINISH", ok)}
      BY <2>15, Zenon DEF StartFinish
    <3>1. completions' \in SUBSET Completion
      <4>1. /\ \A ok \in BOOLEAN : Tag(c, "FINISH", ok) \in Completion
            /\ Tag(c, "DONE", TRUE) \in Completion
        BY TagIsCompletion
      <4>2. CASE completions' = completions \cup {Tag(c, "FINISH", TRUE), Tag(c, "DONE", TRUE)}
        BY <4>1, <4>2
      <4>3. CASE \E ok \in BOOLEAN : completions' = completions \cup {Tag(c, "FINISH", ok)}
        BY <4>1, <4>3
      <4> QED
        BY <3>0, <4>2, <4>3, Zenon
    <3>2. rpc' \in [Calls -> {"idle", "open", "replied", "cancelled", "aborted"}]
      BY <3>0
    <3>3. finishStarted' \in [Calls -> BOOLEAN] /\ gui' \in [Calls -> GuiPlaces]
      BY <2>15 DEF StartFinish, GuiGoto
    <3>4. UNCHANGED <<life, mState, finishCompleted, doneNotified, guiHolding,
                      cqAt, cqCall, events, stack, untimed, srv, fault>>
      BY <2>15 DEF StartFinish
    <3> QED
      BY <3>1, <3>2, <3>3, <3>4
  <2>16. ASSUME NEW c \in Calls, StoreFinish(c) PROVE TypeOK'
    BY <2>16 DEF StoreFinish, GuiAt, GuiGoto
  <2>17. ASSUME NEW c \in Calls, Release(c) PROVE TypeOK'
    BY <2>17 DEF Release, GuiAt, GuiGoto
  <2>18. ASSUME NEW c \in Calls, ReadDone(c) PROVE TypeOK'
    <3>1. stack' \in Seq(Calls)
      <4>1. stack \in Seq(Calls) /\ stack # <<>>
        BY <2>18 DEF ReadDone, GuiAt, Top
      <4>2. stack' = stack \/ stack' = SubSeq(stack, 1, Len(stack) - 1)
        BY <2>18, Zenon DEF ReadDone, PopFrame
      <4> QED
        BY <4>1, <4>2, PopKeepsType, Zenon
    <3>2. gui' \in [Calls -> GuiPlaces]
      <4>1. PICK place \in GuiPlaces : gui' = [gui EXCEPT ![c] = place]
        BY <2>18 DEF ReadDone, GuiGoto, PopFrame
      <4> QED
        BY <4>1
    <3>3. UNCHANGED <<life, mState, flags, rpc, cqVars, events, untimed, srv, fault>>
      BY <2>18 DEF ReadDone
    <3> QED
      BY <3>1, <3>2, <3>3
  <2>19. ASSUME NEW c \in Calls, ReadCompleted(c) PROVE TypeOK'
    <3>1. stack' \in Seq(Calls)
      <4>1. stack \in Seq(Calls) /\ stack # <<>>
        BY <2>19 DEF ReadCompleted, GuiAt, Top
      <4>2. stack' = stack \/ stack' = SubSeq(stack, 1, Len(stack) - 1)
        BY <2>19, Zenon DEF ReadCompleted, PopFrame
      <4> QED
        BY <4>1, <4>2, PopKeepsType, Zenon
    <3>2. gui' \in [Calls -> GuiPlaces]
      <4>1. PICK place \in GuiPlaces : gui' = [gui EXCEPT ![c] = place]
        BY <2>19 DEF ReadCompleted, GuiGoto, PopFrame
      <4> QED
        BY <4>1
    <3>3. UNCHANGED <<life, mState, flags, rpc, cqVars, events, untimed, srv, fault>>
      BY <2>19 DEF ReadCompleted
    <3> QED
      BY <3>1, <3>2, <3>3
  <2>20. ASSUME NEW c \in Calls, GuiDelete(c) PROVE TypeOK'
    BY <2>20, PopIsSeq DEF GuiDelete, GuiAt, GuiGoto, PopFrame, Top
  <2>21. CASE Stop
    <3>1. completions' \in SUBSET Completion
      <4>1. \A c \in Calls : Tag(c, "ACCEPT", FALSE) \in Completion
        BY TagIsCompletion
      <4>2. PICK idle \in SUBSET Calls :
              completions' = completions \cup {Tag(c, "ACCEPT", FALSE) : c \in idle}
        BY <2>21 DEF Stop
      <4>3. {Tag(c, "ACCEPT", FALSE) : c \in idle} \subseteq Completion
        <5> SUFFICES ASSUME NEW m \in {Tag(c, "ACCEPT", FALSE) : c \in idle}
                     PROVE  m \in Completion
          BY Zenon
        <5>1. PICK c \in Calls : m = Tag(c, "ACCEPT", FALSE)
          BY Zenon
        <5> QED
          BY <4>1, <5>1, Zenon
      <4> QED
        BY <4>2, <4>3
    <3>2. rpc' \in [Calls -> {"idle", "open", "replied", "cancelled", "aborted"}]
      BY <2>21 DEF Stop
    <3>3. /\ srv' = "draining"
          /\ UNCHANGED <<life, mState, flags, cqAt, cqCall, guiVars, fault>>
      BY <2>21 DEF Stop
    <3> QED
      BY <3>1, <3>2, <3>3
  <2>22. CASE ShutdownReturns
    BY <2>22 DEF ShutdownReturns
  <2>23. CASE JoinCq
    BY <2>23 DEF JoinCq
  <2>24. CASE CqFaults
    BY <2>24 DEF CqFaults
  <2>25. CASE GuiFaults
    BY <2>25 DEF GuiFaults
  <2>26. CASE UNCHANGED vars
    BY <2>26 DEF vars
  <2> QED
    BY <2>1, <2>2, <2>3, <2>4, <2>5, <2>6, <2>7, <2>8, <2>9, <2>10, <2>11, <2>12,
       <2>13, <2>14, <2>15, <2>16, <2>17, <2>18, <2>19, <2>20, <2>21, <2>22, <2>23,
       <2>24, <2>25, <2>26
    DEF Next, Daemon, Cq, Gui, GuiGoesOn, Answer
<1> QED
  BY <1>1, <1>2, PTL DEF Spec
-----------------------------------------------------------------------------
(* One step per action, and under it one per conjunct the action can disturb. *)
LEMMA Step ==
  ASSUME IInv, TypeOK', [Next]_vars
  PROVE  IInv'
<1> USE CallsAssumption DEF IInv, TypeOK, flags, cqVars, guiVars, Completion,
        CqPlaces, GuiPlaces, WaitingPlaces, FinishedPlaces, DonePlaces, Over
<1>1. ASSUME NEW c \in Calls, Ask(c) PROVE IInv'
  <2>1. TagInv'
    BY <1>1 DEF TagInv, RpcInv, Ask, Tag
  <2>2. CqInv' /\ RpcInv' /\ WaitingInv' /\ FinishedInv' /\ EventsInv' /\ HeldInv'
    BY <1>1 DEF CqInv, RpcInv, WaitingInv, FinishedInv, EventsInv, HeldInv, Ask, Tag
  <2> QED
    BY <2>1, <2>2
<1>2. ASSUME NEW c \in Calls, Cancel(c) PROVE IInv'
  <2>1. TagInv'
    BY <1>2 DEF TagInv, RpcInv, Cancel, Tag
  <2>2. CqInv' /\ RpcInv' /\ WaitingInv' /\ FinishedInv' /\ EventsInv' /\ HeldInv'
    BY <1>2 DEF CqInv, RpcInv, WaitingInv, FinishedInv, EventsInv, HeldInv, Cancel, Tag
  <2> QED
    BY <2>1, <2>2
<1>3. ASSUME NEW m \in completions, CqNext(m) PROVE IInv'
  <2>1. CqInv'
    BY <1>3 DEF TagInv, CqInv, RpcInv, CqNext, CqGoto, FailedTagDeletes
  <2>2. RpcInv'
    BY <1>3 DEF TagInv, RpcInv, CqNext, CqGoto, FailedTagDeletes
  <2>3. WaitingInv'
    <3>1. ASSUME NEW c \in Calls, gui[c] \in WaitingPlaces, m.call = c
          PROVE  m.tag = "DONE"
      BY <1>3, <3>1 DEF TagInv, WaitingInv, CqNext
    <3>2. m.tag = "DONE" => cqAt' \in DonePlaces
      BY <1>3 DEF CqNext, CqGoto
    <3>3. cqCall' = m.call /\ gui' = gui /\ guiHolding' = guiHolding /\ life' = life /\ rpc' = rpc
      BY <1>3 DEF CqNext, CqGoto
    <3> QED
      BY <3>1, <3>2, <3>3 DEF WaitingInv
  <2>4. HeldInv'
    BY <1>3 DEF TagInv, RpcInv, HeldInv, CqNext, CqGoto, FailedTagDeletes
  <2>5. TagInv'
    BY <1>3 DEF TagInv, CqNext, CqGoto, FailedTagDeletes
  <2>6. FinishedInv'
    BY <1>3 DEF FinishedInv, CqNext, CqGoto, FailedTagDeletes
  <2>7. EventsInv'
    BY <1>3 DEF EventsInv, CqNext, CqGoto, FailedTagDeletes
  <2> QED
    BY <2>1, <2>2, <2>3, <2>4, <2>5, <2>6, <2>7
<1>4. ASSUME NEW c \in Calls, OnAccept(c) PROVE IInv'
  <2>1. TagInv'
    BY <1>4 DEF TagInv, CqInv, RpcInv, OnAccept, CqAt, CqGoto, Tag
  <2>2. RpcInv'
    BY <1>4 DEF CqInv, RpcInv, OnAccept, CqAt, CqGoto, Tag
  <2>3. WaitingInv'
    BY <1>4 DEF CqInv, RpcInv, WaitingInv, OnAccept, CqAt, CqGoto, Tag
  <2>4. FinishedInv'
    BY <1>4 DEF TagInv, RpcInv, FinishedInv, OnAccept, CqAt, CqGoto, Tag
  <2>5. EventsInv'
    BY <1>4 DEF CqInv, RpcInv, EventsInv, OnAccept, CqAt, CqGoto, Tag
  <2>6. HeldInv'
    BY <1>4 DEF TagInv, RpcInv, HeldInv, OnAccept, CqAt, CqGoto, Tag
  <2>7. CqInv'
    BY <1>4 DEF CqInv, OnAccept, CqAt, CqGoto, Tag
  <2> QED
    BY <2>1, <2>2, <2>3, <2>4, <2>5, <2>6, <2>7
<1>5. ASSUME NEW c \in Calls, StoreWaiting(c) PROVE IInv'
  BY <1>5 DEF TagInv, CqInv, RpcInv, WaitingInv, FinishedInv, EventsInv, HeldInv, StoreWaiting,
         CqAt, CqReturn
<1>6. ASSUME NEW c \in Calls, OnDone(c) PROVE IInv'
  <2>1. RpcInv'
    BY <1>6 DEF CqInv, RpcInv, OnDone, CqAt, CqGoto
  <2>2. TagInv' /\ CqInv' /\ WaitingInv' /\ FinishedInv' /\ EventsInv' /\ HeldInv'
    BY <1>6 DEF TagInv, CqInv, WaitingInv, FinishedInv, EventsInv, HeldInv, OnDone, CqAt, CqGoto
  <2> QED
    BY <2>1, <2>2
<1>7. ASSUME NEW c \in Calls, DoneUnheld(c) PROVE IInv'
  BY <1>7 DEF TagInv, CqInv, RpcInv, WaitingInv, FinishedInv, EventsInv, HeldInv, DoneUnheld,
         CqAt, CqGoto, NeverHandedOver
<1>8. ASSUME NEW c \in Calls, DoneCompleted(c) PROVE IInv'
  BY <1>8 DEF TagInv, CqInv, RpcInv, WaitingInv, FinishedInv, EventsInv, HeldInv, DoneCompleted,
         CqAt, CqGoto, CqReturn, FinishedAndReleased
<1>9. ASSUME NEW c \in Calls, OnFinish(c) PROVE IInv'
  <2>1. RpcInv'
    BY <1>9 DEF CqInv, RpcInv, OnFinish, CqAt, CqGoto
  <2>2. TagInv' /\ CqInv' /\ WaitingInv' /\ FinishedInv' /\ EventsInv' /\ HeldInv'
    BY <1>9 DEF TagInv, CqInv, WaitingInv, FinishedInv, EventsInv, HeldInv, OnFinish, CqAt,
           CqGoto
  <2> QED
    BY <2>1, <2>2
<1>10. ASSUME NEW c \in Calls, FinishCheck(c) PROVE IInv'
  BY <1>10 DEF TagInv, CqInv, RpcInv, WaitingInv, FinishedInv, EventsInv, HeldInv,
         FinishCheck, CqAt, CqGoto, CqReturn, DoneAndReleased
<1>11. ASSUME NEW c \in Calls, CqDelete(c) PROVE IInv'
  <2>1. RpcInv'
    BY <1>11 DEF CqInv, RpcInv, CqDelete, CqAt, CqReturn
  <2>2. TagInv' /\ CqInv' /\ WaitingInv' /\ FinishedInv' /\ EventsInv' /\ HeldInv'
    BY <1>11 DEF TagInv, CqInv, WaitingInv, FinishedInv, EventsInv, HeldInv, CqDelete, CqAt,
           CqReturn
  <2> QED
    BY <2>1, <2>2
<1>12. ASSUME NEW c \in Calls, TakeEvent(c) PROVE IInv'
  <2>1. TagInv'
    BY <1>12 DEF TagInv, EventsInv, TakeEvent, GuiGoto
  <2>2. CqInv'
    BY <1>12 DEF CqInv, EventsInv, TakeEvent, GuiGoto
  <2>3. RpcInv'
    BY <1>12 DEF RpcInv, EventsInv, TakeEvent, GuiGoto
  <2>4. WaitingInv'
    BY <1>12 DEF WaitingInv, EventsInv, TakeEvent, GuiGoto
  <2>5. FinishedInv' /\ EventsInv' /\ HeldInv'
    BY <1>12 DEF FinishedInv, EventsInv, HeldInv, TakeEvent, GuiGoto
  <2> QED
    BY <2>1, <2>2, <2>3, <2>4, <2>5
<1>13. ASSUME NEW c \in Calls, FinishSkipped(c) PROVE IInv'
  <2>1. FinishedInv'
    BY <1>13 DEF TagInv, RpcInv, FinishedInv, FinishSkipped, GuiAt, GuiGoto, StreamIsDead
  <2>2. TagInv' /\ CqInv' /\ RpcInv' /\ WaitingInv' /\ EventsInv' /\ HeldInv'
    BY <1>13 DEF TagInv, CqInv, RpcInv, WaitingInv, EventsInv, HeldInv, FinishSkipped, GuiAt,
           GuiGoto, StreamIsDead
  <2> QED
    BY <2>1, <2>2
<1>14. ASSUME NEW c \in Calls, FinishChosen(c) PROVE IInv'
  BY <1>14 DEF TagInv, CqInv, RpcInv, WaitingInv, FinishedInv, EventsInv, HeldInv, FinishChosen,
         GuiAt, GuiGoto
<1>15. ASSUME NEW c \in Calls, StartFinish(c) PROVE IInv'
  <2>1. TagInv'
    BY <1>15 DEF TagInv, RpcInv, StartFinish, GuiAt, GuiGoto, Tag
  <2>2. FinishedInv'
    BY <1>15 DEF TagInv, RpcInv, FinishedInv, StartFinish, GuiAt, GuiGoto, Tag
  <2>3. HeldInv'
    BY <1>15 DEF WaitingInv, HeldInv, StartFinish, GuiAt, GuiGoto, Tag
  <2>4. CqInv'
    BY <1>15 DEF CqInv, StartFinish, GuiAt, GuiGoto, Tag
  <2>5. RpcInv'
    BY <1>15 DEF RpcInv, StartFinish, GuiAt, GuiGoto, Tag
  <2>6. WaitingInv'
    BY <1>15 DEF WaitingInv, StartFinish, GuiAt, GuiGoto, Tag
  <2>7. EventsInv'
    BY <1>15 DEF EventsInv, StartFinish, GuiAt, GuiGoto, Tag
  <2> QED
    BY <2>1, <2>2, <2>3, <2>4, <2>5, <2>6, <2>7
<1>16. ASSUME NEW c \in Calls, StoreFinish(c) PROVE IInv'
  BY <1>16 DEF TagInv, CqInv, RpcInv, WaitingInv, FinishedInv, EventsInv, HeldInv, StoreFinish,
         GuiAt, GuiGoto
<1>17. ASSUME NEW c \in Calls, Release(c) PROVE IInv'
  BY <1>17 DEF TagInv, CqInv, RpcInv, WaitingInv, FinishedInv, EventsInv, HeldInv, Release,
         GuiAt, GuiGoto
<1>18. ASSUME NEW c \in Calls, ReadDone(c) PROVE IInv'
  BY <1>18 DEF TagInv, CqInv, RpcInv, WaitingInv, FinishedInv, EventsInv, HeldInv, ReadDone,
         GuiAt, GuiGoto, PopFrame
<1>19. ASSUME NEW c \in Calls, ReadCompleted(c) PROVE IInv'
  <2>1. TagInv' /\ CqInv' /\ RpcInv' /\ WaitingInv'
    BY <1>19 DEF TagInv, CqInv, RpcInv, WaitingInv, ReadCompleted, GuiAt, GuiGoto, PopFrame
  <2>2. FinishedInv' /\ EventsInv' /\ HeldInv'
    BY <1>19 DEF FinishedInv, EventsInv, HeldInv, ReadCompleted, GuiAt, GuiGoto, PopFrame
  <2> QED
    BY <2>1, <2>2
<1>20. ASSUME NEW c \in Calls, GuiDelete(c) PROVE IInv'
  <2>1. RpcInv'
    BY <1>20 DEF RpcInv, FinishedInv, GuiDelete, GuiAt, GuiGoto, PopFrame
  <2>2. TagInv' /\ CqInv' /\ WaitingInv' /\ FinishedInv' /\ EventsInv' /\ HeldInv'
    BY <1>20 DEF TagInv, CqInv, WaitingInv, FinishedInv, EventsInv, HeldInv, GuiDelete, GuiAt,
           GuiGoto, PopFrame
  <2> QED
    BY <2>1, <2>2
<1>21. CASE Stop
  BY <1>21 DEF TagInv, CqInv, RpcInv, WaitingInv, FinishedInv, EventsInv, HeldInv, Stop, Tag,
         Refused
<1>22. CASE ShutdownReturns
  BY <1>22 DEF TagInv, CqInv, RpcInv, WaitingInv, FinishedInv, EventsInv, HeldInv,
         ShutdownReturns
<1>23. CASE JoinCq
  BY <1>23 DEF TagInv, CqInv, RpcInv, WaitingInv, FinishedInv, EventsInv, HeldInv, JoinCq
<1>24. CASE CqFaults
  BY <1>24 DEF TagInv, CqInv, RpcInv, WaitingInv, FinishedInv, EventsInv, HeldInv, CqFaults
<1>25. CASE GuiFaults
  BY <1>25 DEF TagInv, CqInv, RpcInv, WaitingInv, FinishedInv, EventsInv, HeldInv, GuiFaults
<1>26. CASE UNCHANGED vars
  BY <1>26 DEF TagInv, CqInv, RpcInv, WaitingInv, FinishedInv, EventsInv, HeldInv, vars
<1> QED
  BY <1>1, <1>2, <1>3, <1>4, <1>5, <1>6, <1>7, <1>8, <1>9, <1>10, <1>11, <1>12, <1>13, <1>14,
     <1>15, <1>16, <1>17, <1>18, <1>19, <1>20, <1>21, <1>22, <1>23, <1>24, <1>25, <1>26
  DEF Next, Daemon, Cq, Gui, GuiGoesOn, Answer
-----------------------------------------------------------------------------
(* What the invariant gives.                                                *)

LEMMA Start == Init => IInv
<1> SUFFICES ASSUME Init PROVE IInv
  OBVIOUS
<1>1. TypeOK
  BY DEF Init, TypeOK, CqPlaces, GuiPlaces, Completion
<1>2. TagInv /\ EventsInv
  BY DEF Init, TagInv, EventsInv
<1>3. CqInv /\ RpcInv /\ WaitingInv /\ FinishedInv /\ HeldInv
  BY CallsAssumption
  DEF Init, CqInv, RpcInv, WaitingInv, FinishedInv, HeldInv, DonePlaces, Over,
      WaitingPlaces, FinishedPlaces
<1> QED
  BY <1>1, <1>2, <1>3 DEF IInv

\* The strengthening of the safety properties below holds in every reachable state.
THEOREM Invariance == Spec => []IInv
<1>1. IInv /\ TypeOK' /\ [Next]_vars => IInv'
  BY Step
<1> QED
  BY <1>1, Start, TypeCorrect, PTL DEF Spec

\* For any number of calls, cancelled or not, and while the program quits: a question
\* that waits in the GUI's event queue or in a prompt has its object.
THEOREM QueuedLive == Spec => []QueuedIsLive
<1>1. IInv => QueuedIsLive
  BY DEF IInv, WaitingInv, WaitingPlaces, QueuedIsLive
<1> QED
  BY <1>1, Invariance, PTL

\* For any number of calls: unless the daemon gave up on it, an object is there for
\* as long as m_guiHolding says that the GUI holds it, whichever thread would delete.
THEOREM HeldLive == Spec => []HeldIsLive
<1>1. IInv => HeldIsLive
  BY DEF IInv, TypeOK, RpcInv, HeldInv, HeldIsLive
<1> QED
  BY <1>1, Invariance, PTL

\* For any number of calls, the two together: the GUI thread finds the object of
\* every question it waits with or answers, unless the daemon gave it up meanwhile.
THEOREM GuiObjectsLive == Spec => []GuiObjectsAreLive
<1>1. GuiObjectsAreLive <=> QueuedIsLive /\ HeldIsLive
  BY DEF GuiObjectsAreLive
<1> QED
  BY <1>1, QueuedLive, HeldLive, PTL
-----------------------------------------------------------------------------
(* Which tag is the last one of its object.                                 *)

\* Of an answered question each of FINISH and DONE is delivered once: as long as
\* one waits in the queue, the flag that its handling sets is still clear.
TagOnceInv ==
  \A m \in completions :
    /\ m.tag = "DONE" => m.ok
    /\ m.tag = "ACCEPT" => cqCall # m.call
    /\ rpc[m.call] = "replied" =>
         /\ m.tag = "DONE" =>
              ~doneNotified[m.call] /\ ~(cqAt = "done" /\ cqCall = m.call)
         /\ m.tag = "FINISH" =>
              ~finishCompleted[m.call] /\ ~(cqAt = "finish" /\ cqCall = m.call)

\* A thread that is about to delete an answered question has seen both flags set.
DeleteInv ==
  /\ cqAt \in {"doneUnheld", "doneCompleted"} => doneNotified[cqCall]
  /\ cqAt = "finishCheck" => finishCompleted[cqCall]
  /\ cqAt = "delete" /\ rpc[cqCall] = "replied" =>
       doneNotified[cqCall] /\ finishCompleted[cqCall]
  /\ \A c \in Calls :
       /\ rpc[c] = "replied" => finishStarted[c]
       /\ gui[c] \in {"readCompleted", "delete"} => doneNotified[c]
       /\ gui[c] = "delete" => finishCompleted[c]

LastTagInv == TagOnceInv /\ DeleteInv /\ NoDanglingTag

LEMMA LastTagStart == Init => LastTagInv
BY CallsAssumption
DEF Init, LastTagInv, TagOnceInv, DeleteInv, NoDanglingTag

\* What the deletes need: an object whose two tags are handled has no third.
LEMMA NoTagLeft ==
  ASSUME NEW c \in Calls, IInv, LastTagInv,
         rpc[c] \in Over \cup {"aborted"},
         rpc[c] = "aborted" => cqCall = c,
         rpc[c] = "replied" => doneNotified[c] /\ finishCompleted[c]
  PROVE  rpc[c] = "cancelled" \/ \A m \in completions : m.call # c
<1> SUFFICES ASSUME NEW m \in completions, m.call = c, rpc[c] # "cancelled" PROVE FALSE
  OBVIOUS
<1>1. m.tag \in {"ACCEPT", "FINISH", "DONE"} /\ m.ok \in BOOLEAN
  BY DEF IInv, TypeOK, Completion
<1>2. CASE rpc[c] = "aborted"
  BY <1>1, <1>2 DEF IInv, TagInv, LastTagInv, TagOnceInv, Over
<1>3. CASE rpc[c] = "replied"
  BY <1>1, <1>3 DEF IInv, TagInv, LastTagInv, TagOnceInv, Over
<1> QED
  BY <1>2, <1>3 DEF Over

LEMMA LastTagStep ==
  ASSUME IInv, LastTagInv, [Next]_vars
  PROVE  LastTagInv'
<1> USE CallsAssumption
    DEF IInv, TypeOK, LastTagInv, flags, cqVars, guiVars, Completion, CqPlaces,
        GuiPlaces, WaitingPlaces, FinishedPlaces, DonePlaces, Over
<1>1. ASSUME NEW c \in Calls, Ask(c) PROVE LastTagInv'
  <2>1. TagOnceInv'
    BY <1>1 DEF TagOnceInv, RpcInv, Ask, Tag
  <2>2. DeleteInv' /\ NoDanglingTag'
    BY <1>1 DEF DeleteInv, NoDanglingTag, Ask, Tag
  <2> QED
    BY <2>1, <2>2
<1>2. ASSUME NEW c \in Calls, Cancel(c) PROVE LastTagInv'
  BY <1>2 DEF TagOnceInv, DeleteInv, NoDanglingTag, Cancel, Tag
<1>3. ASSUME NEW m \in completions, CqNext(m) PROVE LastTagInv'
  <2>1. TagOnceInv'
    <3>1. /\ completions' = completions \ {m} /\ cqCall' = m.call
          /\ UNCHANGED <<doneNotified, finishCompleted, rpc>>
          /\ cqAt' = "done" => m.tag = "DONE"
          /\ cqAt' = "finish" => m.tag = "FINISH"
      BY <1>3 DEF CqNext, CqGoto
    <3>2. ASSUME NEW o \in completions', o.tag = m.tag, o.call = m.call
          PROVE  o.ok # m.ok
      BY <3>1, <3>2
    <3>3. ASSUME NEW o \in completions', o.tag = m.tag, o.call = m.call,
                 rpc[m.call] = "replied"
          PROVE  FALSE
      <4>1. \A k \in completions :
              k.call = m.call => k.tag \in {"FINISH", "DONE"} /\ k.ok = TRUE
        BY <3>3 DEF TagInv, TagOnceInv, HeldInv
      <4>2. o \in completions
        BY <3>1
      <4> QED
        BY <3>2, <3>3, <4>1, <4>2
    <3>4. ASSUME NEW o \in completions', o.tag = "ACCEPT", o.call = m.call
          PROVE  FALSE
      <4>1. o \in completions
        BY <3>1
      <4>2. m.tag = "ACCEPT"
        BY <3>4, <4>1 DEF TagInv
      <4>3. CASE rpc[m.call] = "aborted"
        <5>1. m.ok = FALSE /\ o.ok = FALSE
          BY <3>4, <4>1, <4>2, <4>3 DEF TagInv
        <5> QED
          BY <3>2, <3>4, <4>2, <5>1
      <4>4. CASE rpc[m.call] # "aborted"
        <5>1. m.ok = TRUE /\ o.ok = TRUE
          BY <3>4, <4>1, <4>2, <4>4 DEF TagInv
        <5> QED
          BY <3>2, <3>4, <4>2, <5>1
      <4> QED
        BY <4>3, <4>4
    <3> QED
      BY <3>1, <3>3, <3>4 DEF TagOnceInv
  <2>2. DeleteInv'
    BY <1>3 DEF TagInv, TagOnceInv, DeleteInv, HeldInv, CqNext, CqGoto, FailedTagDeletes
  <2>3. NoDanglingTag'
    BY <1>3 DEF NoDanglingTag, CqNext
  <2> QED
    BY <2>1, <2>2, <2>3
<1>4. ASSUME NEW c \in Calls, OnAccept(c) PROVE LastTagInv'
  <2>1. TagOnceInv'
    BY <1>4 DEF TagOnceInv, CqInv, RpcInv, OnAccept, CqAt, CqGoto, Tag
  <2>2. DeleteInv'
    BY <1>4 DEF DeleteInv, RpcInv, OnAccept, CqAt, CqGoto
  <2>3. NoDanglingTag'
    BY <1>4 DEF NoDanglingTag, OnAccept, CqAt, Tag
  <2> QED
    BY <2>1, <2>2, <2>3
<1>5. ASSUME NEW c \in Calls, StoreWaiting(c) PROVE LastTagInv'
  BY <1>5 DEF TagOnceInv, DeleteInv, NoDanglingTag, StoreWaiting, CqAt, CqReturn
<1>6. ASSUME NEW c \in Calls, OnDone(c) PROVE LastTagInv'
  BY <1>6 DEF TagOnceInv, DeleteInv, NoDanglingTag, OnDone, CqAt, CqGoto
<1>7. ASSUME NEW c \in Calls, DoneUnheld(c) PROVE LastTagInv'
  BY <1>7 DEF TagOnceInv, DeleteInv, NoDanglingTag, DoneUnheld, CqAt, CqGoto,
              NeverHandedOver
<1>8. ASSUME NEW c \in Calls, DoneCompleted(c) PROVE LastTagInv'
  BY <1>8 DEF TagOnceInv, DeleteInv, NoDanglingTag, DoneCompleted, CqAt, CqGoto,
              CqReturn, FinishedAndReleased
<1>9. ASSUME NEW c \in Calls, OnFinish(c) PROVE LastTagInv'
  BY <1>9 DEF TagOnceInv, DeleteInv, NoDanglingTag, OnFinish, CqAt, CqGoto
<1>10. ASSUME NEW c \in Calls, FinishCheck(c) PROVE LastTagInv'
  BY <1>10 DEF TagOnceInv, DeleteInv, NoDanglingTag, FinishCheck, CqAt, CqGoto,
               CqReturn, DoneAndReleased
<1>11. ASSUME NEW c \in Calls, CqDelete(c) PROVE LastTagInv'
  <2>1. rpc[c] = "cancelled" \/ \A m \in completions : m.call # c
    <3>1. cqAt = "delete" /\ cqCall = c
      BY <1>11 DEF CqDelete, CqAt
    <3> QED
      BY <3>1, NoTagLeft DEF CqInv, DeleteInv
  <2>2. NoDanglingTag'
    BY <1>11, <2>1 DEF NoDanglingTag, CqDelete
  <2>3. TagOnceInv' /\ DeleteInv'
    BY <1>11 DEF TagOnceInv, DeleteInv, CqDelete, CqAt, CqReturn
  <2> QED
    BY <2>2, <2>3
<1>12. ASSUME NEW c \in Calls, TakeEvent(c) PROVE LastTagInv'
  BY <1>12 DEF TagOnceInv, DeleteInv, NoDanglingTag, TakeEvent, GuiGoto
<1>13. ASSUME NEW c \in Calls, FinishSkipped(c) PROVE LastTagInv'
  <2>1. rpc[c] # "replied"
    BY <1>13 DEF WaitingInv, FinishSkipped, GuiAt
  <2> QED
    BY <1>13, <2>1 DEF TagOnceInv, DeleteInv, NoDanglingTag, FinishSkipped, GuiAt,
                       GuiGoto
<1>14. ASSUME NEW c \in Calls, FinishChosen(c) PROVE LastTagInv'
  BY <1>14 DEF TagOnceInv, DeleteInv, NoDanglingTag, FinishChosen, GuiAt, GuiGoto
<1>15. ASSUME NEW c \in Calls, StartFinish(c) PROVE LastTagInv'
  <2>0. rpc[c] \in {"open", "cancelled"} /\ life[c] = "live"
    BY <1>15 DEF WaitingInv, StartFinish, GuiAt
  <2>1. TagOnceInv'
    <3>1. CASE rpc[c] = "open"
      BY <1>15, <3>1 DEF TagOnceInv, CqInv, RpcInv, StartFinish, GuiAt, Tag
    <3>2. CASE rpc[c] # "open"
      BY <1>15, <2>0, <3>2 DEF TagOnceInv, StartFinish, GuiAt, Tag
    <3> QED
      BY <3>1, <3>2
  <2>2. DeleteInv'
    <3>1. /\ finishStarted' = [finishStarted EXCEPT ![c] = TRUE]
          /\ gui' = [gui EXCEPT ![c] = "storeFinish"]
          /\ rpc' = rpc \/ rpc' = [rpc EXCEPT ![c] = "replied"]
          /\ UNCHANGED <<doneNotified, finishCompleted, cqAt, cqCall>>
      BY <1>15 DEF StartFinish, GuiGoto
    <3>2. cqCall = c => cqAt # "delete"
      BY <1>15 DEF WaitingInv, StartFinish, GuiAt
    <3> QED
      BY <3>1, <3>2 DEF DeleteInv
  <2>3. NoDanglingTag'
    <3>1. /\ rpc' = rpc \/ rpc' = [rpc EXCEPT ![c] = "replied"]
          /\ life' = life
      BY <1>15 DEF StartFinish
    <3>2. \A m \in completions' : m \in completions \/ m.call = c
      <4>1. /\ \A ok \in BOOLEAN : Tag(c, "FINISH", ok).call = c
            /\ Tag(c, "DONE", TRUE).call = c
        BY DEF Tag
      <4>2. \/ completions' = completions
                  \cup {Tag(c, "FINISH", TRUE), Tag(c, "DONE", TRUE)}
            \/ \E ok \in BOOLEAN : completions' = completions \cup {Tag(c, "FINISH", ok)}
        BY <1>15, Zenon DEF StartFinish
      <4>3. CASE completions' = completions
                   \cup {Tag(c, "FINISH", TRUE), Tag(c, "DONE", TRUE)}
        BY <4>1, <4>3
      <4>4. CASE \E ok \in BOOLEAN : completions' = completions \cup {Tag(c, "FINISH", ok)}
        BY <4>1, <4>4
      <4> QED
        BY <4>2, <4>3, <4>4, Zenon
    <3> QED
      BY <2>0, <3>1, <3>2 DEF NoDanglingTag
  <2> QED
    BY <2>1, <2>2, <2>3
<1>16. ASSUME NEW c \in Calls, StoreFinish(c) PROVE LastTagInv'
  BY <1>16 DEF TagOnceInv, DeleteInv, NoDanglingTag, StoreFinish, GuiAt, GuiGoto
<1>17. ASSUME NEW c \in Calls, Release(c) PROVE LastTagInv'
  BY <1>17 DEF TagOnceInv, DeleteInv, NoDanglingTag, Release, GuiAt, GuiGoto
<1>18. ASSUME NEW c \in Calls, ReadDone(c) PROVE LastTagInv'
  BY <1>18 DEF TagOnceInv, DeleteInv, NoDanglingTag, ReadDone, GuiAt, GuiGoto, PopFrame
<1>19. ASSUME NEW c \in Calls, ReadCompleted(c) PROVE LastTagInv'
  BY <1>19 DEF TagOnceInv, DeleteInv, NoDanglingTag, ReadCompleted, GuiAt, GuiGoto, PopFrame
<1>20. ASSUME NEW c \in Calls, GuiDelete(c) PROVE LastTagInv'
  <2>1. rpc[c] = "cancelled" \/ \A m \in completions : m.call # c
    <3>1. gui[c] = "delete"
      BY <1>20 DEF GuiDelete, GuiAt
    <3>2. rpc[c] \in Over /\ doneNotified[c] /\ finishCompleted[c]
      BY <3>1 DEF FinishedInv, DeleteInv
    <3> QED
      BY <3>2, NoTagLeft
  <2>2. NoDanglingTag'
    BY <1>20, <2>1 DEF NoDanglingTag, GuiDelete
  <2>3. TagOnceInv' /\ DeleteInv'
    BY <1>20 DEF TagOnceInv, DeleteInv, GuiDelete, GuiAt, GuiGoto, PopFrame
  <2> QED
    BY <2>2, <2>3
<1>21. CASE Stop
  <2>1. DeleteInv'
    BY <1>21 DEF DeleteInv, Stop, Refused
  <2>2. TagOnceInv' /\ NoDanglingTag'
    BY <1>21 DEF TagOnceInv, NoDanglingTag, RpcInv, Stop, Tag, Refused
  <2> QED
    BY <2>1, <2>2
<1>22. CASE ShutdownReturns \/ JoinCq \/ CqFaults \/ GuiFaults \/ UNCHANGED vars
  BY <1>22 DEF TagOnceInv, DeleteInv, NoDanglingTag, ShutdownReturns, JoinCq, CqFaults,
               GuiFaults, vars
<1> QED
  BY <1>1, <1>2, <1>3, <1>4, <1>5, <1>6, <1>7, <1>8, <1>9, <1>10, <1>11, <1>12, <1>13, <1>14,
     <1>15, <1>16, <1>17, <1>18, <1>19, <1>20, <1>21, <1>22
  DEF Next, Daemon, Cq, Gui, GuiGoesOn, Answer

\* For any number of calls, while the program runs and while it quits: whichever
\* thread deletes an object that the daemon did not give up on, it was the last to
\* see FINISH, DONE or the release, and no tag of it is left in the queue.
THEOREM TagsLive == Spec => []NoDanglingTag
<1>1. LastTagInv => NoDanglingTag
  BY DEF LastTagInv
<1> QED
  BY <1>1, LastTagStart, LastTagStep, Invariance, PTL DEF Spec
-----------------------------------------------------------------------------
(* Quitting with prompts open.                                              *)

AnsweringPlaces == {"finish", "storeFinish", "release", "readDone", "readCompleted",
                    "delete"}

\* Only the innermost frame is past its prompt.
FrameInv == \A c \in Calls : gui[c] \in AnsweringPlaces => Top(c)

\* A cancelled call that the GUI knows of has its DONE, or will get it.
DoneInv ==
  \A c \in Calls : rpc[c] = "cancelled" /\ gui[c] # "none" =>
    \/ doneNotified[c]
    \/ Tag(c, "DONE", TRUE) \in completions
    \/ cqAt = "done" /\ cqCall = c

\* stop() is entered with every frame in its prompt, waits until no call is open and
\* then until every DONE was handled.
QuitInv ==
  /\ srv # "up" => \A c \in Calls : gui[c] # "finish"
  /\ srv \in {"down", "joined"} => \A c \in Calls : rpc[c] # "open"
  /\ srv = "joined" => \A c \in Calls : gui[c] = "prompt" => doneNotified[c]

ShutdownInv == FrameInv /\ DoneInv /\ QuitInv

LEMMA ShutdownStart == Init => ShutdownInv
BY DEF Init, ShutdownInv, FrameInv, DoneInv, QuitInv, AnsweringPlaces

LEMMA ShutdownStep ==
  ASSUME IInv, ShutdownInv, [Next]_vars
  PROVE  ShutdownInv'
<1> USE CallsAssumption
    DEF IInv, TypeOK, ShutdownInv, flags, cqVars, guiVars, Completion, CqPlaces,
        GuiPlaces, AnsweringPlaces
<1>1. ASSUME NEW c \in Calls, Ask(c) PROVE ShutdownInv'
  BY <1>1 DEF FrameInv, DoneInv, QuitInv, RpcInv, Ask, Top
<1>2. ASSUME NEW c \in Calls, Cancel(c) PROVE ShutdownInv'
  <2>1. gui[c] # "none" => guiHolding[c]
    BY <1>2 DEF WaitingInv, FinishedInv, WaitingPlaces, FinishedPlaces, Over, Cancel
  <2>2. DoneInv'
    BY <1>2, <2>1 DEF DoneInv, Cancel
  <2>3. FrameInv' /\ QuitInv'
    BY <1>2 DEF FrameInv, QuitInv, Cancel, Top
  <2> QED
    BY <2>2, <2>3
<1>3. ASSUME NEW m \in completions, CqNext(m) PROVE ShutdownInv'
  <2>1. DoneInv'
    <3>1. /\ completions' = completions \ {m} /\ cqCall' = m.call
          /\ UNCHANGED <<doneNotified, rpc, gui>>
          /\ m.tag = "DONE" => cqAt' = "done"
          /\ cqAt = "next"
      BY <1>3 DEF CqNext, CqGoto
    <3>2. \A c \in Calls : m = Tag(c, "DONE", TRUE) => m.tag = "DONE" /\ m.call = c
      BY DEF Tag
    <3> QED
      BY <3>1, <3>2 DEF DoneInv
  <2>2. FrameInv' /\ QuitInv'
    BY <1>3 DEF FrameInv, QuitInv, CqNext, Top
  <2> QED
    BY <2>1, <2>2
<1>4. ASSUME NEW c \in Calls, OnAccept(c) PROVE ShutdownInv'
  <2>1. cqAt = "accept" /\ cqCall = c /\ gui[c] = "none"
    BY <1>4 DEF CqInv, OnAccept, CqAt
  <2>2. DoneInv'
    <3>1. PICK n \in Calls : OnAccept(c)!3!(n)
      BY <1>4 DEF OnAccept
    <3>2. /\ \A d \in Calls : rpc'[d] = "cancelled" => rpc[d] = "cancelled"
          /\ completions \subseteq completions'
          /\ rpc[c] = "cancelled" => Tag(c, "DONE", TRUE) \in completions'
      BY <3>1
    <3>3. gui' = [gui EXCEPT ![c] = "queued"] /\ doneNotified' = doneNotified
      BY <1>4 DEF OnAccept
    <3>4. \A d \in Calls : d # c => gui'[d] = gui[d]
      BY <3>3
    <3> QED
      BY <2>1, <3>2, <3>3, <3>4 DEF DoneInv
  <2>3. FrameInv' /\ QuitInv'
    BY <1>4 DEF FrameInv, QuitInv, OnAccept, Top
  <2> QED
    BY <2>2, <2>3
<1>5. ASSUME NEW c \in Calls, StoreWaiting(c) \/ DoneUnheld(c) \/ DoneCompleted(c)
             \/ OnFinish(c) \/ FinishCheck(c) \/ CqDelete(c)
      PROVE ShutdownInv'
  <2>1. /\ UNCHANGED <<rpc, doneNotified, completions, gui, stack, srv>>
        /\ cqAt # "done"
    BY <1>5 DEF StoreWaiting, DoneUnheld, DoneCompleted, OnFinish, FinishCheck, CqDelete, CqAt
  <2> QED
    BY <2>1 DEF FrameInv, DoneInv, QuitInv, Top
<1>6. ASSUME NEW c \in Calls, OnDone(c) PROVE ShutdownInv'
  BY <1>6 DEF FrameInv, DoneInv, QuitInv, OnDone, CqAt, Top
<1>7. ASSUME NEW c \in Calls, TakeEvent(c) PROVE ShutdownInv'
  <2>1. \A d \in Calls : gui[d] \notin AnsweringPlaces
    BY <1>7 DEF FrameInv, TakeEvent, InEventLoop, Top
  <2>2. gui' = [gui EXCEPT ![c] = "prompt"] /\ srv = "up" /\ gui[c] = "queued"
        /\ UNCHANGED <<rpc, doneNotified, completions, cqAt, cqCall, srv>>
    BY <1>7 DEF EventsInv, TakeEvent, GuiGoto
  <2>3. FrameInv'
    BY <2>1, <2>2 DEF FrameInv
  <2>4. DoneInv' /\ QuitInv'
    BY <2>2 DEF DoneInv, QuitInv
  <2> QED
    BY <2>3, <2>4
<1>8. ASSUME NEW c \in Calls, FinishSkipped(c) \/ Release(c)
             \/ FinishChosen(c) \/ StoreFinish(c)
      PROVE  ShutdownInv'
  <2>1. /\ Top(c) /\ srv \in {"up", "joined"}
        /\ UNCHANGED <<rpc, doneNotified, completions, cqAt, cqCall, stack, srv>>
        /\ gui[c] # "none"
    BY <1>8 DEF FinishSkipped, FinishChosen, StoreFinish, Release, GuiAt, GuiRuns
  <2>2. PICK place \in AnsweringPlaces :
          /\ gui' = [gui EXCEPT ![c] = place]
          /\ place = "finish" => gui[c] = "prompt" /\ ~doneNotified[c]
    BY <1>8 DEF FinishSkipped, FinishChosen, StoreFinish, Release, GuiAt, GuiGoto, StreamIsDead
  <2>3. FrameInv'
    BY <2>1, <2>2 DEF FrameInv, Top
  <2>4. DoneInv' /\ QuitInv'
    BY <2>1, <2>2 DEF DoneInv, QuitInv
  <2> QED
    BY <2>3, <2>4
<1>9. ASSUME NEW c \in Calls, StartFinish(c) PROVE ShutdownInv'
  <2>1. /\ Top(c) /\ gui' = [gui EXCEPT ![c] = "storeFinish"] /\ gui[c] = "finish"
        /\ UNCHANGED <<doneNotified, cqAt, cqCall, stack, srv>>
    BY <1>9 DEF StartFinish, GuiAt, GuiGoto
  <2>2. completions \subseteq completions' /\ (rpc' = rpc \/ rpc' = [rpc EXCEPT ![c] = "replied"])
    BY <1>9 DEF StartFinish
  <2>3. FrameInv'
    BY <2>1 DEF FrameInv, Top
  <2>4. DoneInv'
    <3>1. \A d \in Calls : rpc'[d] = "cancelled" /\ gui'[d] # "none" =>
            rpc[d] = "cancelled" /\ gui[d] # "none"
      BY <2>1, <2>2
    <3> QED
      BY <2>1, <2>2, <3>1 DEF DoneInv
  <2>5. QuitInv'
    BY <2>1, <2>2 DEF QuitInv
  <2> QED
    BY <2>3, <2>4, <2>5
<1>10. ASSUME NEW c \in Calls, ReadDone(c) \/ ReadCompleted(c) \/ GuiDelete(c)
       PROVE  ShutdownInv'
  <2>1. /\ Top(c) /\ gui[c] \in AnsweringPlaces
        /\ UNCHANGED <<rpc, doneNotified, completions, cqAt, cqCall, srv>>
    BY <1>10 DEF ReadDone, ReadCompleted, GuiDelete, GuiAt
  <2>2. \/ gui' = [gui EXCEPT ![c] = "returned"]
        \/ /\ stack' = stack
           /\ \E place \in {"readCompleted", "delete"} : gui' = [gui EXCEPT ![c] = place]
    BY <1>10, Zenon DEF ReadDone, ReadCompleted, GuiDelete, GuiGoto, PopFrame
  <2>3. \A d \in Calls : d # c => gui[d] \notin AnsweringPlaces
    BY <2>1 DEF FrameInv, Top
  <2>4. FrameInv'
    BY <2>1, <2>2, <2>3 DEF FrameInv, Top
  <2>5. PICK place \in {"returned", "readCompleted", "delete"} :
          gui' = [gui EXCEPT ![c] = place]
    BY <2>2
  <2>6. DoneInv'
    <3>1. \A d \in Calls : gui'[d] # "none" => gui[d] # "none"
      BY <2>1, <2>5
    <3> QED
      BY <2>1, <3>1 DEF DoneInv
  <2>7. QuitInv'
    BY <2>1, <2>5 DEF QuitInv
  <2> QED
    BY <2>4, <2>6, <2>7
<1>11. CASE Stop
  <2>1. \A d \in Calls : gui[d] \notin AnsweringPlaces
    BY <1>11 DEF FrameInv, Stop, InEventLoop, Top
  <2>2. /\ srv' = "draining" /\ completions \subseteq completions'
        /\ \A d \in Calls : rpc'[d] = "cancelled" => rpc[d] = "cancelled"
        /\ UNCHANGED <<doneNotified, cqAt, cqCall, stack, gui>>
    BY <1>11 DEF Stop
  <2> QED
    BY <2>1, <2>2 DEF FrameInv, DoneInv, QuitInv, Top
<1>12. CASE ShutdownReturns
  BY <1>12 DEF FrameInv, DoneInv, QuitInv, ShutdownReturns, Top
<1>13. CASE JoinCq
  <2>1. ASSUME NEW c \in Calls, gui[c] = "prompt" PROVE doneNotified[c]
    <3>1. rpc[c] = "cancelled"
      BY <1>13, <2>1 DEF WaitingInv, WaitingPlaces, QuitInv, JoinCq
    <3> QED
      BY <1>13, <2>1, <3>1 DEF DoneInv, JoinCq
  <2> QED
    BY <1>13, <2>1 DEF FrameInv, DoneInv, QuitInv, JoinCq, Top
<1>14. CASE CqFaults \/ GuiFaults \/ UNCHANGED vars
  BY <1>14 DEF FrameInv, DoneInv, QuitInv, CqFaults, GuiFaults, vars, Top
<1> QED
  BY <1>1, <1>2, <1>3, <1>4, <1>5, <1>6, <1>7, <1>8, <1>9, <1>10, <1>11, <1>12, <1>13, <1>14
  DEF Next, Daemon, Cq, Gui, GuiGoesOn, Answer

\* Finish() is called by one step only, and that step belongs to a running server.
LEMMA FinishWhileUp ==
  ASSUME IInv, ShutdownInv, [Next]_vars, NEW c \in Calls,
         finishStarted'[c], ~finishStarted[c]
  PROVE  srv = "up"
<1> USE DEF IInv, TypeOK, flags, cqVars, guiVars
<1>1. ASSUME NEW d \in Calls, StartFinish(d) PROVE srv = "up"
  BY <1>1 DEF ShutdownInv, QuitInv, StartFinish, GuiAt, GuiRuns
<1>2. ASSUME NEW d \in Calls, FinishSkipped(d) PROVE FALSE
  BY <1>2 DEF FinishSkipped
<1>3. ASSUME finishStarted' = finishStarted PROVE FALSE
  BY <1>3
<1>4. Daemon \/ Cq \/ Stop \/ UNCHANGED vars => finishStarted' = finishStarted
  BY DEF Daemon, Ask, Cancel, Cq, CqNext, OnAccept, StoreWaiting, OnDone, DoneUnheld,
         DoneCompleted, OnFinish, FinishCheck, CqDelete, CqFaults, Stop, vars
<1>5. ASSUME NEW d \in Calls,
             \/ TakeEvent(d) \/ FinishChosen(d) \/ StoreFinish(d) \/ Release(d)
             \/ ReadDone(d) \/ ReadCompleted(d) \/ GuiDelete(d)
      PROVE  finishStarted' = finishStarted
  BY <1>5 DEF TakeEvent, FinishChosen, StoreFinish, Release, ReadDone, ReadCompleted,
              GuiDelete
<1>6. ShutdownReturns \/ JoinCq \/ GuiFaults => finishStarted' = finishStarted
  BY DEF ShutdownReturns, JoinCq, GuiFaults
<1> QED
  BY <1>1, <1>2, <1>3, <1>4, <1>5, <1>6 DEF Next, Gui, GuiGoesOn, Answer

\* However many prompts are open when the user quits, and whether or not the daemon
\* gave up on them: the ones that unwind after Shutdown() find m_doneNotified set and
\* call no Finish() on the server that is gone (186).
THEOREM ShutdownRespected == Spec => NoFinishAfterShutdown
<1>1. IInv /\ ShutdownInv /\ [Next]_vars =>
        [\A c \in Calls : finishStarted'[c] /\ ~finishStarted[c] => srv = "up"]_vars
  BY FinishWhileUp
<1> QED
  BY <1>1, ShutdownStart, ShutdownStep, Invariance, PTL DEF Spec, NoFinishAfterShutdown
-----------------------------------------------------------------------------
(* The calls implement AskRule.                                             *)

LEMMA Seen ==
  /\ SeenAs("idle") = "idle" /\ SeenAs("open") = "open"
  /\ SeenAs("replied") = "answered" /\ SeenAs("cancelled") = "abandoned"
  /\ SeenAs("aborted") = "refused"
  BY DEF SeenAs

\* How a change of one call's rpc looks in the abstract state.
LEMMA SeenChange ==
  ASSUME NEW c \in Calls, NEW r, TypeOK,
         rpc' = [rpc EXCEPT ![c] = r]
  PROVE  questionBar' = [questionBar EXCEPT ![c] = SeenAs(r)]
  BY DEF questionBar, TypeOK

LEMMA AbsMove ==
  ASSUME NEW c \in Calls, NEW from, NEW to, TypeOK, life[c] = "live",
         rpc[c] = from, rpc' = [rpc EXCEPT ![c] = to], life' = life
  PROVE  Abs!Move(c, SeenAs(from), SeenAs(to))
<1>1. questionBar' = [questionBar EXCEPT ![c] = SeenAs(to)]
  BY SeenChange
<1>2. questionBar[c] = SeenAs(from)
  BY DEF questionBar
<1> QED
  BY <1>1, <1>2 DEF Abs!Move

\* An object that is deleted belongs to a settled question.
LEMMA AbsFree ==
  ASSUME NEW c \in Calls, TypeOK, life[c] = "live",
         rpc[c] \in Over \cup {"aborted"},
         life' = [life EXCEPT ![c] = "freed"], rpc' = rpc
  PROVE  Abs!Free(c)
<1>1. questionBar[c] \in {"answered", "abandoned", "refused"}
  BY Seen DEF questionBar, Over
<1>2. questionBar' = questionBar
  BY DEF questionBar
<1> QED
  BY <1>1, <1>2 DEF Abs!Free, Abs!Settled

\* Each step of the code is one of AskRule or changes nothing AskRule can see.
LEMMA StepSimulation ==
  ASSUME IInv, [Next]_vars
  PROVE  [Abs!Next]_Abs!vars
<1> USE DEF IInv
<1> DEFINE Stutters == life' = life /\ rpc' = rpc
<1>0. Stutters => UNCHANGED Abs!vars
  BY DEF Abs!vars, questionBar
<1>1. ASSUME NEW c \in Calls, Ask(c) PROVE Abs!Next
  <2>1. Abs!Move(c, SeenAs("idle"), SeenAs("open"))
    BY <1>1, AbsMove DEF Ask
  <2> QED
    BY <2>1, Seen DEF Abs!Next, Abs!Pose
<1>2. ASSUME NEW c \in Calls, Cancel(c) PROVE Abs!Next
  <2>1. life[c] = "live"
    BY <1>2 DEF Cancel, TypeOK, RpcInv, Over
  <2>2. Abs!Move(c, SeenAs("open"), SeenAs("cancelled"))
    BY <1>2, <2>1, AbsMove DEF Cancel
  <2> QED
    BY <2>2, Seen DEF Abs!Next, Abs!Abandon
<1>3. ASSUME NEW c \in Calls, OnAccept(c) PROVE Abs!Next
  <2>1. PICK n \in Calls : OnAccept(c)!3!(n)
    BY <1>3 DEF OnAccept
  <2>2. rpc' = rpc \/ rpc' = [rpc EXCEPT ![n] = "aborted"]
    BY <2>1
  <2>3. questionBar' \in {questionBar, [questionBar EXCEPT ![n] = "refused"]}
    <3>1. CASE rpc' = rpc
      BY <3>1 DEF questionBar
    <3>2. CASE rpc' = [rpc EXCEPT ![n] = "aborted"]
      BY <3>2, SeenChange, Seen
    <3> QED
      BY <2>2, <3>1, <3>2
  <2>4. Abs!Create(n)
    BY <2>1, <2>3 DEF Abs!Create
  <2> QED
    BY <2>4 DEF Abs!Next
<1>4. ASSUME NEW c \in Calls, StartFinish(c) PROVE [Abs!Next]_Abs!vars
  <2>1. CASE rpc[c] = "open"
    <3>1. Abs!Move(c, SeenAs("open"), SeenAs("replied"))
      BY <1>4, <2>1, AbsMove DEF StartFinish, GuiAt
    <3> QED
      BY <3>1, Seen DEF Abs!Next, Abs!Answer
  <2>2. CASE rpc[c] # "open"
    BY <1>0, <1>4, <2>2 DEF StartFinish
  <2> QED
    BY <2>1, <2>2
<1>5. ASSUME NEW c \in Calls, CqDelete(c) PROVE Abs!Next
  <2>1. Abs!Free(c)
    BY <1>5, AbsFree DEF CqDelete, CqAt, CqInv
  <2> QED
    BY <2>1 DEF Abs!Next
<1>6. ASSUME NEW c \in Calls, GuiDelete(c) PROVE Abs!Next
  <2>1. Abs!Free(c)
    BY <1>6, AbsFree DEF GuiDelete, GuiAt, FinishedInv, FinishedPlaces
  <2> QED
    BY <2>1 DEF Abs!Next
<1>7. CASE Stop
  <2>1. rpc' = [c \in Calls |-> IF Refused(c) THEN "aborted" ELSE rpc[c]]
    BY <1>7 DEF Stop
  <2>2. \A c \in Calls : life[c] = "live" /\ questionBar[c] = "idle" <=> Refused(c)
    BY Seen DEF Refused, questionBar, TypeOK
  <2>3. questionBar' = [c \in Calls |-> IF life[c] = "live" /\ questionBar[c] = "idle"
                                        THEN "refused" ELSE questionBar[c]]
    BY <2>1, <2>2, Seen DEF questionBar
  <2>4. Abs!RefuseIdle
    BY <1>7, <2>3 DEF Stop, Abs!RefuseIdle
  <2> QED
    BY <2>4 DEF Abs!Next
<1>8. ASSUME NEW m \in completions, CqNext(m) PROVE Stutters
  BY <1>8 DEF CqNext
<1>9. ASSUME NEW c \in Calls,
             \/ StoreWaiting(c) \/ OnDone(c) \/ DoneUnheld(c) \/ DoneCompleted(c)
             \/ OnFinish(c) \/ FinishCheck(c)
      PROVE  Stutters
  BY <1>9 DEF StoreWaiting, OnDone, DoneUnheld, DoneCompleted, OnFinish, FinishCheck
<1>10. ASSUME NEW c \in Calls,
              \/ TakeEvent(c) \/ FinishSkipped(c) \/ FinishChosen(c) \/ StoreFinish(c)
              \/ Release(c) \/ ReadDone(c) \/ ReadCompleted(c)
       PROVE  Stutters
  BY <1>10 DEF TakeEvent, FinishSkipped, FinishChosen, StoreFinish, Release, ReadDone,
               ReadCompleted
<1>11. CASE ShutdownReturns \/ JoinCq \/ CqFaults \/ GuiFaults
  BY <1>0, <1>11 DEF ShutdownReturns, JoinCq, CqFaults, GuiFaults
<1>12. CASE UNCHANGED vars
  BY <1>0, <1>12 DEF vars
<1> QED
  BY <1>0, <1>1, <1>2, <1>3, <1>4, <1>5, <1>6, <1>7, <1>8, <1>9, <1>10, <1>11, <1>12
  DEF Next, Daemon, Cq, Gui, GuiGoesOn, Answer

LEMMA StartSimulation == Init => Abs!Init
<1> SUFFICES ASSUME Init PROVE Abs!Init
  OBVIOUS
<1>1. questionBar = [c \in Calls |-> "idle"]
  BY Seen DEF Init, questionBar
<1>2. \E h \in Calls : life = [c \in Calls |-> IF c = h THEN "live" ELSE "none"]
  BY DEF Init
<1> QED
  BY <1>1, <1>2 DEF Abs!Init

\* Whatever the two threads, the daemon and a quitting user do, up to the first
\* fault: no question is settled twice, and no object goes under an open question.
THEOREM Refinement == Spec => ImplementsAskRule
<1>1. IInv /\ [Next]_vars => [Abs!Next]_Abs!vars
  BY StepSimulation
<1> QED
  BY <1>1, StartSimulation, Invariance, PTL DEF Spec, ImplementsAskRule, Abs!Spec
=============================================================================
