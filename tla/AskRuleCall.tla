---------------------------- MODULE AskRuleCall ----------------------------
(***************************************************************************)
(* The life of AskRuleCallData (src/src/grpc_server.cpp), the object that  *)
(* carries one AskRule question of the daemon from the completion-queue    *)
(* thread to the GUI thread and its answer back to gRPC.                   *)
(*                                                                         *)
(* Three parties touch a call: the cq thread (GRpcServer::cqThreadFunc     *)
(* running proceed()), the GUI thread (UIController::customEvent running   *)
(* finishWithRule() and releaseFromGui()) and the daemon.  Each action is  *)
(* one access to state that another thread can see.  A step of a thread on *)
(* a call that is already freed is undefined behaviour: it sets fault and  *)
(* the model stops there.                                                  *)
(***************************************************************************)
EXTENDS Naturals, Sequences

CONSTANTS Calls,      \* the AskRuleCallData objects, one per handler created
          NoCall,     \* what the cq thread works on between two tags
          MayCancel,  \* TRUE: the daemon may give up on a question
          MayStop     \* TRUE: the user may quit the program

ASSUME CallsAssumption == NoCall \notin Calls
ASSUME SwitchAssumption == MayCancel \in BOOLEAN /\ MayStop \in BOOLEAN

VARIABLES
  life,             \* "none" before new, "live", "freed" after delete this
  mState,           \* m_state, a plain enum
  finishCompleted,  \* m_finishCompleted ...
  doneNotified,
  finishStarted,
  guiHolding,       \* ... four std::atomic<int>
  rpc,              \* the call as the daemon and gRPC see it
  completions,      \* tags that wait in the completion queue
  cqAt, cqCall,     \* where the cq thread is in proceed(), and on which call
  events,           \* AskRuleEvents posted to the GUI thread
  stack,            \* calls whose customEvent frame is open, innermost last
  gui,              \* where that frame is, per call
  untimed,          \* calls in whose prompt another event was handled
  srv,              \* GRpcServer::stop()
  fault             \* the first access to a freed call

flags  == <<finishCompleted, doneNotified, finishStarted, guiHolding>>
cqVars == <<completions, cqAt, cqCall>>
guiVars == <<events, stack, gui, untimed>>
vars == <<life, mState, flags, rpc, cqVars, guiVars, srv, fault>>

Completion == [call: Calls, tag: {"ACCEPT", "FINISH", "DONE"}, ok: BOOLEAN]
Tag(c, t, ok) == [call |-> c, tag |-> t, ok |-> ok]

CqPlaces  == {"next", "accept", "storeWaiting", "done", "doneUnheld",
              "doneCompleted", "finish", "finishCheck", "delete"}
GuiPlaces == {"none", "queued", "prompt", "finish", "storeFinish", "release",
              "readDone", "readCompleted", "delete", "returned"}

\* Shapes and ranges of the variables (the header of AskRuleCallData, h:125-159).
TypeOK ==
  /\ life \in [Calls -> {"none", "live", "freed"}]
  /\ mState \in [Calls -> {"CREATE", "PROCESS", "WAITING", "FINISH"}]
  /\ finishCompleted \in [Calls -> BOOLEAN]
  /\ doneNotified \in [Calls -> BOOLEAN]
  /\ finishStarted \in [Calls -> BOOLEAN]
  /\ guiHolding \in [Calls -> BOOLEAN]
  /\ rpc \in [Calls -> {"idle", "open", "replied", "cancelled", "aborted"}]
  /\ completions \in SUBSET Completion
  /\ cqAt \in CqPlaces
  /\ cqCall \in Calls \cup {NoCall}
  /\ cqAt # "next" => cqCall \in Calls
  /\ events \in Seq(Calls)
  /\ stack \in Seq(Calls)
  /\ gui \in [Calls -> GuiPlaces]
  /\ untimed \subseteq Calls
  /\ srv \in {"up", "draining", "down", "joined"}
  /\ fault \in {"none", "useAfterFree", "doubleDelete", "requestAfterStop"}

-----------------------------------------------------------------------------
(* initAccepts() has run: one handler exists and its accept is requested. *)
Init ==
  /\ \E h \in Calls :
       /\ life = [c \in Calls |-> IF c = h THEN "live" ELSE "none"]
       /\ mState = [c \in Calls |-> IF c = h THEN "PROCESS" ELSE "CREATE"]
  /\ finishCompleted = [c \in Calls |-> FALSE]
  /\ doneNotified = [c \in Calls |-> FALSE]
  /\ finishStarted = [c \in Calls |-> FALSE]
  /\ guiHolding = [c \in Calls |-> FALSE]
  /\ rpc = [c \in Calls |-> "idle"]
  /\ completions = {}
  /\ cqAt = "next" /\ cqCall = NoCall
  /\ events = <<>> /\ stack = <<>>
  /\ gui = [c \in Calls |-> "none"]
  /\ untimed = {}
  /\ srv = "up"
  /\ fault = "none"

-----------------------------------------------------------------------------
\* After undefined behaviour nothing is said any more: every action needs NoFault.
NoFault == fault = "none"

(* The daemon and gRPC (external).                                          *)

\* The daemon asks: the accept of an idle handler completes.  Bound: a handler
\* must be left for the constructor call that accepting will make.
Ask(c) ==
  /\ NoFault
  /\ srv = "up"
  /\ life[c] = "live" /\ mState[c] = "PROCESS" /\ rpc[c] = "idle"
  /\ \E n \in Calls : life[n] = "none"
  /\ rpc' = [rpc EXCEPT ![c] = "open"]
  /\ completions' = completions \cup {Tag(c, "ACCEPT", TRUE)}
  /\ UNCHANGED <<life, mState, flags, cqAt, cqCall, guiVars, srv, fault>>

\* The daemon gives up.  The DONE tag is delivered once AsyncNotifyWhenDone()
\* has been called, that is once the GUI has been given the call.
Cancel(c) ==
  /\ NoFault /\ MayCancel
  /\ rpc[c] = "open"
  /\ rpc' = [rpc EXCEPT ![c] = "cancelled"]
  /\ completions' = IF guiHolding[c]
                    THEN completions \cup {Tag(c, "DONE", TRUE)}
                    ELSE completions
  /\ UNCHANGED <<life, mState, flags, cqAt, cqCall, guiVars, srv, fault>>

-----------------------------------------------------------------------------
(* The cq thread.                                                           *)

CqGoto_LosesCall(c, place) == cqCall' = NoCall /\ cqAt' = place
CqGoto(c, place) == cqCall' = c /\ cqAt' = place
CqReturn == cqCall' = NoCall /\ cqAt' = "next"
CqAt(c, place) == NoFault /\ cqAt = place /\ cqCall = c /\ life[c] = "live"

\* A failed tag deletes the call unless its reply was already handed to gRPC.
FailedTagDeletes(c) == mState[c] # "FINISH"

\* Next() returns a tag; proceed() dispatches on it (108, 126-133, 142).
CqNext(m) ==
  /\ NoFault
  /\ cqAt = "next"
  /\ m \in completions
  /\ life[m.call] = "live"
  /\ completions' = completions \ {m}
  /\ \/ m.tag = "DONE" /\ CqGoto(m.call, "done")
     \/ m.tag # "DONE" /\ ~m.ok /\ FailedTagDeletes(m.call)
        /\ CqGoto(m.call, "delete")
     \/ m.tag = "FINISH" /\ (m.ok \/ ~FailedTagDeletes(m.call))
        /\ CqGoto(m.call, "finish")
     \/ m.tag = "ACCEPT" /\ m.ok /\ CqGoto(m.call, "accept")
  /\ UNCHANGED <<life, mState, flags, rpc, guiVars, srv, fault>>

\* PROCESS (148-163): create the next handler, ask for the DONE tag, mark the
\* call held and post it.  Nobody else can see the call before the post.  While
\* the server drains, the new handler's accept fails at once.
OnAccept(c) ==
  /\ CqAt(c, "accept")
  /\ srv \in {"up", "draining"}
  /\ \E n \in Calls :
       /\ life[n] = "none"
       /\ life' = [life EXCEPT ![n] = "live"]
       /\ mState' = [mState EXCEPT ![n] = "PROCESS"]
       /\ rpc' = IF srv = "up" THEN rpc ELSE [rpc EXCEPT ![n] = "aborted"]
       /\ completions' = completions
            \cup (IF srv = "up" THEN {} ELSE {Tag(n, "ACCEPT", FALSE)})
            \cup (IF rpc[c] = "cancelled" THEN {Tag(c, "DONE", TRUE)} ELSE {})
  /\ guiHolding' = [guiHolding EXCEPT ![c] = TRUE]
  /\ events' = Append(events, c)
  /\ gui' = [gui EXCEPT ![c] = "queued"]
  /\ CqGoto(c, "storeWaiting")
  /\ UNCHANGED <<finishCompleted, doneNotified, finishStarted, stack, untimed, srv, fault>>

\* m_state = WAITING, after the event is already in the GUI's queue (165).
StoreWaiting(c) ==
  /\ CqAt(c, "storeWaiting")
  /\ mState' = [mState EXCEPT ![c] = "WAITING"]
  /\ CqReturn
  /\ UNCHANGED <<life, flags, rpc, completions, guiVars, srv, fault>>

\* The DONE tag (109).
OnDone(c) ==
  /\ CqAt(c, "done")
  /\ doneNotified' = [doneNotified EXCEPT ![c] = TRUE]
  /\ CqGoto(c, "doneUnheld")
  /\ UNCHANGED <<life, mState, finishCompleted, finishStarted, guiHolding, rpc,
                 completions, guiVars, srv, fault>>

\* The two conditions under which DONE deletes the call (112 and 119).
NeverHandedOver_IgnoresHolder(c) == ~finishStarted[c]
NeverHandedOver(c) ==
  ~guiHolding[c] /\ ~finishStarted[c] /\ mState[c] # "WAITING"
FinishedAndReleased(c) == ~guiHolding[c] /\ finishCompleted[c]

DoneUnheld(c) ==
  /\ CqAt(c, "doneUnheld")
  /\ CqGoto(c, IF NeverHandedOver(c) THEN "delete" ELSE "doneCompleted")
  /\ UNCHANGED <<life, mState, flags, rpc, completions, guiVars, srv, fault>>

DoneCompleted(c) ==
  /\ CqAt(c, "doneCompleted")
  /\ IF FinishedAndReleased(c) THEN CqGoto(c, "delete") ELSE CqReturn
  /\ UNCHANGED <<life, mState, flags, rpc, completions, guiVars, srv, fault>>

\* The FINISH tag (134-139).
OnFinish(c) ==
  /\ CqAt(c, "finish")
  /\ finishCompleted' = [finishCompleted EXCEPT ![c] = TRUE]
  /\ CqGoto(c, "finishCheck")
  /\ UNCHANGED <<life, mState, doneNotified, finishStarted, guiHolding, rpc,
                 completions, guiVars, srv, fault>>

DoneAndReleased_IgnoresDone(c) == ~guiHolding[c]
DoneAndReleased(c) == doneNotified[c] /\ ~guiHolding[c]

FinishCheck(c) ==
  /\ CqAt(c, "finishCheck")
  /\ IF DoneAndReleased(c) THEN CqGoto(c, "delete") ELSE CqReturn
  /\ UNCHANGED <<life, mState, flags, rpc, completions, guiVars, srv, fault>>

CqDelete(c) ==
  /\ CqAt(c, "delete")
  /\ life' = [life EXCEPT ![c] = "freed"]
  /\ CqReturn
  /\ UNCHANGED <<mState, flags, rpc, completions, guiVars, srv, fault>>

-----------------------------------------------------------------------------
(* The GUI thread.  A prompt runs an event loop of its own, so a second     *)
(* event may be handled, to its end, inside the frame of the first.  There   *)
(* is one dialog: exec() of the second returns at once, without a loop.      *)

Top(c) == stack # <<>> /\ c = stack[Len(stack)]
GuiRuns == NoFault /\ srv \in {"up", "joined"}
GuiAt(c, place) == GuiRuns /\ Top(c) /\ gui[c] = place /\ life[c] = "live"
GuiGoto(c, place) == gui' = [gui EXCEPT ![c] = place]
InEventLoop ==
  stack = <<>> \/ \E c \in Calls : stack = <<c>> /\ gui[c] = "prompt"
PopFrame(c) ==
  /\ stack' = SubSeq(stack, 1, Len(stack) - 1)
  /\ GuiGoto(c, "returned")

\* customEvent() is entered (ui_controller.cpp:358) and decides on a rule, at
\* once or in the prompt.  Inside the prompt of another call it stops the
\* countdown that both share (prompt_dialog.cpp:436).
TakeEvent(c) ==
  /\ NoFault /\ srv = "up"
  /\ InEventLoop
  /\ events # <<>> /\ c = Head(events) /\ life[c] = "live"
  /\ events' = Tail(events)
  /\ stack' = Append(stack, c)
  /\ GuiGoto(c, "prompt")
  /\ untimed' = untimed \cup {d \in Calls : Top(d)}
  /\ UNCHANGED <<life, mState, flags, rpc, cqVars, srv, fault>>

\* finishWithRule(): the test of m_doneNotified (186-191).
StreamIsDead_NotTested(c) == FALSE
StreamIsDead(c) == doneNotified[c]

FinishSkipped(c) ==
  /\ GuiAt(c, "prompt")
  /\ StreamIsDead(c)
  /\ finishStarted' = [finishStarted EXCEPT ![c] = FALSE]
  /\ finishCompleted' = [finishCompleted EXCEPT ![c] = TRUE]
  /\ GuiGoto(c, "release")
  /\ UNCHANGED <<life, mState, doneNotified, guiHolding, rpc, cqVars,
                 events, stack, untimed, srv, fault>>

FinishChosen(c) ==
  /\ GuiAt(c, "prompt")
  /\ ~StreamIsDead(c)
  /\ GuiGoto(c, "finish")
  /\ UNCHANGED <<life, mState, flags, rpc, cqVars, events, stack, untimed, srv, fault>>

\* finishStarted, the reply and Finish() (193-195).  On a cancelled call gRPC
\* may report the FINISH tag as failed; on an open one the reply is sent and the
\* call is done.
StartFinish(c) ==
  /\ GuiAt(c, "finish")
  /\ finishStarted' = [finishStarted EXCEPT ![c] = TRUE]
  /\ \/ /\ rpc[c] = "open"
        /\ rpc' = [rpc EXCEPT ![c] = "replied"]
        /\ completions' = completions
             \cup {Tag(c, "FINISH", TRUE), Tag(c, "DONE", TRUE)}
     \/ /\ rpc[c] # "open"
        /\ \E ok \in BOOLEAN :
             completions' = completions \cup {Tag(c, "FINISH", ok)}
        /\ UNCHANGED rpc
  /\ GuiGoto(c, "storeFinish")
  /\ UNCHANGED <<life, mState, finishCompleted, doneNotified, guiHolding,
                 cqAt, cqCall, events, stack, untimed, srv, fault>>

\* m_state = FINISH, after Finish() has been started (196).
StoreFinish(c) ==
  /\ GuiAt(c, "storeFinish")
  /\ mState' = [mState EXCEPT ![c] = "FINISH"]
  /\ GuiGoto(c, "release")
  /\ UNCHANGED <<life, flags, rpc, cqVars, events, stack, untimed, srv, fault>>

\* releaseFromGui(): one write, two reads, and the delete (98-100).
Release_KeepsHolding(c) ==
  /\ GuiAt(c, "release")
  /\ GuiGoto(c, "readDone")
  /\ UNCHANGED <<life, mState, flags, rpc, cqVars, events, stack, untimed, srv, fault>>

Release(c) ==
  /\ GuiAt(c, "release")
  /\ guiHolding' = [guiHolding EXCEPT ![c] = FALSE]
  /\ GuiGoto(c, "readDone")
  /\ UNCHANGED <<life, mState, finishCompleted, doneNotified, finishStarted, rpc,
                 cqVars, events, stack, untimed, srv, fault>>

ReadDone(c) ==
  /\ GuiAt(c, "readDone")
  /\ \/ doneNotified[c] /\ GuiGoto(c, "readCompleted") /\ UNCHANGED stack
     \/ ~doneNotified[c] /\ PopFrame(c)
  /\ UNCHANGED <<life, mState, flags, rpc, cqVars, events, untimed, srv, fault>>

ReadCompleted(c) ==
  /\ GuiAt(c, "readCompleted")
  /\ \/ finishCompleted[c] /\ GuiGoto(c, "delete") /\ UNCHANGED stack
     \/ ~finishCompleted[c] /\ PopFrame(c)
  /\ UNCHANGED <<life, mState, flags, rpc, cqVars, events, untimed, srv, fault>>

GuiDelete(c) ==
  /\ GuiAt(c, "delete")
  /\ life' = [life EXCEPT ![c] = "freed"]
  /\ PopFrame(c)
  /\ UNCHANGED <<mState, flags, rpc, cqVars, events, untimed, srv, fault>>

-----------------------------------------------------------------------------
(* GRpcServer::stop() on the GUI thread, from any event loop.               *)

\* Shutdown() without a deadline: pending accepts fail, open calls go on.
Refused_WithOpenCalls(c) == life[c] = "live" /\ rpc[c] \in {"idle", "open"}
Refused(c) == life[c] = "live" /\ rpc[c] = "idle"

Stop ==
  /\ NoFault /\ MayStop /\ srv = "up" /\ InEventLoop
  /\ srv' = "draining"
  /\ LET idle == {c \in Calls : Refused(c)} IN
       /\ rpc' = [c \in Calls |-> IF c \in idle THEN "aborted" ELSE rpc[c]]
       /\ completions' = completions \cup {Tag(c, "ACCEPT", FALSE) : c \in idle}
  /\ UNCHANGED <<life, mState, flags, cqAt, cqCall, guiVars, fault>>

\* Shutdown() returns when no call is open; m_cq->Shutdown() follows.
ShutdownReturns ==
  /\ NoFault
  /\ srv = "draining"
  /\ \A c \in Calls : rpc[c] # "open"
  /\ srv' = "down"
  /\ UNCHANGED <<life, mState, flags, rpc, cqVars, guiVars, fault>>

\* pthread_join(): the cq thread has drained its queue and returned.
JoinCq ==
  /\ NoFault
  /\ srv = "down"
  /\ cqAt = "next" /\ completions = {}
  /\ srv' = "joined"
  /\ UNCHANGED <<life, mState, flags, rpc, cqVars, guiVars, fault>>

-----------------------------------------------------------------------------
(* Undefined behaviour: a thread's next step is on a call already freed, or *)
(* asks a destroyed server for the next call.                               *)
CqFaults ==
  /\ NoFault
  /\ \/ cqAt = "next" /\ (\E m \in completions : life[m.call] = "freed")
        /\ fault' = "useAfterFree"
     \/ cqAt \notin {"next", "delete"} /\ life[cqCall] = "freed"
        /\ fault' = "useAfterFree"
     \/ cqAt = "delete" /\ life[cqCall] = "freed" /\ fault' = "doubleDelete"
     \/ cqAt = "accept" /\ srv \in {"down", "joined"}
        /\ fault' = "requestAfterStop"
  /\ UNCHANGED <<life, mState, flags, rpc, cqVars, guiVars, srv>>

GuiFaults ==
  /\ GuiRuns
  /\ \E c \in Calls :
       /\ Top(c) /\ life[c] = "freed"
       /\ fault' = IF gui[c] = "delete" THEN "doubleDelete" ELSE "useAfterFree"
  /\ UNCHANGED <<life, mState, flags, rpc, cqVars, guiVars, srv>>

-----------------------------------------------------------------------------
Daemon == \E c \in Calls : Ask(c) \/ Cancel(c)

Cq ==
  \/ \E m \in completions : CqNext(m)
  \/ \E c \in Calls :
       \/ OnAccept(c) \/ StoreWaiting(c)
       \/ OnDone(c) \/ DoneUnheld(c) \/ DoneCompleted(c)
       \/ OnFinish(c) \/ FinishCheck(c) \/ CqDelete(c)
  \/ CqFaults

\* promptUser() returns: the rule is there.
Answer(c) == FinishSkipped(c) \/ FinishChosen(c)

\* What goes on without a user: the event loop, code that runs, and the prompts
\* whose countdown nobody stopped.
GuiGoesOn ==
  \/ \E c \in Calls :
       \/ TakeEvent(c)
       \/ c \notin untimed /\ Answer(c)
       \/ StartFinish(c) \/ StoreFinish(c)
       \/ Release(c) \/ ReadDone(c) \/ ReadCompleted(c) \/ GuiDelete(c)
  \/ ShutdownReturns \/ JoinCq
  \/ GuiFaults

Gui == GuiGoesOn \/ \E c \in Calls : Answer(c)

Next == Daemon \/ Cq \/ Gui \/ Stop

\* Both threads keep running, and a prompt with a countdown times out (PromptLoop:
\* LoneQuestionAnswered).  Nothing obliges the daemon to cancel, or the user to
\* quit or to answer a prompt that has lost its countdown.
Fairness == WF_vars(Cq) /\ WF_vars(GuiGoesOn)
Spec == Init /\ [][Next]_vars
FairSpec == Spec /\ Fairness

-----------------------------------------------------------------------------
(* Properties                                                               *)

\* While a question waits in the GUI's event queue or in a prompt, its object
\* exists: no tag that the cq thread handles meanwhile (DONE of a daemon that
\* gave up, with m_state still PROCESS or WAITING) frees it (112-122).
QueuedIsLive ==
  \A c \in Calls : gui[c] \in {"queued", "prompt"} => life[c] = "live"

\* Unless the daemon gave up on it, an object exists for as long as the GUI holds
\* it: from the post until releaseFromGui() clears m_guiHolding (155).
HeldIsLive ==
  \A c \in Calls : guiHolding[c] /\ rpc[c] # "cancelled" => life[c] = "live"

\* The GUI thread never works on an object that the cq thread has freed: not while
\* the question waits for it, nor while it answers one that is still wanted.
GuiObjectsAreLive == QueuedIsLive /\ HeldIsLive

\* Unless the daemon gave up on it, no tag of a freed object is left for the cq
\* thread to dereference: an object goes only after the last completion it asked
\* for (117-122, 133-139), whichever of the two threads deletes it.
NoDanglingTag ==
  \A m \in completions : rpc[m.call] # "cancelled" => life[m.call] # "freed"

\* Two threads decide on their own to delete; the object is deleted once
\* ("Deletion will happen when both FINISH and DONE are seen and GUI releases",
\* 117-118).
DeletedOnce == fault # "doubleDelete"

\* Nothing is written to a call once Shutdown() has returned: prompts that unwind
\* after the server is gone see m_doneNotified and keep away from gRPC (186).
NoFinishAfterShutdown ==
  [][\A c \in Calls : finishStarted'[c] /\ ~finishStarted[c] => srv = "up"]_vars

\* While the program runs, every question is answered or abandoned and its object
\* is freed in the end: whatever order FINISH, DONE and the GUI's release come in,
\* one of them sees that it is the last (99, 119, 135).  A prompt that met another
\* and lost its countdown may wait for ever; once it is answered, it is no exception.
WaitsForUser(c) == c \in untimed /\ gui[c] = "prompt"
EveryCallFreed ==
  \A c \in Calls :
    rpc[c] = "open" \/ gui[c] \in {"finish", "release"}
      ~> \/ life[c] = "freed" \/ fault # "none" \/ srv # "up"
         \/ WaitsForUser(c)

\* The calls implement the abstract promise.
SeenAs(r) ==
  CASE r = "idle" -> "idle"
    [] r = "open" -> "open"
    [] r = "replied" -> "answered"
    [] r = "cancelled" -> "abandoned"
    [] r = "aborted" -> "refused"
questionBar == [c \in Calls |-> SeenAs(rpc[c])]
Abs == INSTANCE AskRule WITH question <- questionBar, object <- life

\* Up to the first fault every behaviour of the code is one of AskRule: no
\* answer goes to a question that is settled, and no object disappears under an
\* open question.
ImplementsAskRule == Abs!Spec
=============================================================================
