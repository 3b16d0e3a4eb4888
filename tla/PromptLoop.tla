----------------------------- MODULE PromptLoop -----------------------------
(***************************************************************************)
(* How the GUI thread decides on questions: UIController::customEvent()    *)
(* (src/src/ui_controller.cpp) and the one PromptDialog it owns            *)
(* (src/src/prompt_dialog.cpp).  promptUser() runs a nested event loop,    *)
(* exec(), in which the next AskRuleEvent is delivered to customEvent()    *)
(* again.  TQDialog::exec() of a dialog that is already in its loop        *)
(* returns at once (external), so the nested promptUser() runs to its end  *)
(* inside one event, over the fields of the prompt that is still shown.    *)
(*                                                                         *)
(* A rule is what it was built from and its action; the same rule is sent  *)
(* to the daemon, stored and logged (420-460), so answer stands for all.   *)
(***************************************************************************)
EXTENDS Integers, Sequences, FiniteSets

CONSTANTS Conns,        \* connections the daemons ask about
          NoConn,
          MaxOpen,      \* how many questions the daemons have open at once
          Timeouts      \* values the user gives "default timeout", in ticks

ASSUME ConnsAssumption == NoConn \notin Conns
ASSUME BoundsAssumption == MaxOpen \in Nat \ {0} /\ Timeouts \subseteq Nat

VARIABLES
  queue,      \* AskRuleEvents posted and not yet delivered
  answer,     \* the rule each question was answered with
  outer,      \* the connection whose promptUser() is inside exec()
  current,    \* m_currentConn: what is shown and what buildRule() reads
  tick,       \* m_tick
  maxTick,    \* m_maxTick
  timer,      \* m_tickTimer is active
  popups,     \* the user has not disabled popups
  timeout     \* the configured default timeout

vars == <<queue, answer, outer, current, tick, maxTick, timer, popups, timeout>>
config == <<popups, timeout>>

\* by: "user" decided, the countdown ended ("timeout"), "closed" the dialog,
\* popups are "disabled", or exec() returned at once ("nested").
Causes == {"user", "timeout", "closed", "disabled", "nested"}
Rule == [conn: Conns, action: {"allow", "deny", "default"}, by: Causes]
NoRule == [conn |-> NoConn]
RuleFor(c, a, why) == [conn |-> c, action |-> a, by |-> why]

Open == {c \in Conns : (\E i \in 1..Len(queue) : queue[i] = c) \/ outer = c}
Asked(c) == c \in Open \/ answer[c] # NoRule

TypeOK ==
  /\ queue \in Seq(Conns)
  /\ answer \in [Conns -> Rule \cup {NoRule}]
  /\ outer \in Conns \cup {NoConn}
  /\ current \in Conns \cup {NoConn}
  /\ outer # NoConn => current # NoConn
  /\ tick \in Nat /\ maxTick \in Nat
  /\ timer \in BOOLEAN /\ popups \in BOOLEAN
  /\ timeout \in Timeouts

Init ==
  /\ queue = <<>>
  /\ answer = [c \in Conns |-> NoRule]
  /\ outer = NoConn /\ current = NoConn
  /\ timeout \in Timeouts
  /\ maxTick = timeout /\ tick = 0
  /\ timer = FALSE /\ popups = TRUE

-----------------------------------------------------------------------------
\* A daemon asks (external): it waits for the answer, so only MaxOpen
\* questions are open at a time.  Bound: each connection is asked about once.
Ask(c) ==
  /\ ~Asked(c)
  /\ Cardinality(Open) < MaxOpen
  /\ queue' = Append(queue, c)
  /\ UNCHANGED <<answer, outer, current, tick, maxTick, timer, config>>

\* customEvent() with popups disabled (388-418): the configured default.
AnswerByConfig ==
  /\ queue # <<>>
  /\ ~popups
  /\ queue' = Tail(queue)
  /\ answer' = [answer EXCEPT ![Head(queue)] = RuleFor(Head(queue), "default", "disabled")]
  /\ UNCHANGED <<outer, current, tick, maxTick, timer, config>>

\* The top of promptUser() (382-429): the countdown starts from the m_maxTick
\* of the previous prompt and only then is the configured timeout read.
LoadPrompt(c) ==
  /\ current' = c
  /\ tick' = maxTick
  /\ maxTick' = timeout

\* customEvent() -> promptUser() -> exec(), from the main event loop.
OpenPrompt_WithoutTimer ==
  /\ queue # <<>>
  /\ popups
  /\ outer = NoConn
  /\ queue' = Tail(queue)
  /\ LoadPrompt(Head(queue))
  /\ outer' = Head(queue)
  /\ UNCHANGED <<answer, timer, config>>

OpenPrompt ==
  /\ queue # <<>>
  /\ popups
  /\ outer = NoConn
  /\ queue' = Tail(queue)
  /\ LoadPrompt(Head(queue))
  /\ timer' = TRUE
  /\ outer' = Head(queue)
  /\ UNCHANGED <<answer, config>>

\* The same while a prompt is in its loop: exec() returns -1, the timer is
\* stopped (436), nothing was decided, so the default is used (438-442).
NestedPrompt ==
  /\ queue # <<>>
  /\ popups
  /\ outer # NoConn
  /\ LET c == Head(queue) IN
       /\ queue' = Tail(queue)
       /\ LoadPrompt(c)
       /\ answer' = [answer EXCEPT ![c] = RuleFor(c, "default", "nested")]
  /\ timer' = FALSE
  /\ UNCHANGED <<outer, config>>

\* exec() returns to the outer promptUser() and customEvent() with a rule built
\* from m_currentConn (620).
Decide_LeavesTimer(action, why) ==
  /\ answer' = [answer EXCEPT ![outer] = RuleFor(current, action, why)]
  /\ outer' = NoConn
  /\ UNCHANGED timer

Decide_LeavesPrompt(action, why) ==
  /\ answer' = [answer EXCEPT ![outer] = RuleFor(current, action, why)]
  /\ UNCHANGED <<outer, timer>>

Decide(action, why) ==
  /\ answer' = [answer EXCEPT ![outer] = RuleFor(current, action, why)]
  /\ outer' = NoConn
  /\ timer' = FALSE

\* onAllow(), onDeny() and Escape (738-754, 809-813).
UserDecides ==
  /\ outer # NoConn
  /\ \E action \in {"allow", "deny"} : Decide(action, "user")
  /\ UNCHANGED <<queue, current, tick, maxTick, config>>

\* closeEvent() (798-807).
UserCloses ==
  /\ outer # NoConn
  /\ Decide("default", "closed")
  /\ UNCHANGED <<queue, current, tick, maxTick, config>>

\* onTick() (765-775) and, when it ends the countdown, 438-442.
LastTick == tick <= 1

Tick ==
  /\ timer
  /\ tick' = IF LastTick THEN 0 ELSE tick - 1
  /\ IF LastTick
     THEN Decide("default", "timeout")
     ELSE UNCHANGED <<answer, outer, timer>>
  /\ UNCHANGED <<queue, current, maxTick, config>>

\* The preferences dialog, which a modal prompt keeps the user from.
ChangePreferences ==
  /\ outer = NoConn
  /\ popups' \in BOOLEAN
  /\ timeout' \in Timeouts
  /\ UNCHANGED <<queue, answer, outer, current, tick, maxTick, timer>>

-----------------------------------------------------------------------------
Deliver == AnswerByConfig \/ OpenPrompt \/ NestedPrompt
Next ==
  \/ \E c \in Conns : Ask(c)
  \/ Deliver \/ Tick
  \/ UserDecides \/ UserCloses \/ ChangePreferences

\* The event loop delivers events and timer ticks.  The user owes nothing.
Fairness == WF_vars(Deliver) /\ WF_vars(Tick)
Spec == Init /\ [][Next]_vars
FairSpec == Spec /\ Fairness

-----------------------------------------------------------------------------
(* Properties                                                               *)

\* Two prompts met: one question was posted while another's prompt was open.
Overlapped == \E c \in Conns : answer[c] # NoRule /\ answer[c].by = "nested"

\* The rule that answers a question was built from the connection the question
\* was about: "Returns the rule decided by the user" (prompt_dialog.h:34).
AnswerIsForItsQuestion ==
  \A c \in Conns : answer[c] # NoRule => answer[c].conn = c

\* Unless two prompts met, that is so whatever the queue, the timeouts, changes of
\* the preferences and the user do between them.
LoneAnswerIsForItsQuestion == ~Overlapped => AnswerIsForItsQuestion

\* Unless two prompts met, a question that nobody attends to is answered all the
\* same ("block until user responds or timeout", prompt_dialog.h:33).
LoneQuestionAnswered ==
  \A c \in Conns : c \in Open ~> (answer[c] # NoRule \/ Overlapped)

\* A question that was answered stays answered with the same rule: what was sent
\* to the daemon, stored and logged is not changed by later prompts.
AnsweredOnce ==
  [][\A c \in Conns : answer[c] # NoRule => answer'[c] = answer[c]]_vars

\* The countdown only runs under the prompt it is shown in: none that is left over
\* can close the next prompt early or decide for it (430-436).
CountdownHasPrompt == timer => outer # NoConn /\ current = outer

\* What holds in every state: the types, the answers and the countdown.
Safe == TypeOK /\ LoneAnswerIsForItsQuestion /\ CountdownHasPrompt
=============================================================================
