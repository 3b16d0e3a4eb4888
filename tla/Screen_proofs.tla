--------------------------- MODULE Screen_proofs ---------------------------
(***************************************************************************)
(* Proofs about what the user is shown: the prompt (PromptLoop, for every  *)
(* set of connections and timeouts and any number of questions open at     *)
(* once) and the events tab (EventsTab, for every table, filter and limit).*)
(***************************************************************************)
EXTENDS PromptLoop, EventsTab, FiniteSetTheorems, SequenceTheorems, TLAPS

-----------------------------------------------------------------------------
(* PromptLoop.                                                             *)

\* A question that waits, or whose prompt is open, has no answer yet, and it is
\* in one of these places once.
QueueInv ==
  /\ \A i, j \in 1 .. Len(queue) : queue[i] = queue[j] => i = j
  /\ \A i \in 1 .. Len(queue) : answer[queue[i]] = NoRule /\ queue[i] # outer
OuterInv == outer # NoConn => answer[outer] = NoRule

\* Until two prompts meet, the fields of the dialog are those of its question.
CurrentInv == outer # NoConn /\ ~Overlapped => current = outer

IInv == Safe /\ QueueInv /\ OuterInv /\ CurrentInv

-----------------------------------------------------------------------------
LEMMA RuleForType ==
  ASSUME NEW c \in Conns, NEW why \in Causes, NEW a \in {"allow", "deny", "default"}
  PROVE  /\ RuleFor(c, a, why) \in Rule
         /\ RuleFor(c, a, why) # NoRule
         /\ RuleFor(c, a, why).conn = c /\ RuleFor(c, a, why).by = why
<1>1. RuleFor(c, a, why).conn # NoRule.conn
  BY ConnsAssumption DEF RuleFor, NoRule
<1> QED
  BY <1>1 DEF RuleFor, Rule

LEMMA HeadOfQueue ==
  ASSUME queue \in Seq(Conns), queue # <<>>
  PROVE  /\ Head(queue) \in Conns /\ Head(queue) = queue[1] /\ 1 \in 1 .. Len(queue)
         /\ Tail(queue) \in Seq(Conns)
         /\ \A i \in 1 .. Len(Tail(queue)) :
              i + 1 \in 1 .. Len(queue) /\ i + 1 # 1 /\ Tail(queue)[i] = queue[i + 1]
OBVIOUS

\* The question at the head of the queue leaves it.
LEMMA TailKeeps ==
  ASSUME IInv, queue # <<>>, queue' = Tail(queue)
  PROVE  /\ Head(queue) \in Conns /\ answer[Head(queue)] = NoRule /\ Head(queue) # outer
         /\ queue' \in Seq(Conns)
         /\ \A i, j \in 1 .. Len(queue') : queue'[i] = queue'[j] => i = j
         /\ \A i \in 1 .. Len(queue') :
              /\ queue'[i] \in Conns /\ queue'[i] # Head(queue)
              /\ answer[queue'[i]] = NoRule /\ queue'[i] # outer
<1>1. /\ queue \in Seq(Conns)
      /\ \A i, j \in 1 .. Len(queue) : queue[i] = queue[j] => i = j
      /\ \A i \in 1 .. Len(queue) : answer[queue[i]] = NoRule /\ queue[i] # outer
  BY DEF IInv, Safe, TypeOK, QueueInv
<1>2. /\ Head(queue) \in Conns /\ Head(queue) = queue[1] /\ 1 \in 1 .. Len(queue)
      /\ queue' \in Seq(Conns)
      /\ \A i \in 1 .. Len(queue') :
           i + 1 \in 1 .. Len(queue) /\ i + 1 # 1 /\ queue'[i] = queue[i + 1]
  BY <1>1, HeadOfQueue
<1>3. ASSUME NEW i \in 1 .. Len(queue'), NEW j \in 1 .. Len(queue'), queue'[i] = queue'[j]
      PROVE  i = j
  <2>1. i + 1 = j + 1
    BY <1>1, <1>2, <1>3
  <2> QED
    BY <2>1
<1>4. ASSUME NEW i \in 1 .. Len(queue')
      PROVE  /\ queue'[i] \in Conns /\ queue'[i] # Head(queue)
             /\ answer[queue'[i]] = NoRule /\ queue'[i] # outer
  BY <1>1, <1>2
<1> QED
  BY <1>1, <1>2, <1>3, <1>4

\* A rule for question c leaves the other answers alone.
LEMMA OneAnswer ==
  ASSUME TypeOK, NEW c \in Conns, answer[c] = NoRule, NEW r \in Rule, r # NoRule,
         answer' = [answer EXCEPT ![c] = r]
  PROVE  /\ answer' \in [Conns -> Rule \cup {NoRule}]
         /\ answer'[c] = r
         /\ \A d \in Conns \ {c} : answer'[d] = answer[d]
         /\ \A d \in Conns : answer[d] # NoRule => answer'[d] = answer[d]
         /\ Overlapped => Overlapped'
         /\ r.by = "nested" => Overlapped'
         /\ (Overlapped \/ r.conn = c) /\ LoneAnswerIsForItsQuestion => LoneAnswerIsForItsQuestion'
<1>1. /\ answer' \in [Conns -> Rule \cup {NoRule}]
      /\ answer'[c] = r
      /\ \A d \in Conns \ {c} : answer'[d] = answer[d]
      /\ \A d \in Conns : answer[d] # NoRule => answer'[d] = answer[d]
  BY DEF TypeOK
<1>2. Overlapped => Overlapped'
  BY <1>1 DEF Overlapped
<1>3. r.by = "nested" => Overlapped'
  BY <1>1 DEF Overlapped
<1>4. ASSUME Overlapped \/ r.conn = c, LoneAnswerIsForItsQuestion
      PROVE  LoneAnswerIsForItsQuestion'
  BY <1>1, <1>2, <1>4 DEF LoneAnswerIsForItsQuestion, AnswerIsForItsQuestion
<1> QED
  BY <1>1, <1>2, <1>3, <1>4

-----------------------------------------------------------------------------
\* exec() returns, and the question whose prompt was open gets its rule.
LEMMA DecideKeeps ==
  ASSUME IInv, outer # NoConn, UNCHANGED <<queue, current, maxTick, config>>, tick' \in Nat,
         NEW why \in Causes \ {"nested"}, NEW a \in {"allow", "deny", "default"},
         Decide(a, why)
  PROVE  /\ IInv'
         /\ \A c \in Conns : answer[c] # NoRule => answer'[c] = answer[c]
<1> DEFINE r == RuleFor(current, a, why)
<1>1. /\ outer \in Conns /\ current \in Conns /\ answer[outer] = NoRule /\ TypeOK
      /\ queue \in Seq(Conns) /\ LoneAnswerIsForItsQuestion
      /\ Overlapped \/ current = outer
  BY DEF IInv, Safe, TypeOK, OuterInv, CurrentInv
<1>2. r \in Rule /\ r # NoRule /\ r.conn = current
  BY <1>1, RuleForType
<1>3. answer' = [answer EXCEPT ![outer] = r] /\ outer' = NoConn /\ timer' = FALSE
  BY DEF Decide
<1> HIDE DEF r
<1>4. /\ answer' \in [Conns -> Rule \cup {NoRule}]
      /\ \A d \in Conns \ {outer} : answer'[d] = answer[d]
      /\ \A d \in Conns : answer[d] # NoRule => answer'[d] = answer[d]
      /\ LoneAnswerIsForItsQuestion'
  BY <1>1, <1>2, <1>3, OneAnswer
<1>5. TypeOK'
  BY <1>1, <1>3, <1>4 DEF TypeOK, config
<1>6. QueueInv'
  <2>1. \A i \in 1 .. Len(queue) : queue[i] \in Conns /\ queue[i] # NoConn
    BY <1>1, ConnsAssumption
  <2> QED
    BY <1>3, <1>4, <2>1 DEF IInv, QueueInv
<1> QED
  BY <1>3, <1>4, <1>5, <1>6 DEF IInv, Safe, CountdownHasPrompt, OuterInv, CurrentInv

LEMMA AskKeeps ==
  ASSUME IInv, NEW c \in Conns, Ask(c)
  PROVE  IInv' /\ answer' = answer
<1>1. /\ queue' = Append(queue, c) /\ queue \in Seq(Conns)
      /\ UNCHANGED <<answer, outer, current, tick, maxTick, timer, config>>
      /\ \A i \in 1 .. Len(queue) : queue[i] # c
      /\ outer # c /\ answer[c] = NoRule
  BY DEF Ask, Asked, Open, IInv, Safe, TypeOK
<1>2. /\ queue' \in Seq(Conns) /\ Len(queue') = Len(queue) + 1 /\ Len(queue) \in Nat
      /\ \A i \in 1 .. Len(queue) : queue'[i] = queue[i]
      /\ queue'[Len(queue) + 1] = c
  BY <1>1
<1>3. TypeOK'
  BY <1>1, <1>2 DEF IInv, Safe, TypeOK, config
<1>4. QueueInv'
  <2>1. \A i \in 1 .. Len(queue') : i \in 1 .. Len(queue) \/ i = Len(queue) + 1
    BY <1>2
  <2>2. \A i, j \in 1 .. Len(queue') : queue'[i] = queue'[j] => i = j
    BY <1>1, <1>2, <2>1 DEF IInv, QueueInv
  <2>3. \A i \in 1 .. Len(queue') : answer[queue'[i]] = NoRule /\ queue'[i] # outer
    BY <1>1, <1>2, <2>1 DEF IInv, QueueInv
  <2> QED
    BY <1>1, <2>2, <2>3 DEF QueueInv
<1>5. /\ LoneAnswerIsForItsQuestion' /\ CountdownHasPrompt' /\ OuterInv' /\ CurrentInv'
  BY <1>1 DEF IInv, Safe, LoneAnswerIsForItsQuestion, AnswerIsForItsQuestion, Overlapped,
              CountdownHasPrompt, OuterInv, CurrentInv
<1> QED
  BY <1>1, <1>3, <1>4, <1>5 DEF IInv, Safe

\* With popups disabled, and for a question that meets an open prompt, customEvent()
\* answers the question it takes from the queue.
LEMMA TakenIsAnswered ==
  ASSUME IInv, queue # <<>>, queue' = Tail(queue),
         NEW why \in Causes, NEW a \in {"allow", "deny", "default"},
         answer' = [answer EXCEPT ![Head(queue)] = RuleFor(Head(queue), a, why)],
         outer' = outer
  PROVE  /\ answer' \in [Conns -> Rule \cup {NoRule}] /\ queue' \in Seq(Conns)
         /\ \A c \in Conns : answer[c] # NoRule => answer'[c] = answer[c]
         /\ QueueInv' /\ OuterInv' /\ LoneAnswerIsForItsQuestion'
         /\ Overlapped => Overlapped'
         /\ why = "nested" => Overlapped'
<1> DEFINE c == Head(queue)
           r == RuleFor(c, a, why)
<1>1. /\ c \in Conns /\ answer[c] = NoRule /\ c # outer /\ queue' \in Seq(Conns)
      /\ \A i, j \in 1 .. Len(queue') : queue'[i] = queue'[j] => i = j
      /\ \A i \in 1 .. Len(queue') :
           /\ queue'[i] \in Conns /\ queue'[i] # c
           /\ answer[queue'[i]] = NoRule /\ queue'[i] # outer
  BY TailKeeps
<1>2. r \in Rule /\ r # NoRule /\ r.conn = c /\ r.by = why
  BY <1>1, RuleForType
<1>3. TypeOK /\ LoneAnswerIsForItsQuestion
  BY DEF IInv, Safe
<1>4. answer' = [answer EXCEPT ![c] = r]
  OBVIOUS
<1> HIDE DEF c, r
<1>5. /\ answer' \in [Conns -> Rule \cup {NoRule}]
      /\ \A d \in Conns \ {c} : answer'[d] = answer[d]
      /\ \A d \in Conns : answer[d] # NoRule => answer'[d] = answer[d]
      /\ Overlapped => Overlapped'
      /\ r.by = "nested" => Overlapped'
      /\ LoneAnswerIsForItsQuestion'
  <2>1. c \in Conns /\ answer[c] = NoRule
    BY <1>1
  <2> QED
    BY <2>1, <1>2, <1>3, <1>4, OneAnswer
<1>6. QueueInv'
  BY <1>1, <1>5 DEF QueueInv
<1>7. OuterInv'
  BY <1>1, <1>3, <1>5 DEF IInv, OuterInv, TypeOK
<1> QED
  BY <1>1, <1>2, <1>5, <1>6, <1>7

LEMMA AnswerByConfigKeeps ==
  ASSUME IInv, AnswerByConfig
  PROVE  IInv' /\ \A c \in Conns : answer[c] # NoRule => answer'[c] = answer[c]
<1>1. /\ queue # <<>> /\ queue' = Tail(queue)
      /\ answer' = [answer EXCEPT ![Head(queue)] = RuleFor(Head(queue), "default", "disabled")]
      /\ UNCHANGED <<outer, current, tick, maxTick, timer, config>>
      /\ "disabled" \in Causes
  BY DEF AnswerByConfig, Causes
<1>2. /\ answer' \in [Conns -> Rule \cup {NoRule}] /\ queue' \in Seq(Conns)
      /\ \A c \in Conns : answer[c] # NoRule => answer'[c] = answer[c]
      /\ QueueInv' /\ OuterInv' /\ LoneAnswerIsForItsQuestion'
      /\ Overlapped => Overlapped'
  BY <1>1, TakenIsAnswered
<1>3. TypeOK' /\ CountdownHasPrompt' /\ CurrentInv'
  BY <1>1, <1>2 DEF IInv, Safe, TypeOK, config, CountdownHasPrompt, CurrentInv
<1> QED
  BY <1>2, <1>3 DEF IInv, Safe

LEMMA NestedPromptKeeps ==
  ASSUME IInv, NestedPrompt
  PROVE  IInv' /\ \A c \in Conns : answer[c] # NoRule => answer'[c] = answer[c]
<1>1. /\ queue # <<>> /\ queue' = Tail(queue)
      /\ answer' = [answer EXCEPT ![Head(queue)] = RuleFor(Head(queue), "default", "nested")]
      /\ outer' = outer /\ timer' = FALSE
      /\ current' = Head(queue) /\ tick' = maxTick /\ maxTick' = timeout
      /\ UNCHANGED config
      /\ "nested" \in Causes
  BY DEF NestedPrompt, LoadPrompt, Causes
<1>2. /\ answer' \in [Conns -> Rule \cup {NoRule}] /\ queue' \in Seq(Conns)
      /\ \A c \in Conns : answer[c] # NoRule => answer'[c] = answer[c]
      /\ QueueInv' /\ OuterInv' /\ LoneAnswerIsForItsQuestion'
      /\ Overlapped'
  BY <1>1, TakenIsAnswered
<1>3. Head(queue) \in Conns
  BY <1>1, TailKeeps
<1>4. TypeOK' /\ CountdownHasPrompt' /\ CurrentInv'
  BY <1>1, <1>2, <1>3, BoundsAssumption, ConnsAssumption
  DEF IInv, Safe, TypeOK, config, CountdownHasPrompt, CurrentInv
<1> QED
  BY <1>2, <1>4 DEF IInv, Safe

LEMMA OpenPromptKeeps ==
  ASSUME IInv, OpenPrompt
  PROVE  IInv' /\ answer' = answer
<1>1. /\ queue # <<>> /\ queue' = Tail(queue) /\ outer = NoConn
      /\ outer' = Head(queue) /\ current' = Head(queue)
      /\ timer' = TRUE /\ tick' = maxTick /\ maxTick' = timeout
      /\ UNCHANGED <<answer, config>>
  BY DEF OpenPrompt, LoadPrompt
<1>2. /\ Head(queue) \in Conns /\ answer[Head(queue)] = NoRule
      /\ queue' \in Seq(Conns)
      /\ \A i, j \in 1 .. Len(queue') : queue'[i] = queue'[j] => i = j
      /\ \A i \in 1 .. Len(queue') : queue'[i] # Head(queue) /\ answer[queue'[i]] = NoRule
  BY <1>1, TailKeeps
<1>3. TypeOK'
  BY <1>1, <1>2, BoundsAssumption, ConnsAssumption DEF IInv, Safe, TypeOK, config
<1>4. QueueInv' /\ OuterInv' /\ CurrentInv'
  BY <1>1, <1>2 DEF QueueInv, OuterInv, CurrentInv
<1>5. LoneAnswerIsForItsQuestion' /\ CountdownHasPrompt'
  BY <1>1, <1>2, ConnsAssumption
  DEF IInv, Safe, LoneAnswerIsForItsQuestion, AnswerIsForItsQuestion, Overlapped, CountdownHasPrompt
<1> QED
  BY <1>1, <1>3, <1>4, <1>5 DEF IInv, Safe

LEMMA TickKeeps ==
  ASSUME IInv, Tick
  PROVE  IInv' /\ \A c \in Conns : answer[c] # NoRule => answer'[c] = answer[c]
<1>1. /\ timer /\ outer # NoConn
      /\ UNCHANGED <<queue, current, maxTick, config>>
  BY DEF Tick, IInv, Safe, CountdownHasPrompt
<1>2. tick' \in Nat
  BY DEF Tick, LastTick, IInv, Safe, TypeOK
<1>3. CASE LastTick
  <2>1. "timeout" \in Causes \ {"nested"} /\ Decide("default", "timeout")
    BY <1>3 DEF Tick, Causes
  <2> QED
    BY <1>1, <1>2, <2>1, DecideKeeps
<1>4. CASE ~LastTick
  <2>1. UNCHANGED <<answer, outer, timer>>
    BY <1>4 DEF Tick
  <2>2. TypeOK'
    BY <1>1, <1>2, <2>1 DEF IInv, Safe, TypeOK, config
  <2>3. /\ QueueInv' /\ OuterInv' /\ CurrentInv'
        /\ LoneAnswerIsForItsQuestion' /\ CountdownHasPrompt'
    BY <1>1, <2>1 DEF IInv, Safe, QueueInv, OuterInv, CurrentInv, LoneAnswerIsForItsQuestion,
                      AnswerIsForItsQuestion, Overlapped, CountdownHasPrompt
  <2> QED
    BY <2>1, <2>2, <2>3 DEF IInv, Safe
<1> QED
  BY <1>3, <1>4

LEMMA PromptStep ==
  ASSUME IInv, [Next]_vars
  PROVE  IInv' /\ \A c \in Conns : answer[c] # NoRule => answer'[c] = answer[c]
<1>1. ASSUME NEW c \in Conns, Ask(c) PROVE IInv' /\ answer' = answer
  BY <1>1, AskKeeps
<1>2. ASSUME outer # NoConn, UNCHANGED <<queue, current, tick, maxTick, config>>,
             NEW a \in {"allow", "deny", "default"}, NEW why \in {"user", "closed"},
             Decide(a, why)
      PROVE  IInv' /\ \A c \in Conns : answer[c] # NoRule => answer'[c] = answer[c]
  <2>1. tick' \in Nat /\ why \in Causes \ {"nested"}
    BY <1>2 DEF IInv, Safe, TypeOK, Causes
  <2> QED
    BY <1>2, <2>1, DecideKeeps
<1>3. CASE UserDecides
  BY <1>2, <1>3 DEF UserDecides
<1>4. CASE UserCloses
  BY <1>2, <1>4 DEF UserCloses
<1>5. ASSUME UNCHANGED <<queue, answer, outer, current, tick, maxTick, timer>>,
             popups' \in BOOLEAN, timeout' \in Timeouts
      PROVE  IInv' /\ answer' = answer
  <2>1. TypeOK'
    BY <1>5 DEF IInv, Safe, TypeOK
  <2>2. /\ QueueInv' /\ OuterInv' /\ CurrentInv'
        /\ LoneAnswerIsForItsQuestion' /\ CountdownHasPrompt'
    BY <1>5 DEF IInv, Safe, QueueInv, OuterInv, CurrentInv, LoneAnswerIsForItsQuestion,
                AnswerIsForItsQuestion, Overlapped, CountdownHasPrompt
  <2> QED
    BY <1>5, <2>1, <2>2 DEF IInv, Safe
<1>6. CASE ChangePreferences
  BY <1>5, <1>6 DEF ChangePreferences
<1>7. CASE UNCHANGED vars
  <2>1. popups' \in BOOLEAN /\ timeout' \in Timeouts
    BY <1>7 DEF vars, config, IInv, Safe, TypeOK
  <2> QED
    BY <1>5, <1>7, <2>1 DEF vars
<1> QED
  BY <1>1, <1>3, <1>4, <1>6, <1>7, AnswerByConfigKeeps, OpenPromptKeeps, NestedPromptKeeps,
     TickKeeps DEF Next, Deliver

-----------------------------------------------------------------------------
\* The invariant of every execution: what it says of the queue and of the fields of
\* the dialog survives every click, tick, refusal and nested prompt.
THEOREM Invariance == Spec => []IInv
<1>1. Init => IInv
  <2> SUFFICES ASSUME Init PROVE IInv
    OBVIOUS
  <2>1. TypeOK
    <3>1. maxTick \in Nat /\ timeout \in Timeouts
      BY BoundsAssumption DEF Init
    <3>2. answer \in [Conns -> Rule \cup {NoRule}]
      BY DEF Init
    <3>3. queue \in Seq(Conns)
      BY DEF Init
    <3> QED
      BY <3>1, <3>2, <3>3 DEF Init, TypeOK
  <2>2. ~Overlapped /\ AnswerIsForItsQuestion
    BY DEF Init, Overlapped, AnswerIsForItsQuestion
  <2> QED
    BY <2>1, <2>2 DEF Init, IInv, Safe, LoneAnswerIsForItsQuestion, CountdownHasPrompt,
                      QueueInv, OuterInv, CurrentInv
<1>2. IInv /\ [Next]_vars => IInv'
  BY PromptStep
<1> QED
  BY <1>1, <1>2, PTL DEF Spec

\* Until two prompts meet, a question is answered with a rule for the connection it
\* was about, and a countdown runs only under the prompt it is shown in.
THEOREM LoneAnswersFit == Spec => []Safe
<1>1. IInv => Safe
  BY DEF IInv
<1> QED
  BY <1>1, Invariance, PTL

\* No question is answered twice, however prompts nest and whoever ends them.
THEOREM OneAnswerEach == Spec => AnsweredOnce
<1>1. IInv /\ [Next]_vars =>
        [\A c \in Conns : answer[c] # NoRule => answer'[c] = answer[c]]_vars
  BY PromptStep
<1> QED
  BY <1>1, Invariance, PTL DEF Spec, AnsweredOnce

-----------------------------------------------------------------------------
(* Arrangements.                                                           *)

\* Whatever order is asked for, what comes out has each member of S once.
LEMMA ArrangedIsBijection ==
  ASSUME NEW S, NEW before, IsFiniteSet(S)
  PROVE  Arranged(S, before) \in Bijection(1 .. Cardinality(S), S)
<1> DEFINE some == Bijection(1 .. Cardinality(S), S)
           fit == {f \in some : \A d, e \in DOMAIN f : d < e => <<f[d], f[e]>> \in before}
           these == IF fit = {} THEN some ELSE fit
<1>1. some # {}
  BY FS_CardinalityType, Zenon DEF ExistsBijection
<1>2. these # {} /\ these \subseteq some
  BY <1>1
<1>3. (CHOOSE f \in these : TRUE) \in these
  BY <1>2
<1>4. Arranged(S, before) = CHOOSE f \in these : TRUE
  BY DEF Arranged
<1> QED
  BY <1>2, <1>3, <1>4

\* It is in the order asked for if that is possible at all.
LEMMA ArrangedInOrder ==
  ASSUME NEW S, NEW before,
         \E f \in Bijection(1 .. Cardinality(S), S) :
           \A d, e \in DOMAIN f : d < e => <<f[d], f[e]>> \in before
  PROVE  \A d, e \in DOMAIN Arranged(S, before) :
           d < e => <<Arranged(S, before)[d], Arranged(S, before)[e]>> \in before
<1> DEFINE fit == {f \in Bijection(1 .. Cardinality(S), S) :
                     \A d, e \in DOMAIN f : d < e => <<f[d], f[e]>> \in before}
<1>1. fit # {}
  OBVIOUS
<1>2. (CHOOSE f \in fit : TRUE) \in fit
  BY <1>1
<1>3. Arranged(S, before) = CHOOSE f \in fit : TRUE
  BY <1>1 DEF Arranged
<1> QED
  BY <1>2, <1>3

\* What a bijection of a finite set is, as a sequence.
LEMMA BijectionIsSequence ==
  ASSUME NEW S, IsFiniteSet(S), NEW f \in Bijection(1 .. Cardinality(S), S)
  PROVE  /\ Cardinality(S) \in Nat
         /\ f \in Seq(S) /\ Len(f) = Cardinality(S) /\ DOMAIN f = 1 .. Cardinality(S)
         /\ ToSet(f) = S
         /\ \A d, e \in DOMAIN f : f[d] = f[e] => d = e
<1>1. Cardinality(S) \in Nat
  BY FS_CardinalityType
<1>2. f \in [1 .. Cardinality(S) -> S]
  BY DEF Bijection, Injection
<1>3. f \in Seq(S) /\ Len(f) = Cardinality(S) /\ DOMAIN f = 1 .. Cardinality(S)
  BY <1>1, <1>2
<1>4. ToSet(f) = S
  BY <1>2 DEF ToSet, Bijection, Surjection
<1>5. \A d, e \in DOMAIN f : f[d] = f[e] => d = e
  BY <1>2 DEF Bijection, Injection, IsInjective
<1> QED
  BY <1>1, <1>3, <1>4, <1>5

StrictlyOrders(R, S) ==
  /\ \A x, y \in S : <<x, y>> \in R => <<y, x>> \notin R
  /\ \A x, y, z \in S : <<x, y>> \in R /\ <<y, z>> \in R => <<x, z>> \in R
  /\ \A x, y \in S : x # y => <<x, y>> \in R \/ <<y, x>> \in R

\* A finite set can be put in any strict total order: a member's place is the
\* number of those before it.
LEMMA OrderedArrangement ==
  ASSUME NEW S, NEW R, IsFiniteSet(S), StrictlyOrders(R, S)
  PROVE  \E f \in Bijection(1 .. Cardinality(S), S) :
           \A d, e \in DOMAIN f : d < e => <<f[d], f[e]>> \in R
<1> DEFINE below(x) == {y \in S : <<y, x>> \in R}
           n == Cardinality(S)
           place == [x \in S |-> Cardinality(below(x)) + 1]
<1>1. n \in Nat
  BY FS_CardinalityType
<1>2. ASSUME NEW x \in S
      PROVE  IsFiniteSet(below(x)) /\ Cardinality(below(x)) \in Nat
    BY FS_Subset, FS_CardinalityType
<1>3. ASSUME NEW x \in S
      PROVE  place[x] \in 1 .. n
  <2>1. x \notin below(x)
    BY DEF StrictlyOrders
  <2>2. below(x) \in SUBSET S /\ below(x) # S
    BY <2>1
  <2>3. Cardinality(below(x)) <= n /\ n # Cardinality(below(x))
    BY <2>2, FS_Subset
  <2> QED
    BY <1>1, <1>2, <2>3
<1>4. ASSUME NEW x \in S, NEW y \in S, <<x, y>> \in R
      PROVE  place[x] < place[y]
  <2>1. below(x) \in SUBSET below(y)
    BY <1>4 DEF StrictlyOrders
  <2>2. x \in below(y) /\ x \notin below(x)
    BY <1>4 DEF StrictlyOrders
  <2>3. Cardinality(below(x)) <= Cardinality(below(y))
        /\ Cardinality(below(y)) # Cardinality(below(x))
    BY <1>2, <2>1, <2>2, FS_Subset
  <2>4. Cardinality(below(x)) \in Nat /\ Cardinality(below(y)) \in Nat
    BY <1>2
  <2>5. place[x] = Cardinality(below(x)) + 1 /\ place[y] = Cardinality(below(y)) + 1
    OBVIOUS
  <2> HIDE DEF below, place
  <2> QED
    BY <2>3, <2>4, <2>5
<1>5. place \in Injection(S, 1 .. n)
  <2>1. place \in [S -> 1 .. n]
    BY <1>3
  <2>2. ASSUME NEW x \in S, NEW y \in S, place[x] = place[y] PROVE x = y
    <3>1. place[x] \in Nat /\ place[y] \in Nat
      BY <1>1, <1>3
    <3>2. ~ (place[x] < place[y]) /\ ~ (place[y] < place[x])
      BY <2>2, <3>1
    <3> QED
      BY <1>4, <3>2 DEF StrictlyOrders
  <2> QED
    BY <2>1, <2>2 DEF Injection, IsInjective
<1>6. place \in Surjection(S, 1 .. n)
  <2>1. IsFiniteSet(1 .. n) /\ Cardinality(1 .. n) = n
    BY <1>1, FS_Interval
  <2> QED
    BY <1>5, <2>1, FS_Injection
<1>7. \A d \in 1 .. n : \E x \in S : place[x] = d
  BY <1>6 DEF Surjection
<1> HIDE DEF place
<1> DEFINE f == [d \in 1 .. n |-> CHOOSE x \in S : place[x] = d]
<1>8. \A d \in 1 .. n : f[d] \in S /\ place[f[d]] = d
  BY <1>7
<1>9. \A x \in S : \E d \in 1 .. n : f[d] = x
  <2> SUFFICES ASSUME NEW x \in S PROVE f[place[x]] = x /\ place[x] \in 1 .. n
    OBVIOUS
  <2>1. place[x] \in 1 .. n
    BY <1>5 DEF Injection
  <2>2. f[place[x]] \in S /\ place[f[place[x]]] = place[x]
    BY <1>8, <2>1
  <2> QED
    BY <1>5, <2>1, <2>2 DEF Injection, IsInjective
<1>10. f \in Bijection(1 .. n, S)
  <2>1. f \in [1 .. n -> S]
    BY <1>8
  <2>2. \A d, e \in 1 .. n : f[d] = f[e] => d = e
    BY <1>8
  <2> HIDE DEF f
  <2> QED
    BY <1>9, <2>1, <2>2 DEF Bijection, Injection, IsInjective, Surjection
<1>11. ASSUME NEW d \in 1 .. n, NEW e \in 1 .. n, d < e
       PROVE  <<f[d], f[e]>> \in R
  <2>1. f[d] \in S /\ f[e] \in S /\ place[f[d]] = d /\ place[f[e]] = e
    BY <1>8
  <2> HIDE DEF f
  <2>2. f[d] # f[e]
    BY <2>1, <1>11
  <2>3. CASE <<f[e], f[d]>> \in R
    <3>1. \A x \in S, y \in S : <<x, y>> \in R => place[x] < place[y]
      BY <1>4
    <3> QED
      BY <2>1, <2>3, <1>11, <3>1
  <2> QED
    BY <2>1, <2>2, <2>3 DEF StrictlyOrders
<1>12. DOMAIN f = 1 .. n
  OBVIOUS
<1> HIDE DEF f
<1> QED
  BY <1>10, <1>11, <1>12
-----------------------------------------------------------------------------
(* The table.                                                              *)

ViewRecord == [visible : Seq(Nat), current : Nat, sort : Columns \cup {"none"},
               ascending : BOOLEAN, text : FilterTexts \cup {""}, action : Actions \cup {""}]
CacheRecord == [column : Columns \cup {"none"}, numeric : BOOLEAN, keys : Seq(Key)]

\* A table as the operators of the model pass it on.
Table == [model : Seq(Event), view : ViewRecord, cache : CacheRecord, keyed : SUBSET Nat]

\* Rebuilt in parts.
Sorting(t) == t.view.sort # "none" /\ Cardinality(Filtered(t)) > 1
CacheAfter(t) == IF Sorting(t) THEN CacheFor(t, Filtered(t)) ELSE t.cache
OrderAfter(t) ==
  IF Sorting(t) THEN Sorted(CacheAfter(t), t.view.ascending, Filtered(t))
                ELSE Ascending(Filtered(t))
KeyedAfter(t) ==
  IF Sorting(t) /\ t.cache.column # t.view.sort THEN Filtered(t) ELSE t.keyed

\* What the view shows of the model: the rows that match its filters, each once,
\* and a current row that is there.
Shows(t) ==
  /\ t.view.visible \in Bijection(1 .. Cardinality(Filtered(t)), Filtered(t))
  /\ t.view.current <= Len(t.view.visible)

\* The keys that are known to be there are those of the rows, for one column.
KeysFit(t) ==
  /\ t.keyed \subseteq DOMAIN t.model
  /\ \A i \in t.keyed :
       /\ t.cache.column \in Columns /\ i \in DOMAIN t.cache.keys
       /\ t.cache.keys[i] = KeyOf(t.model[i], t.cache.column)
       /\ t.cache.numeric => t.cache.keys[i].isNumber

\* What is sorted is sorted by the keys of the cache.
InOrder(t) ==
  Sorting(t) => /\ t.cache.column = t.view.sort
                /\ t.view.visible = Sorted(t.cache, t.view.ascending, Filtered(t))

LEMMA RebuiltParts ==
  ASSUME NEW t \in Table
  PROVE  /\ Rebuilt(t).model = t.model
         /\ Rebuilt(t).cache = CacheAfter(t)
         /\ Rebuilt(t).keyed = KeyedAfter(t)
         /\ Rebuilt(t).view = [t.view EXCEPT !.visible = OrderAfter(t),
                                             !.current = Within(@, Len(OrderAfter(t)))]
         /\ Rebuilt(t) = [model |-> t.model, view |-> Rebuilt(t).view,
                          cache |-> CacheAfter(t), keyed |-> KeyedAfter(t)]
<1> DEFINE order == OrderAfter(t)
           c == CacheAfter(t)
           k == KeyedAfter(t)
<1>1. Rebuilt(t) = [t EXCEPT !.view.visible = order, !.view.current = Within(@, Len(order)),
                             !.cache = c, !.keyed = k]
  BY Zenon DEF Rebuilt, OrderAfter, CacheAfter, KeyedAfter, Sorting
<1> HIDE DEF order, c, k
<1>2. DOMAIN t = {"model", "view", "cache", "keyed"}
      /\ DOMAIN t.view = {"visible", "current", "sort", "ascending", "text", "action"}
  BY DEF Table, ViewRecord
<1>3. /\ Rebuilt(t).model = t.model /\ Rebuilt(t).cache = c /\ Rebuilt(t).keyed = k
      /\ Rebuilt(t).view = [t.view EXCEPT !.visible = order, !.current = Within(@, Len(order))]
  BY <1>1, <1>2
<1>4. DOMAIN Rebuilt(t) = {"model", "view", "cache", "keyed"}
  BY <1>1, <1>2
<1>5. Rebuilt(t) = [model |-> t.model, view |-> Rebuilt(t).view, cache |-> c, keyed |-> k]
  BY <1>1, <1>2, <1>3, <1>4
<1> QED
  BY <1>3, <1>5 DEF order, c, k

LEMMA FilteredIsFinite ==
  ASSUME NEW t \in Table
  PROVE  /\ Filtered(t) \subseteq DOMAIN t.model /\ DOMAIN t.model \subseteq Nat
         /\ IsFiniteSet(Filtered(t)) /\ Cardinality(Filtered(t)) \in Nat
<1>1. t.model \in Seq(Event)
  BY DEF Table
<1>2. DOMAIN t.model = 1 .. Len(t.model) /\ Len(t.model) \in Nat
  BY <1>1
<1>3. IsFiniteSet(DOMAIN t.model)
  BY <1>2, FS_Interval
<1>4. Filtered(t) \in SUBSET DOMAIN t.model
  BY DEF Filtered
<1>5. IsFiniteSet(Filtered(t))
  BY <1>3, <1>4, FS_Subset
<1> QED
  BY <1>2, <1>4, <1>5, FS_CardinalityType

LEMMA KeysAreKeys ==
  ASSUME NEW row \in Event, NEW column
  PROVE  KeyOf(row, column) \in Key
<1>1. row.time \in Nat /\ row.dest \in Dests
  BY TabBoundsAssumption DEF Event
<1>2. Number[row.dest] \in Nat /\ Collation[row.dest] \in Nat
  BY <1>1, TextsAssumption
<1> QED
  BY <1>1, <1>2 DEF KeyOf, Key

LEMMA IsCacheRecord ==
  ASSUME NEW column \in Columns \cup {"none"}, NEW numeric \in BOOLEAN, NEW keys \in Seq(Key)
  PROVE  [column |-> column, numeric |-> numeric, keys |-> keys] \in CacheRecord
BY Zenon DEF CacheRecord

\* A cache stays one, and what it is known to hold stays right.
LEMMA CacheAfterFits ==
  ASSUME NEW t \in Table, KeysFit(t)
  PROVE  /\ CacheAfter(t) \in CacheRecord
         /\ Sorting(t) => CacheAfter(t).column = t.view.sort
         /\ KeyedAfter(t) \subseteq DOMAIN t.model
         /\ \A i \in KeyedAfter(t) :
              /\ CacheAfter(t).column \in Columns /\ i \in DOMAIN CacheAfter(t).keys
              /\ CacheAfter(t).keys[i] = KeyOf(t.model[i], CacheAfter(t).column)
              /\ CacheAfter(t).numeric => CacheAfter(t).keys[i].isNumber
<1>0. t.cache \in CacheRecord /\ t.model \in Seq(Event)
      /\ t.view.sort \in Columns \cup {"none"}
  BY DEF Table, ViewRecord
<1>1. CASE ~Sorting(t) \/ t.cache.column = t.view.sort
  <2>1. CacheAfter(t) = t.cache /\ KeyedAfter(t) = t.keyed
    BY <1>1 DEF CacheAfter, CacheFor, KeyedAfter
  <2> QED
    BY <1>0, <1>1, <2>1 DEF KeysFit
<1>2. CASE Sorting(t) /\ t.cache.column # t.view.sort
  <2> DEFINE rows == Filtered(t)
             old(i) == IF i \in DOMAIN t.cache.keys THEN t.cache.keys[i] ELSE NoKey
             keys == [i \in DOMAIN t.model |->
                        IF i \in rows THEN KeyOf(t.model[i], t.view.sort) ELSE old(i)]
             numeric == \A i \in rows : keys[i].isNumber
  <2>1. CacheAfter(t) = [column |-> t.view.sort, keys |-> keys, numeric |-> numeric]
    BY <1>2, Zenon DEF CacheAfter, CacheFor
  <2>2. KeyedAfter(t) = rows /\ rows \subseteq DOMAIN t.model
    BY <1>2, FilteredIsFinite DEF KeyedAfter
  <2>3. ASSUME NEW i \in DOMAIN t.model PROVE keys[i] \in Key
    <3>1. t.model[i] \in Event
      BY <1>0
    <3>2. KeyOf(t.model[i], t.view.sort) \in Key
      BY <3>1, KeysAreKeys
    <3>3. NoKey \in Key /\ t.cache.keys \in Seq(Key)
      BY <1>0 DEF CacheRecord, NoKey, Key
    <3>4. old(i) \in Key
      BY <3>3
    <3> HIDE DEF old
    <3> QED
      BY <3>2, <3>4
  <2>4. DOMAIN keys = 1 .. Len(t.model) /\ Len(t.model) \in Nat
    BY <1>0
  <2>5. \A i \in rows : keys[i] = KeyOf(t.model[i], t.view.sort)
    BY <2>2
  <2>5a. DOMAIN keys = DOMAIN t.model
    OBVIOUS
  <2> HIDE DEF keys
  <2>6. keys \in Seq(Key)
    <3>1. keys = [i \in 1 .. Len(t.model) |-> keys[i]]
      BY <2>4 DEF keys
    <3> QED
      BY <2>3, <2>4, <2>5a, <3>1
  <2>7. numeric \in BOOLEAN
    OBVIOUS
  <2> HIDE DEF numeric
  <2>8. CacheAfter(t) \in CacheRecord
    <3>1. CacheAfter(t) = [column |-> t.view.sort, numeric |-> numeric, keys |-> keys]
      BY <2>1
    <3> QED
      BY <1>0, <2>6, <2>7, <3>1, IsCacheRecord
  <2>9. CacheAfter(t).column = t.view.sort /\ CacheAfter(t).keys = keys
        /\ CacheAfter(t).numeric = numeric
    BY <2>1
  <2>10. t.view.sort \in Columns
    BY <1>0, <1>2 DEF Sorting
  <2>11. numeric => \A i \in rows : keys[i].isNumber
    BY DEF numeric
  <2> QED
    BY <2>2, <2>5, <2>5a, <2>8, <2>9, <2>10, <2>11
<1> QED
  BY <1>1, <1>2
LEMMA IsTable ==
  ASSUME NEW m \in Seq(Event), NEW v \in ViewRecord, NEW c \in CacheRecord,
         NEW k \in SUBSET Nat
  PROVE  [model |-> m, view |-> v, cache |-> c, keyed |-> k] \in Table
BY Zenon DEF Table

LEMMA CacheWith ==
  ASSUME NEW c \in CacheRecord, NEW column \in Columns \cup {"none"}, NEW keys \in Seq(Key)
  PROVE  [c EXCEPT !.column = column, !.keys = keys] \in CacheRecord
BY DEF CacheRecord

LEMMA ViewWith ==
  ASSUME NEW v \in ViewRecord, NEW order \in Seq(Nat), NEW at \in Nat
  PROVE  [v EXCEPT !.visible = order, !.current = at] \in ViewRecord
BY DEF ViewRecord

LEMMA OrderAfterIsBijection ==
  ASSUME NEW t \in Table
  PROVE  /\ OrderAfter(t) \in Bijection(1 .. Cardinality(Filtered(t)), Filtered(t))
         /\ OrderAfter(t) \in Seq(Nat) /\ Len(OrderAfter(t)) \in Nat
<1>1. OrderAfter(t) \in Bijection(1 .. Cardinality(Filtered(t)), Filtered(t))
  BY FilteredIsFinite, ArrangedIsBijection, Zenon DEF OrderAfter, Sorted, Ascending
<1>2. OrderAfter(t) \in Seq(Filtered(t))
  BY <1>1, FilteredIsFinite, BijectionIsSequence, Zenon
<1>3. OrderAfter(t) \in Seq(Nat)
  BY <1>2, FilteredIsFinite
<1> QED
  BY <1>1, <1>3

\* What rebuilding leaves alone.
Same(t, s) ==
  /\ s.model = t.model /\ s.view.sort = t.view.sort /\ s.view.ascending = t.view.ascending
  /\ s.view.text = t.view.text /\ s.view.action = t.view.action

LEMMA SameFilters ==
  ASSUME NEW t, NEW s, Same(t, s)
  PROVE  Filtered(s) = Filtered(t) /\ Sorting(s) = Sorting(t)
BY DEF Same, Filtered, Sorting

Fits(t) == t \in Table /\ Shows(t) /\ KeysFit(t) /\ InOrder(t)

\* Rebuilding the index makes the view fit the model, its filters and its order,
\* whatever it showed before.
LEMMA RebuiltFits ==
  ASSUME NEW t \in Table, KeysFit(t)
  PROVE  Fits(Rebuilt(t)) /\ Same(t, Rebuilt(t))
<1> DEFINE s == Rebuilt(t)
           order == OrderAfter(t)
           at == Within(t.view.current, Len(order))
<1>1. order \in Bijection(1 .. Cardinality(Filtered(t)), Filtered(t))
      /\ order \in Seq(Nat) /\ Len(order) \in Nat
  BY OrderAfterIsBijection
<1>2. t.view \in ViewRecord /\ t.view.current \in Nat
  BY DEF Table, ViewRecord
<1>3. at \in Nat /\ at <= Len(order)
  BY <1>1, <1>2 DEF Within
<1>4. /\ s.model = t.model /\ s.cache = CacheAfter(t) /\ s.keyed = KeyedAfter(t)
      /\ s.view = [t.view EXCEPT !.visible = order, !.current = at]
      /\ s = [model |-> t.model, view |-> s.view, cache |-> CacheAfter(t),
              keyed |-> KeyedAfter(t)]
  BY RebuiltParts
<1> HIDE DEF s, order, at
<1>5. s.view \in ViewRecord
  <2>1. [t.view EXCEPT !.visible = order, !.current = at] \in ViewRecord
    BY <1>1, <1>2, <1>3, ViewWith
  <2> QED
    BY <1>4, <2>1
<1>6. /\ s.view.visible = order /\ s.view.current = at /\ s.view.sort = t.view.sort
      /\ s.view.ascending = t.view.ascending /\ s.view.text = t.view.text
      /\ s.view.action = t.view.action
  BY <1>2, <1>4 DEF ViewRecord
<1>7. Same(t, s) /\ Filtered(s) = Filtered(t) /\ Sorting(s) = Sorting(t)
  BY <1>4, <1>6, SameFilters DEF Same
<1>8. s \in Table
  <2>1. KeyedAfter(t) \in SUBSET Nat
    BY CacheAfterFits, FilteredIsFinite
  <2>2. t.model \in Seq(Event) /\ CacheAfter(t) \in CacheRecord
    BY CacheAfterFits DEF Table
  <2> QED
    BY <1>4, <1>5, <2>1, <2>2, IsTable
<1>9. Shows(s)
  BY <1>1, <1>3, <1>6, <1>7 DEF Shows
<1>10. KeysFit(s)
  <2>1. /\ KeyedAfter(t) \subseteq DOMAIN t.model
        /\ \A i \in KeyedAfter(t) :
             /\ CacheAfter(t).column \in Columns /\ i \in DOMAIN CacheAfter(t).keys
             /\ CacheAfter(t).keys[i] = KeyOf(t.model[i], CacheAfter(t).column)
             /\ CacheAfter(t).numeric => CacheAfter(t).keys[i].isNumber
    BY CacheAfterFits, Zenon
  <2>2. s.model = t.model /\ s.cache = CacheAfter(t) /\ s.keyed = KeyedAfter(t)
    BY <1>4
  <2> QED
    BY <2>1, <2>2 DEF KeysFit
<1>11. InOrder(s)
  <2> SUFFICES ASSUME Sorting(t)
               PROVE  /\ s.cache.column = s.view.sort
                      /\ s.view.visible = Sorted(s.cache, s.view.ascending, Filtered(s))
    BY <1>7, Zenon DEF InOrder
  <2>1. s.cache.column = s.view.sort
    BY <1>4, <1>6, CacheAfterFits
  <2>2. order = Sorted(CacheAfter(t), t.view.ascending, Filtered(t))
    BY DEF order, OrderAfter
  <2> QED
    BY <1>4, <1>6, <1>7, <2>1, <2>2, Zenon
<1> QED
  BY <1>7, <1>8, <1>9, <1>10, <1>11 DEF Fits, s

-----------------------------------------------------------------------------
(* What handlers do to a table.                                            *)

LEMMA ViewReplaced ==
  ASSUME NEW t \in Table, NEW v \in ViewRecord
  PROVE  /\ [t EXCEPT !.view = v] \in Table
         /\ [t EXCEPT !.view = v].view = v
         /\ [t EXCEPT !.view = v].model = t.model
         /\ KeysFit(t) => KeysFit([t EXCEPT !.view = v])
<1> DEFINE u == [t EXCEPT !.view = v]
<1>1. DOMAIN t = {"model", "view", "cache", "keyed"}
  BY DEF Table
<1>2. u.view = v /\ u.model = t.model /\ u.cache = t.cache /\ u.keyed = t.keyed
  BY <1>1
<1>3. u \in Table
  BY DEF Table
<1> HIDE DEF u
<1>4. KeysFit(t) => KeysFit(u)
  BY <1>2, Zenon DEF KeysFit
<1> QED
  BY <1>2, <1>3, <1>4 DEF u

LEMMA SetColumnFilterFits ==
  ASSUME NEW t \in Table, KeysFit(t), NEW a \in Actions \cup {""}
  PROVE  /\ Fits(SetColumnFilter(t, a))
         /\ SetColumnFilter(t, a).model = t.model
         /\ SetColumnFilter(t, a).view.action = a
         /\ SetColumnFilter(t, a).view.text = t.view.text
<1> DEFINE v == [t.view EXCEPT !.action = a]
           u == [t EXCEPT !.view = v]
<1>1. SetColumnFilter(t, a) = Rebuilt(u)
  BY DEF SetColumnFilter
<1>2. t.view \in ViewRecord
  BY DEF Table
<1>3. v \in ViewRecord
  BY <1>2 DEF ViewRecord
<1>4. v.action = a /\ v.text = t.view.text
  BY <1>2 DEF ViewRecord
<1> HIDE DEF v
<1>5. u \in Table /\ KeysFit(u) /\ u.view = v /\ u.model = t.model
  BY <1>3, ViewReplaced
<1> HIDE DEF u
<1> QED
  BY <1>1, <1>4, <1>5, RebuiltFits, Zenon DEF Same

LEMMA SetFilterTextFits ==
  ASSUME NEW t \in Table, KeysFit(t), NEW x \in FilterTexts \cup {""}
  PROVE  /\ Fits(SetFilterText(t, x))
         /\ SetFilterText(t, x).model = t.model
         /\ SetFilterText(t, x).view.text = x
         /\ SetFilterText(t, x).view.action = t.view.action
<1> DEFINE v == [t.view EXCEPT !.text = x]
           u == [t EXCEPT !.view = v]
<1>1. SetFilterText(t, x) = Rebuilt(u)
  BY DEF SetFilterText
<1>2. t.view \in ViewRecord
  BY DEF Table
<1>3. v \in ViewRecord
  BY <1>2 DEF ViewRecord
<1>4. v.text = x /\ v.action = t.view.action
  BY <1>2 DEF ViewRecord
<1> HIDE DEF v
<1>5. u \in Table /\ KeysFit(u) /\ u.view = v /\ u.model = t.model
  BY <1>3, ViewReplaced
<1> HIDE DEF u
<1> QED
  BY <1>1, <1>4, <1>5, RebuiltFits, Zenon DEF Same

LEMMA OnHeaderClickedFits ==
  ASSUME NEW t \in Table, KeysFit(t), NEW column \in Columns
  PROVE  /\ Fits(OnHeaderClicked(t, column))
         /\ OnHeaderClicked(t, column).model = t.model
         /\ OnHeaderClicked(t, column).view.text = t.view.text
         /\ OnHeaderClicked(t, column).view.action = t.view.action
<1> DEFINE v == IF t.view.sort = column THEN [t.view EXCEPT !.ascending = ~@]
                ELSE [t.view EXCEPT !.sort = column, !.ascending = TRUE]
           u == [t EXCEPT !.view = v]
<1>0. DOMAIN t = {"model", "view", "cache", "keyed"}
  BY DEF Table
<1>1. OnHeaderClicked(t, column) = Rebuilt(u)
  <2>1. CASE t.view.sort = column
    BY <2>1, Zenon DEF OnHeaderClicked
  <2>2. CASE t.view.sort # column
    <3>1. [t EXCEPT !.view.sort = column, !.view.ascending = TRUE]
            = [t EXCEPT !.view = [t.view EXCEPT !.sort = column, !.ascending = TRUE]]
      BY <1>0
    <3> QED
      BY <2>2, <3>1, Zenon DEF OnHeaderClicked
  <2> QED
    BY <2>1, <2>2
<1>2. t.view \in ViewRecord
  BY DEF Table
<1>3. v \in ViewRecord
  BY <1>2 DEF ViewRecord
<1>4. v.text = t.view.text /\ v.action = t.view.action
  BY <1>2 DEF ViewRecord
<1> HIDE DEF v
<1>5. u \in Table /\ KeysFit(u) /\ u.view = v /\ u.model = t.model
  BY <1>3, ViewReplaced
<1> HIDE DEF u
<1> QED
  BY <1>1, <1>4, <1>5, RebuiltFits, Zenon DEF Same

LEMMA OnModelResetFits ==
  ASSUME NEW t \in Table, NEW rows \in Seq(Event)
  PROVE  Fits(OnModelReset(t, rows)) /\ OnModelReset(t, rows).model = rows
<1> DEFINE w == [t EXCEPT !.model = rows]
           c == [t.cache EXCEPT !.column = "none", !.keys = <<>>]
           u == [w EXCEPT !.cache = c, !.keyed = {}]
<1>1. OnModelReset(t, rows) = Rebuilt(u)
  <2>1. w.cache = t.cache
    BY DEF Table
  <2> HIDE DEF w
  <2>2. Invalidated(w) = u
    BY <2>1 DEF Invalidated
  <2>3. OnModelReset(t, rows) = Rebuilt(Invalidated(w))
    BY Zenon DEF OnModelReset, w
  <2> QED
    BY <2>2, <2>3
<1>2. t.cache \in CacheRecord
  BY DEF Table
<1>3. c \in CacheRecord
  <2>1. <<>> \in Seq(Key)
    OBVIOUS
  <2> QED
    BY <1>2, <2>1, CacheWith
<1> HIDE DEF c
<1>4. w \in Table /\ w.model = rows
  BY DEF Table
<1> HIDE DEF w
<1>5. u \in Table
  BY <1>3, <1>4 DEF Table
<1>6. u.model = rows /\ u.keyed = {}
  BY <1>4 DEF Table
<1> HIDE DEF u
<1>7. KeysFit(u)
  BY <1>6 DEF KeysFit
<1> QED
  BY <1>1, <1>5, <1>6, <1>7, RebuiltFits, Zenon DEF Same
\* Only the current row of t moves.
Moved(t, d) == [t EXCEPT !.view = [t.view EXCEPT !.current = d]]

LEMMA MovedFits ==
  ASSUME NEW t, Fits(t), NEW d \in 0 .. Len(t.view.visible)
  PROVE  /\ Fits(Moved(t, d)) /\ Same(t, Moved(t, d))
         /\ Moved(t, d).view.visible = t.view.visible
         /\ Moved(t, d).view.current = d
<1> DEFINE v == [t.view EXCEPT !.current = d]
           u == [t EXCEPT !.view = v]
<1>1. t \in Table /\ Shows(t) /\ KeysFit(t) /\ InOrder(t)
  BY DEF Fits
<1>2. t.view \in ViewRecord /\ d \in Nat /\ d <= Len(t.view.visible)
  <2>1. t.view \in ViewRecord /\ t.view.visible \in Seq(Nat)
    BY <1>1 DEF Table, ViewRecord
  <2> QED
    BY <2>1
<1>3. v \in ViewRecord
  BY <1>2 DEF ViewRecord
<1>4. /\ v.visible = t.view.visible /\ v.current = d /\ v.sort = t.view.sort
      /\ v.ascending = t.view.ascending /\ v.text = t.view.text
      /\ v.action = t.view.action
  BY <1>2 DEF ViewRecord
<1> HIDE DEF v
<1>5. u \in Table /\ KeysFit(u) /\ u.view = v /\ u.model = t.model
  BY <1>1, <1>3, ViewReplaced
<1>6. u.cache = t.cache
  BY <1>1 DEF Table
<1>7. Moved(t, d) = u
  BY DEF Moved, v
<1> HIDE DEF u
<1>8. Same(t, u)
  BY <1>4, <1>5 DEF Same
<1>9. Filtered(u) = Filtered(t) /\ Sorting(u) = Sorting(t)
  BY <1>8, SameFilters
<1>10. Shows(u)
  BY <1>1, <1>2, <1>4, <1>5, <1>9 DEF Shows
<1>11. InOrder(u)
  <2> SUFFICES ASSUME Sorting(u)
               PROVE  /\ u.cache.column = u.view.sort
                      /\ u.view.visible = Sorted(u.cache, u.view.ascending, Filtered(u))
    BY DEF InOrder
  <2>1. /\ t.cache.column = t.view.sort
        /\ t.view.visible = Sorted(t.cache, t.view.ascending, Filtered(t))
    BY <1>1, <1>9 DEF InOrder
  <2> QED
    BY <1>4, <1>5, <1>6, <1>9, <2>1, Zenon
<1> QED
  BY <1>4, <1>5, <1>7, <1>8, <1>10, <1>11 DEF Fits

\* What a view shows, by row.
LEMMA ShownRows ==
  ASSUME NEW t, Fits(t)
  PROVE  /\ t.view.visible \in Seq(Nat) /\ t.view.current \in 0 .. Len(t.view.visible)
         /\ ToSet(t.view.visible) = Filtered(t)
         /\ Len(t.view.visible) = Cardinality(Filtered(t))
         /\ Filtered(t) \subseteq DOMAIN t.model
<1>1. t \in Table /\ Shows(t)
  BY DEF Fits
<1>2. t.view.visible \in Seq(Nat) /\ t.view.current \in Nat
  BY <1>1 DEF Table, ViewRecord
<1>3. t.view.current <= Len(t.view.visible)
  BY <1>1 DEF Shows
<1>4. IsFiniteSet(Filtered(t)) /\ Filtered(t) \subseteq DOMAIN t.model
  BY <1>1, FilteredIsFinite
<1>5. ToSet(t.view.visible) = Filtered(t)
      /\ Len(t.view.visible) = Cardinality(Filtered(t))
  BY <1>1, <1>4, BijectionIsSequence DEF Shows
<1> QED
  BY <1>2, <1>3, <1>4, <1>5

LEMMA SelectModelRowFits ==
  ASSUME NEW t, Fits(t), NEW i
  PROVE  /\ Fits(SelectModelRow(t, i)) /\ Same(t, SelectModelRow(t, i))
         /\ SelectModelRow(t, i).view.visible = t.view.visible
         /\ i \in Filtered(t) => SelectedModelRow(SelectModelRow(t, i).view) = i
<1> DEFINE at == {d \in DOMAIN t.view.visible : t.view.visible[d] = i}
<1>1. t.view.visible \in Seq(Nat) /\ ToSet(t.view.visible) = Filtered(t)
  BY ShownRows
<1>2. CASE at = {}
  <2>1. SelectModelRow(t, i) = t
    BY <1>2, Zenon DEF SelectModelRow
  <2>2. i \notin Filtered(t)
    BY <1>1, <1>2 DEF ToSet
  <2> QED
    BY <2>1, <2>2 DEF Same
<1>3. CASE at # {}
  <2> DEFINE d == CHOOSE e \in at : TRUE
  <2>1. SelectModelRow(t, i) = [t EXCEPT !.view.current = d]
    BY <1>3, Zenon DEF SelectModelRow
  <2>2. d \in at
    BY <1>3
  <2> HIDE DEF d
  <2>3. d \in 1 .. Len(t.view.visible) /\ t.view.visible[d] = i
    BY <1>1, <2>2
  <2>4. SelectModelRow(t, i) = Moved(t, d)
    BY <2>1 DEF Moved
  <2>5. d \in 0 .. Len(t.view.visible)
    BY <1>1, <2>3
  <2>6. /\ Fits(Moved(t, d)) /\ Same(t, Moved(t, d))
        /\ Moved(t, d).view.visible = t.view.visible
        /\ Moved(t, d).view.current = d
    BY <2>5, MovedFits
  <2>7. SelectedModelRow(Moved(t, d).view) = i
    BY <1>1, <2>3, <2>6 DEF SelectedModelRow
  <2> QED
    BY <2>4, <2>6, <2>7
<1> QED
  BY <1>2, <1>3

\* The row that says what the selected one said is selected if it is shown.
LEMMA ReselectedFits ==
  ASSUME NEW t, Fits(t), NEW before
  PROVE  /\ Fits(Reselected(t, before)) /\ Same(t, Reselected(t, before))
         /\ Reselected(t, before).view.visible = t.view.visible
         /\ \A j \in Filtered(t) :
              SelectedModelRow(before.view) # 0
              /\ t.model[j] = before.model[SelectedModelRow(before.view)]
              => t.model[SelectedModelRow(Reselected(t, before).view)] = t.model[j]
<1> DEFINE i == SelectedModelRow(before.view)
           same == {j \in DOMAIN t.model : i # 0 /\ t.model[j] = before.model[i]}
           k == CHOOSE j \in same : TRUE
<1>1. Filtered(t) \subseteq DOMAIN t.model
  BY ShownRows
<1>2. CASE same # {}
  <2>1. Reselected(t, before) = SelectModelRow(t, k)
    BY <1>2, Zenon DEF Reselected
  <2>2. k \in same
    BY <1>2
  <2> HIDE DEF k
  <2>3. ASSUME NEW j \in Filtered(t), i # 0, t.model[j] = before.model[i]
        PROVE  k \in Filtered(t) /\ t.model[k] = t.model[j]
    BY <2>2, <2>3 DEF Filtered
  <2>4. /\ Fits(SelectModelRow(t, k)) /\ Same(t, SelectModelRow(t, k))
        /\ SelectModelRow(t, k).view.visible = t.view.visible
        /\ k \in Filtered(t) => SelectedModelRow(SelectModelRow(t, k).view) = k
    BY SelectModelRowFits
  <2> HIDE DEF i, same
  <2>5. ASSUME NEW j \in Filtered(t), i # 0, t.model[j] = before.model[i]
        PROVE  t.model[SelectedModelRow(Reselected(t, before).view)] = t.model[j]
    <3>1. k \in Filtered(t) /\ t.model[k] = t.model[j]
      BY <2>3, <2>5
    <3> QED
      BY <2>1, <2>4, <3>1
  <2> QED
    BY <2>1, <2>4, <2>5 DEF i
<1>3. CASE same = {}
  <2>1. Reselected(t, before) = IF i \in DOMAIN t.model THEN SelectModelRow(t, i) ELSE t
    BY <1>3, Zenon DEF Reselected
  <2>2. ASSUME NEW j \in Filtered(t) PROVE ~ (i # 0 /\ t.model[j] = before.model[i])
    BY <1>1, <1>3
  <2>3. Fits(SelectModelRow(t, i)) /\ Same(t, SelectModelRow(t, i))
        /\ SelectModelRow(t, i).view.visible = t.view.visible
    BY SelectModelRowFits
  <2>4. Same(t, t)
    BY DEF Same
  <2> QED
    BY <2>1, <2>2, <2>3, <2>4
<1> QED
  BY <1>2, <1>3

-----------------------------------------------------------------------------
(* What is fetched.                                                        *)

\* The model is filled with events of the table, none of them the UI's own.
LEMMA FetchedAreStored ==
  ASSUME stored \in Seq(Event), NEW lim
  PROVE  /\ Fetched(lim) \in Seq(Event)
         /\ \A d \in DOMAIN Fetched(lim) :
              \E i \in DOMAIN stored : Fetched(lim)[d] = stored[i] /\ ~stored[i].internal
<1> DEFINE own == {i \in DOMAIN stored : ~stored[i].internal}
           kept == {i \in own : Cardinality({j \in own : j < i}) < lim}
           first == Ascending(kept)
<1>1. DOMAIN stored = 1 .. Len(stored) /\ Len(stored) \in Nat
  OBVIOUS
<1>2. IsFiniteSet(DOMAIN stored)
  BY <1>1, FS_Interval
<1>3. kept \in SUBSET DOMAIN stored
  OBVIOUS
<1>4. IsFiniteSet(kept)
  BY <1>2, <1>3, FS_Subset
<1>5. Fetched(lim) = [d \in DOMAIN first |-> stored[first[d]]]
  BY Zenon DEF Fetched, Select
<1>6. \A i \in kept : i \in DOMAIN stored /\ ~stored[i].internal
  OBVIOUS
<1> HIDE DEF kept
<1>7. first \in Bijection(1 .. Cardinality(kept), kept)
  BY <1>4, ArrangedIsBijection DEF Ascending
<1> HIDE DEF first
<1>8. first \in Seq(kept) /\ DOMAIN first = 1 .. Len(first) /\ Len(first) \in Nat
  BY <1>4, <1>7, BijectionIsSequence
<1>9. \A d \in DOMAIN first : first[d] \in kept
  BY <1>8
<1>10. \A d \in DOMAIN first : stored[first[d]] \in Event
  BY <1>6, <1>9
<1> QED
  BY <1>5, <1>6, <1>8, <1>9, <1>10
-----------------------------------------------------------------------------
(* The invariant.                                                          *)

\* In front, the view has the filters of the window.
InStep == tab = "events" => view.action = actionChoice /\ view.text = filterText

Widgets ==
  /\ tab \in {"events", "other"} /\ frozen \in BOOLEAN /\ limit \in Limits
  /\ filterText \in FilterTexts \cup {""} /\ actionChoice \in Actions \cup {""}
  /\ events \in 0 .. MaxEvents

\* The table is ordered by time, the newest row first.
Descending(rows) == \A i, j \in DOMAIN rows : i < j => rows[j].time < rows[i].time

TabInv ==
  /\ stored \in Seq(Event) /\ Descending(stored)
  /\ Widgets /\ Fits(TheTable) /\ InStep

LEMMA TabInvType == TabInv => EventsTabTypeOK
<1> SUFFICES ASSUME TabInv PROVE EventsTabTypeOK
  OBVIOUS
<1>1. TheTable \in Table /\ KeysFit(TheTable)
  BY DEF TabInv, Fits
<1>2. TheTable.model = model /\ TheTable.view = view /\ TheTable.cache = cache
      /\ TheTable.keyed = keyed
  BY DEF TheTable
<1>3. model \in Seq(Event) /\ view \in ViewRecord /\ cache \in CacheRecord
  BY <1>1, <1>2, Zenon DEF Table
<1>4. keyed \subseteq DOMAIN model
  BY <1>1, <1>2, Zenon DEF KeysFit
<1> QED
  BY <1>3, <1>4, Zenon DEF TabInv, Widgets, EventsTabTypeOK, ViewRecord, CacheRecord

LEMMA SetTheTable ==
  ASSUME NEW t \in Table, SetTable(t)
  PROVE  TheTable' = t
BY DEF SetTable, TheTable, Table

\* A refresh leaves a table that fits, with the filters of the window, and the
\* row selected that says what the selected one said.
LEMMA RefreshFits ==
  ASSUME TabInv, NEW lim, FullRefreshEvents(lim)
  PROVE  /\ Fits(TheTable') /\ TheTable'.view.action = actionChoice
         /\ TheTable'.view.text = filterText
         /\ TheTable'.model = Fetched(lim)
         /\ \A j \in Filtered(TheTable') :
              SelectedModelRow(view) # 0 /\ TheTable'.model[j] = model[SelectedModelRow(view)]
              => TheTable'.model[SelectedModelRow(TheTable'.view)] = TheTable'.model[j]
<1> DEFINE t0 == OnModelReset(TheTable, Fetched(lim))
           t1 == SetColumnFilter(t0, actionChoice)
           t2 == SetFilterText(t1, filterText)
           t3 == Reselected(t2, TheTable)
<1>1. /\ actionChoice \in Actions \cup {""} /\ filterText \in FilterTexts \cup {""}
      /\ TheTable \in Table /\ Fetched(lim) \in Seq(Event)
  BY FetchedAreStored DEF TabInv, Widgets, Fits
<1>2. Fits(t0) /\ t0.model = Fetched(lim)
  BY <1>1, OnModelResetFits
<1>3. SetTable(t3)
  BY Zenon DEF FullRefreshEvents, ApplyEventsFilter
<1> HIDE DEF t0
<1>4. Fits(t1) /\ t1.model = t0.model /\ t1.view.action = actionChoice
  BY <1>1, <1>2, SetColumnFilterFits DEF Fits
<1> HIDE DEF t1
<1>5. Fits(t2) /\ t2.model = t1.model /\ t2.view.action = t1.view.action
      /\ t2.view.text = filterText
  BY <1>1, <1>4, SetFilterTextFits DEF Fits
<1> HIDE DEF t2
<1>6. /\ Fits(t3) /\ Same(t2, t3)
      /\ \A j \in Filtered(t2) :
           SelectedModelRow(TheTable.view) # 0
           /\ t2.model[j] = TheTable.model[SelectedModelRow(TheTable.view)]
           => t2.model[SelectedModelRow(t3.view)] = t2.model[j]
  BY <1>5, ReselectedFits
<1>7. Filtered(t3) = Filtered(t2)
  BY <1>6, SameFilters
<1> HIDE DEF t3
<1>8. TheTable' = t3
  BY <1>3, <1>6, SetTheTable DEF Fits
<1>9. TheTable.view = view /\ TheTable.model = model
  BY DEF TheTable
<1> QED
  BY <1>2, <1>4, <1>5, <1>6, <1>7, <1>8, <1>9 DEF Same
LEMMA InitFits == EventsTabInit => TabInv
<1> SUFFICES ASSUME EventsTabInit PROVE TabInv
  OBVIOUS
<1> DEFINE v == [visible |-> <<>>, current |-> 0, sort |-> "none", ascending |-> TRUE,
                 text |-> "", action |-> ""]
           c == [column |-> "none", numeric |-> FALSE, keys |-> <<>>]
           t == [model |-> <<>>, view |-> v, cache |-> c, keyed |-> {}]
<1>1. TheTable = t
  BY Zenon DEF EventsTabInit, TheTable
<1>2. t \in Table
  <2>1. <<>> \in Seq(Event) /\ <<>> \in Seq(Nat) /\ <<>> \in Seq(Key)
    OBVIOUS
  <2>2. v \in ViewRecord
    BY <2>1 DEF ViewRecord
  <2>3. c \in CacheRecord
    BY <2>1, IsCacheRecord
  <2>4. {} \in SUBSET Nat
    OBVIOUS
  <2> HIDE DEF v, c
  <2> QED
    BY <2>1, <2>2, <2>3, <2>4, IsTable
<1>3. Filtered(t) = {}
  BY DEF Filtered
<1>4. Shows(t)
  <2>1. Cardinality({}) = 0
    BY FS_EmptySet
  <2>2. <<>> \in Bijection(1 .. 0, {})
    BY DEF Bijection, Injection, IsInjective, Surjection
  <2>3. t.view.visible = <<>> /\ t.view.current = 0
    OBVIOUS
  <2> HIDE DEF t
  <2> QED
    BY <1>3, <2>1, <2>2, <2>3 DEF Shows
<1>5. KeysFit(t)
  BY DEF KeysFit
<1>6. InOrder(t)
  BY DEF InOrder, Sorting
<1>7. Fits(TheTable)
  BY <1>1, <1>2, <1>4, <1>5, <1>6 DEF Fits
<1>8. Widgets
  <2>1. events = 0
    BY Zenon DEF EventsTabInit
  <2>2. events \in 0 .. MaxEvents
    BY <2>1, TabBoundsAssumption
  <2> QED
    BY <2>2, Zenon DEF EventsTabInit, Widgets
<1>9. InStep
  BY DEF EventsTabInit, InStep
<1>10. stored \in Seq(Event) /\ Descending(stored)
  <2>1. stored = <<>>
    BY Zenon DEF EventsTabInit
  <2>2. stored \in Seq(Event) /\ DOMAIN stored = {}
    BY <2>1
  <2> QED
    BY <2>2 DEF Descending
<1> QED
  BY <1>7, <1>8, <1>9, <1>10 DEF TabInv

LEMMA StoreKeepsOrder ==
  ASSUME TabInv, NEW a \in Actions, NEW d \in Dests, NEW internal \in BOOLEAN,
         Store(a, d, internal)
  PROVE  stored' \in Seq(Event) /\ Descending(stored')
<1> DEFINE t == IF stored = <<>> THEN 1 ELSE stored[1].time + 1
           e == [time |-> t, action |-> a, dest |-> d, internal |-> internal]
<1>1. stored \in Seq(Event) /\ Descending(stored)
  BY DEF TabInv
<1>2. stored' = <<e>> \o stored /\ stored'[1].time <= MaxRows
  BY DEF Store
<1>3. stored # <<>> => 1 \in DOMAIN stored /\ stored[1] \in Event /\ stored[1].time \in 1 .. MaxRows
  <2> SUFFICES ASSUME stored # <<>> PROVE 1 \in DOMAIN stored /\ stored[1] \in Event
    BY DEF Event
  <2> QED
    BY <1>1
<1>4. t \in Nat /\ t >= 1
  BY <1>3, TabBoundsAssumption
<1>5. stored'[1] = e /\ e.time = t
  BY <1>1, <1>2
<1>6. e \in Event
  BY <1>2, <1>4, <1>5, TabBoundsAssumption DEF Event
<1>7. stored' \in Seq(Event)
  BY <1>1, <1>2, <1>6
<1>8. Len(stored') = Len(stored) + 1 /\ Len(stored) \in Nat
      /\ \A i \in 1 .. Len(stored) : stored'[i + 1] = stored[i]
  BY <1>1, <1>2
<1> HIDE DEF e
<1>9. ASSUME NEW i \in DOMAIN stored', NEW j \in DOMAIN stored', i < j
      PROVE  stored'[j].time < stored'[i].time
  <2>1. i \in 1 .. Len(stored) + 1 /\ j \in 2 .. Len(stored) + 1
    BY <1>7, <1>8, <1>9
  <2>2. j - 1 \in DOMAIN stored /\ stored'[j] = stored[j - 1]
    BY <1>1, <1>8, <2>1
  <2>3. CASE i = 1
    <3>1. stored[j - 1] \in Event /\ stored # <<>>
      BY <1>1, <2>2
    <3>2. stored[j - 1].time <= stored[1].time
      BY <1>1, <1>3, <2>2, <3>1 DEF Descending, Event
    <3>3. stored[j - 1].time \in Nat /\ stored[1].time \in Nat
      BY <1>3, <3>1, TabBoundsAssumption DEF Event
    <3>4. t = stored[1].time + 1
      BY <3>1
    <3> QED
      BY <1>5, <2>2, <2>3, <3>2, <3>3, <3>4
  <2>4. CASE i > 1
    <3>1. i - 1 \in DOMAIN stored /\ stored'[i] = stored[i - 1] /\ i - 1 < j - 1
      BY <1>1, <1>8, <1>9, <2>1, <2>4
    <3> QED
      BY <1>1, <2>2, <3>1 DEF Descending
  <2> QED
    BY <2>1, <2>3, <2>4
<1> QED
  BY <1>7, <1>9 DEF Descending

LEMMA PurgeKeepsOrder ==
  ASSUME TabInv, Purge
  PROVE  stored' \in Seq(Event) /\ Descending(stored')
<1>1. stored \in Seq(Event) /\ Descending(stored)
  BY DEF TabInv
<1>2. stored' = SubSeq(stored, 1, Len(stored) - 1) /\ stored # <<>>
  BY DEF Purge, Front
<1>3. Len(stored) \in Nat /\ Len(stored) >= 1
  BY <1>1, <1>2
<1>4. stored' \in Seq(Event) /\ Len(stored') = Len(stored) - 1
      /\ \A i \in 1 .. Len(stored) - 1 : stored'[i] = stored[i]
  <2> DEFINE n == Len(stored) - 1
  <2>1. n \in Nat /\ n < Len(stored)
    BY <1>3
  <2>2. \A k \in 1 .. n : stored[k] \in Event
    BY <1>1, <2>1
  <2>3. /\ SubSeq(stored, 1, n) \in Seq(Event) /\ Len(SubSeq(stored, 1, n)) = n
        /\ \A k \in 1 .. n : SubSeq(stored, 1, n)[k] = stored[k]
    <3> HIDE DEF n
    <3>1. 1 \in Int /\ n \in Int /\ n - 1 + 1 = n /\ (1 <= n \/ n = 0)
      BY <2>1
    <3>2. \A k \in 1 .. n : 1 + k - 1 = k
      BY <3>1
    <3> QED
      BY <2>2, <3>1, <3>2, SubSeqProperties
  <2> QED
    BY <1>2, <2>3
<1>5. DOMAIN stored' = 1 .. Len(stored) - 1 /\ DOMAIN stored = 1 .. Len(stored)
  BY <1>1, <1>4
<1>6. DOMAIN stored' \subseteq DOMAIN stored
  BY <1>3, <1>5
<1> QED
  BY <1>1, <1>4, <1>5, <1>6 DEF Descending

LEMMA StepWidgets ==
  ASSUME TabInv, Step
  PROVE  events' \in 0 .. MaxEvents
<1>1. events \in 0 .. MaxEvents
  BY DEF TabInv, Widgets
<1> QED
  BY <1>1, TabBoundsAssumption DEF Step

\* A refresh keeps the invariant if what it reads of the window stays.
LEMMA RefreshKeeps ==
  ASSUME TabInv, NEW lim, FullRefreshEvents(lim),
         UNCHANGED <<filterText, actionChoice>>
  PROVE  Fits(TheTable') /\ InStep'
<1>1. Fits(TheTable') /\ TheTable'.view.action = actionChoice
      /\ TheTable'.view.text = filterText
  BY RefreshFits
<1>2. TheTable'.view = view'
  BY DEF TheTable
<1> QED
  BY <1>1, <1>2 DEF InStep

LEMMA AloneKeeps ==
  ASSUME TabInv, UNCHANGED table
  PROVE  Fits(TheTable')
<1>1. TheTable' = TheTable
  BY DEF table, TheTable
<1> QED
  BY <1>1 DEF TabInv

LEMMA NextKeeps == TabInv /\ [EventsTabNext]_eventsTabVars => TabInv'
<1> SUFFICES ASSUME TabInv, [EventsTabNext]_eventsTabVars PROVE TabInv'
  OBVIOUS
<1>0. stored \in Seq(Event) /\ Descending(stored) /\ Widgets /\ Fits(TheTable) /\ InStep
  BY DEF TabInv
<1> DEFINE Kept == stored' \in Seq(Event) /\ Descending(stored')
                   /\ Widgets' /\ Fits(TheTable') /\ InStep'
<1>1. SUFFICES Kept
  BY DEF TabInv
<1>2. UNCHANGED stored => stored' \in Seq(Event) /\ Descending(stored')
  BY <1>0
<1>3. Step => events' \in 0 .. MaxEvents
  BY StepWidgets
<1>4. TheTable.view = view /\ TheTable'.view = view'
  BY DEF TheTable
<1>5. TheTable \in Table /\ KeysFit(TheTable)
  BY <1>0 DEF Fits
<1>6. ASSUME UNCHANGED <<table, widgets>>, events' \in 0 .. MaxEvents
      PROVE  Widgets' /\ Fits(TheTable') /\ InStep'
  <2>1. Fits(TheTable')
    BY <1>6, AloneKeeps DEF table
  <2>2. Widgets'
    BY <1>0, <1>6 DEF Widgets, widgets
  <2>3. InStep'
    BY <1>0, <1>6 DEF InStep, widgets, table
  <2> QED
    BY <2>1, <2>2, <2>3
<1>7. CASE UNCHANGED eventsTabVars
  <2>1. UNCHANGED <<table, widgets>> /\ UNCHANGED stored /\ events' = events
    BY <1>7 DEF eventsTabVars
  <2>2. events' \in 0 .. MaxEvents
    BY <1>0, <2>1 DEF Widgets
  <2> QED
    BY <1>2, <1>6, <2>1, <2>2
<1>8. ASSUME NEW a \in Actions, NEW d \in Dests, NEW internal \in BOOLEAN,
             Store(a, d, internal)
      PROVE  Kept
  <2>1. UNCHANGED <<table, widgets>> /\ Step
    BY <1>8 DEF Store
  <2> QED
    BY <1>3, <1>6, <1>8, <2>1, StoreKeepsOrder
<1>9. CASE Purge
  <2>1. UNCHANGED <<table, widgets>> /\ Step
    BY <1>9 DEF Purge
  <2> QED
    BY <1>3, <1>6, <1>9, <2>1, PurgeKeepsOrder
<1>10. CASE OnStatsUpdated
  <2>1. FullRefreshEvents(limit) /\ UNCHANGED <<stored, widgets>> /\ Step
    BY <1>10 DEF OnStatsUpdated
  <2>2. Fits(TheTable') /\ InStep'
    BY <2>1, RefreshKeeps DEF widgets
  <2>3. Widgets'
    BY <1>0, <1>3, <2>1 DEF Widgets, widgets
  <2> QED
    BY <1>2, <2>1, <2>2, <2>3
<1>11. ASSUME NEW to \in {"events", "other"}, OnTabChanged(to)
       PROVE  Kept
  <2>1. /\ tab' = to /\ UNCHANGED <<stored, filterText, actionChoice, limit, frozen>> /\ Step
        /\ to = "events" => FullRefreshEvents(limit)
        /\ to # "events" => UNCHANGED table
    BY <1>11 DEF OnTabChanged
  <2>2. Widgets'
    BY <1>0, <1>3, <2>1 DEF Widgets
  <2>3. CASE to = "events"
    BY <1>2, <2>1, <2>2, <2>3, RefreshKeeps
  <2>4. CASE to # "events"
    <3>1. Fits(TheTable')
      BY <2>1, <2>4, AloneKeeps
    <3>2. InStep'
      BY <2>1, <2>4 DEF InStep
    <3> QED
      BY <1>2, <2>1, <2>2, <3>1, <3>2
  <2> QED
    BY <2>3, <2>4
<1>12. ASSUME NEW lim \in Limits, OnLimitComboChanged(lim)
       PROVE  Kept
  <2>1. /\ limit' = lim /\ UNCHANGED <<stored, tab, filterText, actionChoice, frozen>> /\ Step
        /\ tab = "events" => FullRefreshEvents(lim)
        /\ tab # "events" => UNCHANGED table
    BY <1>12 DEF OnLimitComboChanged
  <2>2. Widgets'
    BY <1>0, <1>3, <2>1 DEF Widgets
  <2>3. CASE tab = "events"
    BY <1>2, <2>1, <2>2, <2>3, RefreshKeeps
  <2>4. CASE tab # "events"
    <3>1. Fits(TheTable')
      BY <2>1, <2>4, AloneKeeps
    <3>2. InStep'
      BY <2>1, <2>4 DEF InStep
    <3> QED
      BY <1>2, <2>1, <2>2, <3>1, <3>2
  <2> QED
    BY <2>3, <2>4
<1>13. CASE OnFreezeLogsToggled
  <2>1. /\ frozen' = ~frozen /\ Step
        /\ UNCHANGED <<stored, tab, filterText, actionChoice, limit>>
        /\ frozen => FullRefreshEvents(limit)
        /\ ~frozen => UNCHANGED table
    BY <1>13 DEF OnFreezeLogsToggled
  <2>2. Widgets'
    BY <1>0, <1>3, <2>1 DEF Widgets
  <2>3. CASE frozen
    BY <1>2, <2>1, <2>2, <2>3, RefreshKeeps
  <2>4. CASE ~frozen
    <3>1. Fits(TheTable')
      BY <2>1, <2>4, AloneKeeps
    <3>2. view' = view
      BY <2>1, <2>4 DEF table
    <3>3. InStep'
      BY <1>0, <2>1, <3>2 DEF InStep
    <3> QED
      BY <1>2, <2>1, <2>2, <3>1, <3>3
  <2> QED
    BY <2>3, <2>4
<1>14. ASSUME NEW x \in FilterTexts \cup {""}, OnFilterTextChanged(x)
       PROVE  Kept
  <2>1. /\ filterText' = x /\ UNCHANGED <<stored, tab, actionChoice, limit, frozen>> /\ Step
        /\ tab = "events" => SetTable(SetFilterText(TheTable, x))
        /\ tab # "events" => UNCHANGED table
    BY <1>14 DEF OnFilterTextChanged
  <2>2. Widgets'
    BY <1>0, <1>3, <2>1 DEF Widgets
  <2>3. CASE tab = "events"
    <3>1. Fits(SetFilterText(TheTable, x))
          /\ SetFilterText(TheTable, x).view.text = x
          /\ SetFilterText(TheTable, x).view.action = TheTable.view.action
      BY <1>5, SetFilterTextFits
    <3>2. TheTable' = SetFilterText(TheTable, x)
      BY <2>1, <2>3, <3>1, SetTheTable DEF Fits
    <3>3. view'.text = x /\ view'.action = view.action
      BY <1>4, <3>1, <3>2
    <3>4. InStep'
      BY <1>0, <2>1, <2>3, <3>3 DEF InStep
    <3> QED
      BY <1>2, <2>1, <2>2, <3>1, <3>2, <3>4
  <2>4. CASE tab # "events"
    <3>1. Fits(TheTable')
      BY <2>1, <2>4, AloneKeeps
    <3>2. InStep'
      BY <2>1, <2>4 DEF InStep
    <3> QED
      BY <1>2, <2>1, <2>2, <3>1, <3>2
  <2> QED
    BY <2>3, <2>4
<1>15. ASSUME NEW a \in Actions \cup {""}, OnActionComboChanged(a)
       PROVE  Kept
  <2>1. /\ actionChoice' = a /\ UNCHANGED <<stored, tab, filterText, limit, frozen>> /\ Step
        /\ SetTable(SetColumnFilter(TheTable, a)) /\ tab = "events"
    BY <1>15 DEF OnActionComboChanged
  <2>2. Widgets'
    BY <1>0, <1>3, <2>1 DEF Widgets
  <2>3. Fits(SetColumnFilter(TheTable, a))
        /\ SetColumnFilter(TheTable, a).view.action = a
        /\ SetColumnFilter(TheTable, a).view.text = TheTable.view.text
    BY <1>5, SetColumnFilterFits
  <2>4. TheTable' = SetColumnFilter(TheTable, a)
    BY <2>1, <2>3, SetTheTable DEF Fits
  <2>5. view'.action = a /\ view'.text = view.text
    BY <1>4, <2>3, <2>4
  <2>6. InStep'
    BY <1>0, <2>1, <2>5 DEF InStep
  <2> QED
    BY <1>2, <2>1, <2>2, <2>3, <2>4, <2>6
<1>16. ASSUME NEW column \in Columns, ClickHeader(column)
       PROVE  Kept
  <2>1. /\ UNCHANGED <<stored, widgets>> /\ Step /\ tab = "events"
        /\ SetTable(OnHeaderClicked(TheTable, column))
    BY <1>16 DEF ClickHeader
  <2>2. Widgets'
    BY <1>0, <1>3, <2>1 DEF Widgets, widgets
  <2>3. Fits(OnHeaderClicked(TheTable, column))
        /\ OnHeaderClicked(TheTable, column).view.action = TheTable.view.action
        /\ OnHeaderClicked(TheTable, column).view.text = TheTable.view.text
    BY <1>5, OnHeaderClickedFits
  <2>4. TheTable' = OnHeaderClicked(TheTable, column)
    BY <2>1, <2>3, SetTheTable DEF Fits
  <2>5. view'.action = view.action /\ view'.text = view.text
    BY <1>4, <2>3, <2>4
  <2>6. InStep'
    BY <1>0, <2>1, <2>5 DEF InStep, widgets
  <2> QED
    BY <1>2, <2>1, <2>2, <2>3, <2>4, <2>6
<1>17. ASSUME NEW d \in DOMAIN view.visible, ClickRow(d)
       PROVE  Kept
  <2>1. /\ UNCHANGED <<stored, widgets>> /\ Step
        /\ SetTable([TheTable EXCEPT !.view.current = d])
    BY <1>17 DEF ClickRow
  <2>2. Widgets'
    BY <1>0, <1>3, <2>1 DEF Widgets, widgets
  <2>3. d \in 0 .. Len(TheTable.view.visible)
    BY <1>0, <1>4, ShownRows
  <2>4. Fits(Moved(TheTable, d)) /\ Same(TheTable, Moved(TheTable, d))
    BY <1>0, <2>3, MovedFits
  <2>5. SetTable(Moved(TheTable, d))
    BY <2>1 DEF Moved
  <2>6. TheTable' = Moved(TheTable, d)
    BY <2>4, <2>5, SetTheTable DEF Fits
  <2>7. view'.action = view.action /\ view'.text = view.text
    BY <1>4, <2>4, <2>6 DEF Same
  <2>8. InStep'
    BY <1>0, <2>1, <2>7 DEF InStep, widgets
  <2> QED
    BY <1>2, <2>1, <2>2, <2>4, <2>6, <2>8
<1> QED
  BY <1>7, <1>8, <1>9, <1>10, <1>11, <1>12, <1>13, <1>14, <1>15, <1>16, <1>17
     DEF EventsTabNext
-----------------------------------------------------------------------------
(* The theorems.                                                           *)

\* What the invariant says of the screen.
LEMMA TabInvSafe == TabInv => EventsTabSafe
<1> SUFFICES ASSUME TabInv PROVE EventsTabSafe
  OBVIOUS
<1>1. Fits(TheTable) /\ InStep
  BY DEF TabInv
<1>2. TheTable.view = view /\ TheTable.model = model
  BY DEF TheTable
<1>3. /\ view.visible \in Seq(Nat) /\ view.current \in 0 .. Len(view.visible)
      /\ ToSet(view.visible) = Filtered(TheTable)
      /\ Len(view.visible) = Cardinality(Filtered(TheTable))
      /\ Filtered(TheTable) \subseteq DOMAIN model
  BY <1>1, <1>2, ShownRows
<1>4. ShownAreMatching
  <2> SUFFICES ASSUME tab = "events" PROVE
        ToSet(view.visible) = {i \in DOMAIN model : Matching(model[i], actionChoice, filterText)}
    BY <1>3 DEF ShownAreMatching
  <2>1. view.action = actionChoice /\ view.text = filterText
    BY <1>1 DEF InStep
  <2> QED
    BY <1>2, <1>3, <2>1 DEF Filtered
<1>5. view.current <= Len(view.visible)
  BY <1>3
<1>6. ToSet(view.visible) \subseteq DOMAIN model
  BY <1>3
<1> QED
  BY <1>4, <1>5, <1>6, TabInvType, Zenon DEF EventsTabSafe

LEMMA TabInvariant == EventsTabSpec => []TabInv
BY InitFits, NextKeeps, PTL DEF EventsTabSpec

\* The events tab shows exactly the rows that match its filters, each once, and
\* selects one of them (tqtmvctableview.cpp, main_window.cpp), for any texts,
\* limits, orders and numbers of rows, and whatever std::stable_sort() makes of a
\* comparator that is not consistent.
THEOREM TableIsRight == EventsTabSpec => []EventsTabSafe
BY TabInvariant, TabInvSafe, PTL

LEMMA NextKeepsSelection ==
  TabInv /\ TabInv' /\ [EventsTabNext]_eventsTabVars =>
    (model' # model /\ view.current # 0 =>
       LET chosen == model[SelectedModelRow(view)]
       IN (\E i \in ToSet(view'.visible) : model'[i] = chosen) =>
            model'[SelectedModelRow(view')] = chosen)
<1> SUFFICES ASSUME TabInv, TabInv', [EventsTabNext]_eventsTabVars, model' # model,
                    view.current # 0,
                    NEW i \in ToSet(view'.visible), model'[i] = model[SelectedModelRow(view)]
             PROVE  model'[SelectedModelRow(view')] = model[SelectedModelRow(view)]
  BY Zenon
<1>1. /\ TheTable.view = view /\ TheTable.model = model
      /\ TheTable'.view = view' /\ TheTable'.model = model'
  BY DEF TheTable
<1>2. Fits(TheTable) /\ Fits(TheTable') /\ TheTable \in Table /\ KeysFit(TheTable)
  BY DEF TabInv, Fits
<1>3. SelectedModelRow(view) # 0
  <2>1. /\ view.visible \in Seq(Nat) /\ view.current \in 0 .. Len(view.visible)
        /\ ToSet(view.visible) \subseteq DOMAIN model
    BY <1>1, <1>2, ShownRows
  <2>2. view.current \in DOMAIN view.visible
    BY <2>1
  <2>3. view.visible[view.current] \in DOMAIN model
    BY <2>1, <2>2 DEF ToSet
  <2>4. 0 \notin DOMAIN model
    <3>1. model \in Seq(Event)
      BY <1>1, <1>2 DEF Table
    <3> QED
      BY <3>1
  <2> QED
    BY <2>3, <2>4 DEF SelectedModelRow
<1>4. i \in Filtered(TheTable')
  BY <1>1, <1>2, ShownRows
<1>5. ASSUME NEW lim, FullRefreshEvents(lim)
      PROVE  model'[SelectedModelRow(view')] = model[SelectedModelRow(view)]
  <2>1. \A j \in Filtered(TheTable') :
          SelectedModelRow(view) # 0 /\ TheTable'.model[j] = model[SelectedModelRow(view)]
          => TheTable'.model[SelectedModelRow(TheTable'.view)] = TheTable'.model[j]
    BY <1>5, RefreshFits
  <2> QED
    BY <1>1, <1>3, <1>4, <2>1
<1>6. ASSUME NEW t, t \in Table, SetTable(t), t.model = model PROVE FALSE
  <2>1. TheTable' = t
    BY <1>6, SetTheTable
  <2> QED
    BY <1>1, <1>6, <2>1
<1>7. UNCHANGED table => FALSE
  BY DEF table
<1>8. CASE UNCHANGED eventsTabVars
  BY <1>7, <1>8 DEF eventsTabVars
<1>9. ASSUME NEW a \in Actions, NEW d \in Dests, NEW internal \in BOOLEAN,
             Store(a, d, internal)
      PROVE  FALSE
  BY <1>7, <1>9 DEF Store
<1>10. CASE Purge
  BY <1>7, <1>10 DEF Purge
<1>11. CASE OnStatsUpdated
  BY <1>5, <1>11 DEF OnStatsUpdated
<1>12. ASSUME NEW to \in {"events", "other"}, OnTabChanged(to)
       PROVE  model'[SelectedModelRow(view')] = model[SelectedModelRow(view)]
  BY <1>5, <1>7, <1>12 DEF OnTabChanged
<1>13. ASSUME NEW lim \in Limits, OnLimitComboChanged(lim)
       PROVE  model'[SelectedModelRow(view')] = model[SelectedModelRow(view)]
  BY <1>5, <1>7, <1>13 DEF OnLimitComboChanged
<1>14. CASE OnFreezeLogsToggled
  BY <1>5, <1>7, <1>14 DEF OnFreezeLogsToggled
<1>15. ASSUME NEW x \in FilterTexts \cup {""}, OnFilterTextChanged(x)
       PROVE  FALSE
  <2>1. SetTable(SetFilterText(TheTable, x))
    BY <1>7, <1>15 DEF OnFilterTextChanged
  <2>2. SetFilterText(TheTable, x) \in Table /\ SetFilterText(TheTable, x).model = model
    BY <1>1, <1>2, SetFilterTextFits DEF Fits
  <2> QED
    BY <1>6, <2>1, <2>2
<1>16. ASSUME NEW a \in Actions \cup {""}, OnActionComboChanged(a)
       PROVE  FALSE
  <2>1. SetTable(SetColumnFilter(TheTable, a))
    BY <1>16 DEF OnActionComboChanged
  <2>2. SetColumnFilter(TheTable, a) \in Table /\ SetColumnFilter(TheTable, a).model = model
    BY <1>1, <1>2, SetColumnFilterFits DEF Fits
  <2> QED
    BY <1>6, <2>1, <2>2
<1>17. ASSUME NEW column \in Columns, ClickHeader(column)
       PROVE  FALSE
  <2>1. SetTable(OnHeaderClicked(TheTable, column))
    BY <1>17 DEF ClickHeader
  <2>2. OnHeaderClicked(TheTable, column) \in Table
        /\ OnHeaderClicked(TheTable, column).model = model
    BY <1>1, <1>2, OnHeaderClickedFits DEF Fits
  <2> QED
    BY <1>6, <2>1, <2>2
<1>18. ASSUME NEW d \in DOMAIN view.visible, ClickRow(d)
       PROVE  FALSE
  <2>1. SetTable(Moved(TheTable, d))
    BY <1>18 DEF ClickRow, Moved
  <2>2. d \in 0 .. Len(TheTable.view.visible)
    BY <1>1, <1>2, ShownRows
  <2>3. Moved(TheTable, d) \in Table /\ Moved(TheTable, d).model = model
    BY <1>1, <1>2, <2>2, MovedFits DEF Fits, Same
  <2> QED
    BY <1>6, <2>1, <2>3
<1> QED
  BY <1>8, <1>9, <1>10, <1>11, <1>12, <1>13, <1>14, <1>15, <1>16, <1>17, <1>18
     DEF EventsTabNext

\* A refresh with new rows above, old ones gone, other filters or an order of the
\* user's keeps the selected event selected if it is still shown
\* (fullRefreshEvents(), main_window.cpp), however many events look the same.
THEOREM SelectionStays == EventsTabSpec => SelectionKept
<1>1. TabInv /\ TabInv' /\ [EventsTabNext]_eventsTabVars =>
        [model' # model /\ view.current # 0 =>
           LET chosen == model[SelectedModelRow(view)]
           IN (\E i \in ToSet(view'.visible) : model'[i] = chosen) =>
                model'[SelectedModelRow(view')] = chosen]_eventsTabVars
  BY NextKeepsSelection
<1> QED
  BY <1>1, TabInvariant, PTL DEF EventsTabSpec, SelectionKept
-----------------------------------------------------------------------------
(* The order.                                                              *)

\* A strict weak ordering with ties broken by number is a strict total order.
LEMMA TiesBroken ==
  ASSUME NEW S \in SUBSET Nat, NEW L,
         \A x, y \in S : <<x, y>> \in L => <<y, x>> \notin L,
         \A x, y, z \in S : <<x, y>> \notin L /\ <<y, z>> \notin L => <<x, z>> \notin L
  PROVE  StrictlyOrders({p \in S \X S : p \in L \/ (<<p[2], p[1]>> \notin L /\ p[1] < p[2])}, S)
<1> DEFINE R == {p \in S \X S : p \in L \/ (<<p[2], p[1]>> \notin L /\ p[1] < p[2])}
<1>1. \A x, y \in S : <<x, y>> \in R <=>
        <<x, y>> \in L \/ (<<y, x>> \notin L /\ x < y)
  OBVIOUS
<1> HIDE DEF R
<1>2. \A x, y \in S : <<x, y>> \in R => <<y, x>> \notin L
  BY <1>1
<1>3. ASSUME NEW x \in S, NEW y \in S, <<x, y>> \in R PROVE <<y, x>> \notin R
  BY <1>1, <1>3
<1>4. ASSUME NEW x \in S, NEW y \in S, NEW z \in S, <<x, y>> \in R, <<y, z>> \in R
      PROVE  <<x, z>> \in R
  <2>1. <<z, x>> \notin L
    BY <1>2, <1>4
  <2>2. CASE <<x, y>> \in L \/ <<y, z>> \in L
    <3>1. <<x, z>> \in L
      BY <1>2, <1>4, <2>2
    <3> QED
      BY <1>1, <3>1
  <2>3. CASE x < y /\ y < z
    <3>1. x < z
      BY <2>3
    <3> QED
      BY <1>1, <2>1, <3>1
  <2> QED
    BY <1>1, <1>4, <2>2, <2>3
<1>5. ASSUME NEW x \in S, NEW y \in S, x # y PROVE <<x, y>> \in R \/ <<y, x>> \in R
  <2>1. x < y \/ y < x
    BY <1>5
  <2> QED
    BY <1>1, <2>1
<1> QED
  BY <1>3, <1>4, <1>5 DEF StrictlyOrders, R

\* How rows compare by one column.
RowBelow(a, b, column) ==
  IF column = "time" THEN a.time < b.time ELSE Below(a.dest, b.dest)

LEMMA RowsCompare ==
  ASSUME Consistent, NEW column \in Columns
  PROVE  /\ \A a, b \in Event : RowBelow(a, b, column) => ~RowBelow(b, a, column)
         /\ \A a, b, c \in Event : ~RowBelow(a, b, column) /\ ~RowBelow(b, c, column)
                                   => ~RowBelow(a, c, column)
<1>1. \A a \in Event : a.time \in Nat /\ a.dest \in Dests
  BY TabBoundsAssumption DEF Event
<1>2. \A d \in Dests : Number[d] \in Nat /\ Collation[d] \in Nat
  BY TextsAssumption
<1>3. \A d, e \in Dests : Below(d, e) => ~Below(e, d)
  BY <1>2 DEF Below
<1>4. CASE column = "time"
  BY <1>1, <1>4 DEF RowBelow
<1>5. CASE column = "dest"
  <2>1. \A a, b \in Event : RowBelow(a, b, column) <=> Below(a.dest, b.dest)
    BY <1>5 DEF RowBelow
  <2>2. \A a, b, c \in Event : ~Below(a.dest, b.dest) /\ ~Below(b.dest, c.dest)
                               => ~Below(a.dest, c.dest)
    BY <1>1 DEF Consistent
  <2> QED
    BY <1>1, <1>3, <2>1, <2>2
<1> QED
  BY <1>4, <1>5 DEF Columns

\* The key of a row, and what the cache says of all keys.
Taken(c, a, row, column) ==
  c.keys[a] = KeyOf(row, column) /\ (c.numeric => c.keys[a].isNumber)

Comparison(p, q, column, up) ==
  IF up THEN RowBelow(p, q, column) ELSE RowBelow(q, p, column)

\* Keys that were taken compare as their rows do.
LEMMA KeysCompare ==
  ASSUME NEW c \in CacheRecord, NEW column \in Columns, NEW p \in Event, NEW q \in Event,
         NEW a, NEW b, NEW up \in BOOLEAN,
         Taken(c, a, p, column), Taken(c, b, q, column)
  PROVE  Less(c, up, a, b) <=> Comparison(p, q, column, up)
<1>1. CASE column = "time"
  <2>1. /\ c.keys[a].isNumber = FALSE /\ c.keys[b].isNumber = FALSE
        /\ c.keys[a].place = p.time /\ c.keys[b].place = q.time
    BY <1>1 DEF KeyOf, Taken
  <2>2. ~c.numeric
    BY <2>1 DEF Taken
  <2> QED
    BY <1>1, <2>1, <2>2 DEF Less, RowBelow, Comparison
<1>2. CASE column = "dest"
  <2>1. /\ c.keys[a].isNumber = (p.dest \in Numeric)
        /\ c.keys[b].isNumber = (q.dest \in Numeric)
        /\ c.keys[a].place = Collation[p.dest] /\ c.keys[b].place = Collation[q.dest]
        /\ c.keys[a].number = Number[p.dest] /\ c.keys[b].number = Number[q.dest]
    BY <1>2 DEF KeyOf, Taken
  <2>2. c.numeric \/ (c.keys[a].isNumber /\ c.keys[b].isNumber)
          <=> p.dest \in Numeric /\ q.dest \in Numeric
    BY <2>1 DEF Taken
  <2>3. /\ RowBelow(p, q, column) <=> Below(p.dest, q.dest)
        /\ RowBelow(q, p, column) <=> Below(q.dest, p.dest)
    BY <1>2 DEF RowBelow
  <2>4. CASE p.dest \in Numeric /\ q.dest \in Numeric
    BY <2>1, <2>2, <2>3, <2>4 DEF Less, Below, Comparison
  <2>5. CASE ~(p.dest \in Numeric /\ q.dest \in Numeric)
    BY <2>1, <2>2, <2>3, <2>5 DEF Less, Below, Comparison
  <2> QED
    BY <2>4, <2>5
<1> QED
  BY <1>1, <1>2 DEF Columns

\* What the rows of a column look like next to each other.
InOrderBy(a, b, column) ==
  LET x == KeyOf(a, column)
      y == KeyOf(b, column)
  IN IF x.isNumber /\ y.isNumber THEN x.number <= y.number ELSE x.place <= y.place

LEMMA NotBelow ==
  ASSUME NEW a \in Event, NEW b \in Event, NEW column \in Columns, ~RowBelow(b, a, column)
  PROVE  InOrderBy(a, b, column)
<1>1. /\ a.time \in Nat /\ b.time \in Nat /\ a.dest \in Dests /\ b.dest \in Dests
  BY TabBoundsAssumption DEF Event
<1>2. /\ Number[a.dest] \in Nat /\ Number[b.dest] \in Nat
      /\ Collation[a.dest] \in Nat /\ Collation[b.dest] \in Nat
  BY <1>1, TextsAssumption
<1>3. CASE column = "time"
  BY <1>1, <1>3 DEF RowBelow, InOrderBy, KeyOf
<1>4. CASE column = "dest"
  <2> DEFINE x == KeyOf(a, column)
             y == KeyOf(b, column)
  <2>0. x.isNumber /\ y.isNumber <=> a.dest \in Numeric /\ b.dest \in Numeric
    BY <1>4 DEF KeyOf
  <2>1. /\ x.place = Collation[a.dest] /\ y.place = Collation[b.dest]
        /\ x.number = Number[a.dest] /\ y.number = Number[b.dest]
    BY <1>4 DEF KeyOf
  <2>2. InOrderBy(a, b, column) <=>
          IF x.isNumber /\ y.isNumber THEN x.number <= y.number ELSE x.place <= y.place
    BY DEF InOrderBy
  <2>3. ~Below(b.dest, a.dest)
    BY <1>4 DEF RowBelow
  <2> HIDE DEF x, y
  <2>4. CASE a.dest \in Numeric /\ b.dest \in Numeric
    <3>1. ~(Number[b.dest] < Number[a.dest])
      BY <2>3, <2>4 DEF Below
    <3>2. Number[a.dest] <= Number[b.dest]
      BY <1>2, <3>1
    <3>3. InOrderBy(a, b, column) <=> x.number <= y.number
      BY <2>0, <2>2, <2>4
    <3> QED
      BY <2>1, <3>2, <3>3
  <2>5. CASE ~(a.dest \in Numeric /\ b.dest \in Numeric)
    <3>1. ~(Collation[b.dest] < Collation[a.dest])
      BY <2>3, <2>5 DEF Below
    <3>2. Collation[a.dest] <= Collation[b.dest]
      BY <1>2, <3>1
    <3>3. InOrderBy(a, b, column) <=> x.place <= y.place
      BY <2>0, <2>2, <2>5
    <3> QED
      BY <2>1, <3>2, <3>3
  <2> QED
    BY <2>4, <2>5
<1> QED
  BY <1>3, <1>4 DEF Columns
\* Where the keys of the rows shown are known, they are sorted by their rows.
LEMMA SortedRows ==
  ASSUME Consistent, NEW t, Fits(t), t.view.sort # "none",
         Filtered(t) \subseteq t.keyed,
         NEW d \in 1 .. Len(t.view.visible) - 1
  PROVE  LET a == t.model[t.view.visible[d]]
             b == t.model[t.view.visible[d + 1]]
         IN IF t.view.ascending THEN InOrderBy(a, b, t.view.sort)
                                ELSE InOrderBy(b, a, t.view.sort)
<1> DEFINE F == Filtered(t)
           c == t.cache
           column == t.view.sort
           up == t.view.ascending
           v == t.view.visible
           L == {p \in F \X F : Less(c, up, p[1], p[2])}
           R == {p \in F \X F : p \in L \/ (<<p[2], p[1]>> \notin L /\ p[1] < p[2])}
<1>1. /\ t \in Table /\ t.model \in Seq(Event) /\ c \in CacheRecord /\ column \in Columns
      /\ up \in BOOLEAN
  BY DEF Fits, Table, ViewRecord
<1>2. /\ v \in Seq(Nat) /\ ToSet(v) = F /\ Len(v) = Cardinality(F)
      /\ F \subseteq DOMAIN t.model
  BY ShownRows
<1>3. IsFiniteSet(F) /\ F \in SUBSET Nat /\ Cardinality(F) \in Nat
  BY <1>1, FilteredIsFinite
<1>4. d \in DOMAIN v /\ d + 1 \in DOMAIN v /\ v[d] \in F /\ v[d + 1] \in F
  <2>1. d \in DOMAIN v /\ d + 1 \in DOMAIN v
    BY <1>2
  <2> QED
    BY <1>2, <2>1 DEF ToSet
<1>5. Sorting(t)
  BY <1>2, <1>3 DEF Sorting
<1>6. c.column = column /\ v = Sorted(c, up, F)
  BY <1>5 DEF Fits, InOrder
<1>7. \A i \in F : /\ t.model[i] \in Event
                   /\ c.keys[i] = KeyOf(t.model[i], column)
                   /\ c.numeric => c.keys[i].isNumber
  BY <1>1, <1>2, <1>6 DEF Fits, KeysFit
<1> HIDE DEF F, c, column, up, v
<1>8. ASSUME NEW i \in F, NEW j \in F
      PROVE  Less(c, up, i, j) <=> Comparison(t.model[i], t.model[j], column, up)
  <2>1. t.model[i] \in Event /\ t.model[j] \in Event
    BY <1>7
  <2>2. Taken(c, i, t.model[i], column) /\ Taken(c, j, t.model[j], column)
    BY <1>7 DEF Taken
  <2> QED
    BY <1>1, <2>1, <2>2, KeysCompare
<1>9. \A i, j \in F : <<i, j>> \in L <=> Less(c, up, i, j)
  OBVIOUS
<1> HIDE DEF L
<1>10. \A x, y \in F : <<x, y>> \in L => <<y, x>> \notin L
  BY <1>1, <1>7, <1>8, <1>9, RowsCompare DEF Comparison
<1>11. \A x, y, z \in F : <<x, y>> \notin L /\ <<y, z>> \notin L => <<x, z>> \notin L
  <2> SUFFICES ASSUME NEW x \in F, NEW y \in F, NEW z \in F,
                      <<x, y>> \notin L, <<y, z>> \notin L
               PROVE  <<x, z>> \notin L
    OBVIOUS
  <2>1. ~Less(c, up, x, y) /\ ~Less(c, up, y, z)
    BY <1>9
  <2>2. CASE up
    <3>1. ~RowBelow(t.model[x], t.model[y], column)
          /\ ~RowBelow(t.model[y], t.model[z], column)
      BY <1>8, <2>1, <2>2 DEF Comparison
    <3>2. ~RowBelow(t.model[x], t.model[z], column)
      BY <1>1, <1>7, <3>1, RowsCompare
    <3> QED
      BY <1>8, <1>9, <2>2, <3>2 DEF Comparison
  <2>3. CASE ~up
    <3>1. ~RowBelow(t.model[y], t.model[x], column)
          /\ ~RowBelow(t.model[z], t.model[y], column)
      BY <1>8, <2>1, <2>3 DEF Comparison
    <3>2. ~RowBelow(t.model[z], t.model[x], column)
      BY <1>1, <1>7, <3>1, RowsCompare
    <3> QED
      BY <1>8, <1>9, <2>3, <3>2 DEF Comparison
  <2> QED
    BY <2>2, <2>3
<1>12. StrictlyOrders(R, F)
  BY <1>3, <1>10, <1>11, TiesBroken
<1>13. \A i, j \in F : <<i, j>> \in R => ~Less(c, up, j, i)
  BY <1>9, <1>10
<1>14. v = Arranged(F, R)
  <2>1. R = {p \in F \X F : Before(c, up, p[1], p[2])}
    BY <1>9 DEF Before
  <2> QED
    BY <1>6, <2>1 DEF Sorted
<1> HIDE DEF R
<1>15. <<v[d], v[d + 1]>> \in R
  <2>1. \E f \in Bijection(1 .. Cardinality(F), F) :
          \A i, j \in DOMAIN f : i < j => <<f[i], f[j]>> \in R
    BY <1>3, <1>12, OrderedArrangement
  <2>2. \A i, j \in DOMAIN v : i < j => <<v[i], v[j]>> \in R
    BY <1>14, <2>1, ArrangedInOrder
  <2> QED
    BY <1>4, <2>2
<1>16. ~Less(c, up, v[d + 1], v[d])
  BY <1>4, <1>13, <1>15
<1>17. t.model[v[d]] \in Event /\ t.model[v[d + 1]] \in Event
  BY <1>4, <1>7
<1>18. CASE up
  <2>1. ~RowBelow(t.model[v[d + 1]], t.model[v[d]], column)
    BY <1>4, <1>8, <1>16, <1>18 DEF Comparison
  <2>2. InOrderBy(t.model[v[d]], t.model[v[d + 1]], column)
    BY <1>1, <1>17, <2>1, NotBelow
  <2> QED
    BY <1>18, <2>2 DEF up, v, column
<1>19. CASE ~up
  <2>1. ~RowBelow(t.model[v[d]], t.model[v[d + 1]], column)
    BY <1>4, <1>8, <1>16, <1>19 DEF Comparison
  <2>2. InOrderBy(t.model[v[d + 1]], t.model[v[d]], column)
    BY <1>1, <1>17, <2>1, NotBelow
  <2> QED
    BY <1>19, <2>2 DEF up, v, column
<1> QED
  BY <1>18, <1>19

\* The rows are in the order of the column sorted by as far as their keys are
\* known (tqtmvctableview.cpp), if numbers and texts of the column compare
\* consistently; if they do not, std::stable_sort() promises nothing.
THEOREM OrderIsRight == ASSUME Consistent PROVE EventsTabSpec => []ShownAreSorted
<1>1. TabInv => ShownAreSorted
  <2> SUFFICES ASSUME TabInv, view.sort # "none", ToSet(view.visible) \subseteq keyed,
                      NEW d \in 1 .. Len(view.visible) - 1
               PROVE  LET a == model[view.visible[d]]
                          b == model[view.visible[d + 1]]
                      IN InOrderBy(IF view.ascending THEN a ELSE b,
                                   IF view.ascending THEN b ELSE a, view.sort)
    BY DEF ShownAreSorted, InOrderBy
  <2>1. Fits(TheTable)
    BY DEF TabInv
  <2>2. TheTable.view = view /\ TheTable.model = model /\ TheTable.keyed = keyed
    BY DEF TheTable
  <2>3. ToSet(view.visible) = Filtered(TheTable)
    BY <2>1, <2>2, ShownRows
  <2>4. LET a == model[view.visible[d]]
            b == model[view.visible[d + 1]]
        IN IF view.ascending THEN InOrderBy(a, b, view.sort) ELSE InOrderBy(b, a, view.sort)
    BY <2>1, <2>2, <2>3, SortedRows
  <2> QED
    BY <2>4
<1> QED
  BY <1>1, TabInvariant, PTL
-----------------------------------------------------------------------------
(* The details of the other tabs.                                          *)

\* The rows of `connections', as the queries see them.
ConnectionRows == {Stored(r) : r \in ToSet(stored)}

\* A row of the table has the time of its event, and the rule of the UI itself
\* only if it is one of the UI's own connections.
LEMMA StoredFields ==
  ASSUME NEW r \in Event
  PROVE  /\ Stored(r).time = r.time
         /\ ~r.internal => Stored(r).rule # InternalRule
<1>1. r.dest \in Dests
  BY DEF Event
<1>2. {"time", "rule"} \subseteq DOMAIN ColumnsOf[r.dest] \cup {"time", "action", "dst_host"}
  BY <1>1, ColumnsAssumption
<1>3. Stored(r)["time"] = r.time
      /\ (~r.internal => Stored(r)["rule"] = ColumnsOf[r.dest]["rule"])
  BY <1>2 DEF Stored
<1> QED
  BY <1>1, <1>3, ColumnsAssumption

\* No two rows have one time.
DistinctTimes(rows) ==
  \A s, u \in rows : s.time \in Nat /\ (s.time = u.time => s = u)

\* What a query makes of a class of rows, and of them all.
GroupOf(rows) == [newest |-> Views!Newest(rows), hits |-> Views!Cardinality(rows)]
GroupsOf(classes) == {GroupOf(g) : g \in classes}

\* The classes of a GROUP BY are non-empty and do not overlap.
Apart(classes, rows) ==
  /\ \A c \in classes : c \subseteq rows /\ c # {}
  /\ \A c, d \in classes : c \cap d # {} => c = d

\* The instance counts as this module does.
LEMMA SameCount == ASSUME NEW S PROVE Views!Cardinality(S) = Cardinality(S)
BY DEF Views!Cardinality, Cardinality

LEMMA NewestIsNewest ==
  ASSUME NEW rows, IsFiniteSet(rows), rows # {}, DistinctTimes(rows)
  PROVE  Views!Newest(rows) \in rows /\ \A s \in rows : s.time <= Views!Newest(rows).time
<1> DEFINE R == {p \in rows \X rows : p[1].time < p[2].time}
           n == Cardinality(rows)
<1>1. \A s, u \in rows : <<s, u>> \in R <=> s.time < u.time
  OBVIOUS
<1>2. StrictlyOrders(R, rows)
  BY <1>1 DEF StrictlyOrders, DistinctTimes
<1> HIDE DEF R
<1>3. PICK f \in Bijection(1 .. n, rows) :
        \A d, e \in DOMAIN f : d < e => <<f[d], f[e]>> \in R
  BY <1>2, OrderedArrangement
<1>4. n \in Nat /\ n # 0
  BY FS_CardinalityType, FS_EmptySet
<1>5. /\ DOMAIN f = 1 .. n /\ ToSet(f) = rows
  BY BijectionIsSequence
<1>6. n \in 1 .. n /\ f[n] \in rows
  BY <1>4, <1>5 DEF ToSet
<1>7. ASSUME NEW s \in rows PROVE s.time <= f[n].time
  <2>1. PICK d \in 1 .. n : f[d] = s
    BY <1>5 DEF ToSet
  <2>2. s.time \in Nat /\ f[n].time \in Nat
    BY <1>6 DEF DistinctTimes
  <2>3. CASE d = n
    BY <2>1, <2>2, <2>3
  <2>4. CASE d < n
    <3>1. <<f[d], f[n]>> \in R
      BY <1>3, <1>5, <1>6, <2>4
    <3> QED
      BY <1>1, <1>6, <2>1, <2>2, <3>1
  <2> QED
    BY <1>4, <2>1, <2>3, <2>4
<1>8. \E m \in rows : \A s \in rows : s.time <= m.time
  BY <1>6, <1>7
<1> QED
  BY <1>8, Zenon DEF Views!Newest

\* A class with a row that fewer than lim rows of the whole table are newer than
\* is among the first lim groups, whichever of the groups there are.
LEMMA GroupIsAmongFirst ==
  ASSUME NEW rows, IsFiniteSet(rows), DistinctTimes(rows),
         NEW classes, Apart(classes, rows), NEW c \in classes, NEW r \in c,
         NEW lim \in Nat, Cardinality({s \in rows : s.time > r.time}) < lim,
         NEW groups \in SUBSET GroupsOf(classes), GroupOf(c) \in groups
  PROVE  GroupOf(c) \in Views!FirstOf(groups, lim)
<1> DEFINE newer == {s \in rows : s.time > r.time}
           above == {h \in groups : h.newest.time > GroupOf(c).newest.time}
           f == [h \in above |-> h.newest]
<1>1. IsFiniteSet(newer) /\ Cardinality(newer) \in Nat
  <2>1. newer \in SUBSET rows
    OBVIOUS
  <2> QED
    BY <2>1, FS_Subset, FS_CardinalityType
<1>2. ASSUME NEW d \in classes
      PROVE  /\ Views!Newest(d) \in d /\ Views!Newest(d) \in rows
             /\ \A s \in d : s.time <= Views!Newest(d).time
             /\ GroupOf(d).newest = Views!Newest(d)
  <2>1. d \in SUBSET rows /\ d # {}
    BY DEF Apart
  <2>2. IsFiniteSet(d) /\ DistinctTimes(d)
    BY <2>1, FS_Subset DEF DistinctTimes
  <2>3. Views!Newest(d) \in d /\ \A s \in d : s.time <= Views!Newest(d).time
    BY <2>1, <2>2, NewestIsNewest
  <2>4. GroupOf(d).newest = Views!Newest(d)
    BY DEF GroupOf
  <2> QED
    BY <2>1, <2>3, <2>4
<1>3. ASSUME NEW h \in above PROVE h.newest \in newer
  <2>1. PICK d \in classes : h = GroupOf(d)
    BY DEF GroupsOf
  <2>2. h.newest \in rows
    BY <1>2, <2>1
  <2>3. r.time <= GroupOf(c).newest.time /\ GroupOf(c).newest \in rows /\ r \in rows
    BY <1>2 DEF Apart
  <2>4. h.newest.time \in Nat /\ r.time \in Nat /\ GroupOf(c).newest.time \in Nat
    BY <2>2, <2>3 DEF DistinctTimes
  <2> QED
    BY <2>2, <2>3, <2>4
<1>4. ASSUME NEW h \in above, NEW k \in above, h.newest = k.newest PROVE h = k
  <2>1. PICK d \in classes : h = GroupOf(d)
    BY DEF GroupsOf
  <2>2. PICK e \in classes : k = GroupOf(e)
    BY DEF GroupsOf
  <2>3. h.newest \in d /\ k.newest \in e
    BY <1>2, <2>1, <2>2
  <2>4. d = e
    BY <1>4, <2>3 DEF Apart
  <2> QED
    BY <2>1, <2>2, <2>4
<1> HIDE DEF newer, above
<1>5. f \in Injection(above, newer)
  <2>1. f \in [above -> newer]
    BY <1>3
  <2>2. \A h, k \in above : f[h] = f[k] => h = k
    BY <1>4
  <2> HIDE DEF f
  <2> QED
    BY <2>1, <2>2 DEF Injection, IsInjective
<1>6. IsFiniteSet(above) /\ Cardinality(above) <= Cardinality(newer)
  BY <1>1, <1>5, FS_Injection
<1>7. Cardinality(above) \in Nat
  BY <1>6, FS_CardinalityType
<1>8. Cardinality(above) < lim
  BY <1>1, <1>6, <1>7 DEF newer
<1>9. Views!Cardinality(above) < lim
  BY <1>8, SameCount
<1> QED
  BY <1>9 DEF Views!FirstOf, above

\* The newest row of a class stands for it; unless it is the internal rule's,
\* every order of LIMIT and of leaving that rule out shows it.
Represented(c, r, classes, lim) ==
  LET n == Views!Newest(c)
      groups == GroupsOf(classes)
  IN /\ n \in c /\ n \in ConnectionRows /\ GroupOf(c).newest = n
     /\ GroupOf(c) \in Views!FirstOf(groups, lim)
     /\ n.rule # InternalRule =>
          /\ GroupOf(c) \in Views!Shown(Views!FirstOf(groups, lim))
          /\ GroupOf(c) \in Views!FirstOf(Views!Shown(groups), lim)
     /\ n.rule = InternalRule => n.time > r.time

\* A row among the newest lim of the table that is not the internal rule's.
AmongNewest(r, lim) ==
  /\ r \in ConnectionRows /\ IsFiniteSet(ConnectionRows) /\ DistinctTimes(ConnectionRows)
  /\ r.rule # InternalRule /\ lim \in Nat
  /\ Cardinality({s \in ConnectionRows : s.time > r.time}) < lim

LEMMA ClassIsRepresented ==
  ASSUME NEW r, NEW lim, AmongNewest(r, lim),
         NEW classes, Apart(classes, ConnectionRows), NEW c \in classes, r \in c
  PROVE  Represented(c, r, classes, lim)
<1> DEFINE n == Views!Newest(c)
           groups == GroupsOf(classes)
<1>1. c \in SUBSET ConnectionRows /\ c # {}
  BY DEF Apart
<1>2. IsFiniteSet(ConnectionRows) /\ DistinctTimes(ConnectionRows) /\ lim \in Nat
      /\ Cardinality({s \in ConnectionRows : s.time > r.time}) < lim
  BY DEF AmongNewest
<1>3. IsFiniteSet(c) /\ DistinctTimes(c)
  BY <1>1, <1>2, FS_Subset DEF DistinctTimes
<1>4. n \in c /\ n \in ConnectionRows /\ r.time <= n.time
  BY <1>1, <1>3, NewestIsNewest
<1>5. GroupOf(c).newest = n /\ GroupOf(c) \in groups
  BY DEF GroupOf, GroupsOf
<1>6. GroupOf(c) \in Views!FirstOf(groups, lim)
  BY <1>2, <1>5, GroupIsAmongFirst
<1>7. ASSUME n.rule # InternalRule
      PROVE  /\ GroupOf(c) \in Views!Shown(Views!FirstOf(groups, lim))
             /\ GroupOf(c) \in Views!FirstOf(Views!Shown(groups), lim)
  <2>1. GroupOf(c).newest.rule # InternalRule
    BY <1>5, <1>7
  <2>2. GroupOf(c) \in Views!Shown(Views!FirstOf(groups, lim))
    BY <1>6, <2>1 DEF Views!Shown
  <2>3. GroupOf(c) \in Views!Shown(groups) /\ Views!Shown(groups) \in SUBSET groups
    BY <1>5, <2>1 DEF Views!Shown
  <2>4. GroupOf(c) \in Views!FirstOf(Views!Shown(groups), lim)
    BY <1>2, <2>3, GroupIsAmongFirst
  <2> QED
    BY <2>2, <2>4
<1>8. ASSUME n.rule = InternalRule PROVE n.time > r.time
  <2>1. n # r /\ r \in ConnectionRows
    BY <1>8 DEF AmongNewest
  <2>2. n.time \in Nat /\ r.time \in Nat /\ n.time # r.time
    BY <1>2, <1>4, <2>1 DEF DistinctTimes
  <2> QED
    BY <1>4, <2>2
<1> QED
  BY <1>4, <1>5, <1>6, <1>7, <1>8, Zenon DEF Represented

LEMMA FoundInNode ==
  ASSUME NEW r, NEW lim, AmongNewest(r, lim)
  PROVE  Views!Found(r, Views!NodeConnections(r.node, lim), Views!NodeSays)
<1> DEFINE rows == {s \in ConnectionRows : s.node = r.node}
           key(s) == <<s.action, s.uid, s.protocol, s.dst_ip, s.dst_host, s.dst_port,
                       s.process, s.process_args, s.process_cwd, s.rule>>
           classes == {{s \in rows : key(s) = key(q)} : q \in rows}
           c == {s \in rows : key(s) = key(r)}
<1>1. Views!NodeConnections(r.node, lim)
        = Views!FirstOf(Views!Shown(GroupsOf(classes)), lim)
  BY DEF Views!NodeConnections, Views!Grouped, Views!Classes, Views!Destination,
         GroupsOf, GroupOf, ConnectionRows
<1>2. \A s \in rows : key(s) = key(r) => Views!NodeSays(s) = Views!NodeSays(r)
  BY DEF Views!NodeSays, Views!Destination
<1> HIDE DEF key
<1>3. Apart(classes, ConnectionRows)
  BY DEF Apart
<1>4. c \in classes /\ r \in c
  BY DEF AmongNewest
<1> HIDE DEF classes
<1>5. Represented(c, r, classes, lim)
  BY <1>3, <1>4, ClassIsRepresented
<1>6. Views!NodeSays(Views!Newest(c)) = Views!NodeSays(r)
  BY <1>2, <1>5 DEF Represented
<1> QED
  BY <1>1, <1>5, <1>6 DEF Represented, Views!Found, ConnectionRows

LEMMA FoundInHost ==
  ASSUME NEW r, NEW lim, AmongNewest(r, lim)
  PROVE  Views!Found(r, Views!HostConnections(r.dst_host, lim), Views!HostSays)
<1> DEFINE rows == {s \in ConnectionRows : s.dst_host = r.dst_host}
           key(s) == <<s.pid, s.process, s.process_args, s.src_ip, s.dst_ip, s.dst_port,
                       s.protocol, s.action, s.node>>
           classes == {{s \in rows : key(s) = key(q)} : q \in rows}
           c == {s \in rows : key(s) = key(r)}
<1>1. Views!HostConnections(r.dst_host, lim)
        = Views!Shown(Views!FirstOf(GroupsOf(classes), lim))
  BY DEF Views!HostConnections, Views!Grouped, Views!Classes, Views!Destination,
         GroupsOf, GroupOf, ConnectionRows
<1>2. \A s \in rows : key(s) = key(r) => Views!HostSays(s) = Views!HostSays(r)
  BY DEF Views!HostSays, Views!Destination
<1> HIDE DEF key
<1>3. Apart(classes, ConnectionRows)
  BY DEF Apart
<1>4. c \in classes /\ r \in c
  BY DEF AmongNewest
<1> HIDE DEF classes
<1>5. Represented(c, r, classes, lim)
  BY <1>3, <1>4, ClassIsRepresented
<1>6. Views!HostSays(Views!Newest(c)) = Views!HostSays(r)
  BY <1>2, <1>5 DEF Represented
<1> QED
  BY <1>1, <1>5, <1>6 DEF Represented, Views!Found, ConnectionRows

LEMMA FoundInRule ==
  ASSUME NEW r, NEW lim, AmongNewest(r, lim)
  PROVE  Views!Found(r, Views!RuleConnections(r.rule, r.node, lim), Views!RuleSays)
<1> DEFINE rows == {s \in ConnectionRows : s.rule = r.rule /\ s.node = r.node}
           key(s) == <<s.process, s.process_args, s.uid, Views!Destination(s), s.dst_port>>
           classes == {{s \in rows : key(s) = key(q)} : q \in rows}
           c == {s \in rows : key(s) = key(r)}
<1>1. Views!RuleConnections(r.rule, r.node, lim)
        = Views!FirstOf(GroupsOf(classes), lim)
  BY DEF Views!RuleConnections, Views!Grouped, Views!Classes, Views!Destination,
         GroupsOf, GroupOf, ConnectionRows
<1>2. \A s \in rows : key(s) = key(r) => Views!RuleSays(s) = Views!RuleSays(r)
  BY DEF Views!RuleSays, Views!Destination
<1> HIDE DEF key
<1>3. Apart(classes, ConnectionRows)
  BY DEF Apart
<1>4. c \in classes /\ r \in c
  BY DEF AmongNewest
<1> HIDE DEF classes
<1>5. Represented(c, r, classes, lim)
  BY <1>3, <1>4, ClassIsRepresented
<1>6. Views!RuleSays(Views!Newest(c)) = Views!RuleSays(r)
  BY <1>2, <1>5 DEF Represented
<1> QED
  BY <1>1, <1>5, <1>6 DEF Represented, Views!Found, ConnectionRows

LEMMA FoundInProc ==
  ASSUME NEW r, NEW lim, AmongNewest(r, lim)
  PROVE  Views!Found(r, Views!ProcConnections(r.process, lim), Views!ProcSays)
<1> DEFINE rows == {s \in ConnectionRows : s.process = r.process}
           key(s) == <<s.src_ip, s.dst_ip, s.dst_host, s.dst_port, s.uid, s.action,
                       s.node, s.pid, s.process_args>>
           classes == {{s \in rows : key(s) = key(q)} : q \in rows}
           c == {s \in rows : key(s) = key(r)}
<1>1. Views!ProcConnections(r.process, lim)
        = Views!Shown(Views!FirstOf(GroupsOf(classes), lim))
  BY DEF Views!ProcConnections, Views!Grouped, Views!Classes, Views!Destination,
         GroupsOf, GroupOf, ConnectionRows
<1>2. \A s \in rows : key(s) = key(r) => Views!ProcSays(s) = Views!ProcSays(r)
  BY DEF Views!ProcSays, Views!Destination
<1> HIDE DEF key
<1>3. Apart(classes, ConnectionRows)
  BY DEF Apart
<1>4. c \in classes /\ r \in c
  BY DEF AmongNewest
<1> HIDE DEF classes
<1>5. Represented(c, r, classes, lim)
  BY <1>3, <1>4, ClassIsRepresented
<1>6. Views!ProcSays(Views!Newest(c)) = Views!ProcSays(r)
  BY <1>2, <1>5 DEF Represented
<1> QED
  BY <1>1, <1>5, <1>6 DEF Represented, Views!Found, ConnectionRows

LEMMA FoundInAddr ==
  ASSUME NEW r, NEW lim, AmongNewest(r, lim)
  PROVE  Views!Found(r, Views!AddrConnections(r.dst_ip, lim), Views!AddrSays)
<1> DEFINE rows == {s \in ConnectionRows : s.dst_ip = r.dst_ip}
           key(s) == <<s.pid, s.process, s.process_args, s.src_ip, s.dst_port,
                       Views!Destination(s), s.protocol, s.action, s.uid, s.node>>
           classes == {{s \in rows : key(s) = key(q)} : q \in rows}
           c == {s \in rows : key(s) = key(r)}
<1>1. Views!AddrConnections(r.dst_ip, lim)
        = Views!Shown(Views!FirstOf(GroupsOf(classes), lim))
  BY DEF Views!AddrConnections, Views!Grouped, Views!Classes, Views!Destination,
         GroupsOf, GroupOf, ConnectionRows
<1>2. \A s \in rows : key(s) = key(r) => Views!AddrSays(s) = Views!AddrSays(r)
  BY DEF Views!AddrSays, Views!Destination
<1> HIDE DEF key
<1>3. Apart(classes, ConnectionRows)
  BY DEF Apart
<1>4. c \in classes /\ r \in c
  BY DEF AmongNewest
<1> HIDE DEF classes
<1>5. Represented(c, r, classes, lim)
  BY <1>3, <1>4, ClassIsRepresented
<1>6. Views!AddrSays(Views!Newest(c)) = Views!AddrSays(r)
  BY <1>2, <1>5 DEF Represented
<1> QED
  BY <1>1, <1>5, <1>6 DEF Represented, Views!Found, ConnectionRows

LEMMA FoundInPort ==
  ASSUME NEW r, NEW lim, AmongNewest(r, lim)
  PROVE  Views!Found(r, Views!PortConnections(r.dst_port, lim), Views!PortSays)
<1> DEFINE rows == {s \in ConnectionRows : s.dst_port = r.dst_port}
           key(s) == <<s.pid, s.process, s.process_args, Views!Destination(s), s.src_ip,
                       s.dst_ip, s.protocol, s.action, s.uid, s.node>>
           classes == {{s \in rows : key(s) = key(q)} : q \in rows}
           c == {s \in rows : key(s) = key(r)}
<1>1. Views!PortConnections(r.dst_port, lim)
        = Views!Shown(Views!FirstOf(GroupsOf(classes), lim))
  BY DEF Views!PortConnections, Views!Grouped, Views!Classes, Views!Destination,
         GroupsOf, GroupOf, ConnectionRows
<1>2. \A s \in rows : key(s) = key(r) => Views!PortSays(s) = Views!PortSays(r)
  BY DEF Views!PortSays, Views!Destination
<1> HIDE DEF key
<1>3. Apart(classes, ConnectionRows)
  BY DEF Apart
<1>4. c \in classes /\ r \in c
  BY DEF AmongNewest
<1> HIDE DEF classes
<1>5. Represented(c, r, classes, lim)
  BY <1>3, <1>4, ClassIsRepresented
<1>6. Views!PortSays(Views!Newest(c)) = Views!PortSays(r)
  BY <1>2, <1>5 DEF Represented
<1> QED
  BY <1>1, <1>5, <1>6 DEF Represented, Views!Found, ConnectionRows

LEMMA FoundInUser ==
  ASSUME NEW r, NEW lim, AmongNewest(r, lim)
  PROVE  Views!Found(r, Views!UserConnections(Views!FormatUserUidDisplay(r.uid), lim), Views!UserSays)
<1> DEFINE rows == {s \in ConnectionRows : s.uid = r.uid}
           key(s) == <<s.pid, s.process, s.process_args, s.src_ip, s.dst_ip, s.dst_host,
                       s.dst_port, s.protocol, s.action, s.node>>
           classes == {{s \in rows : key(s) = key(q)} : q \in rows}
           c == {s \in rows : key(s) = key(r)}
<1>1. Views!UserConnections(Views!FormatUserUidDisplay(r.uid), lim)
        = Views!Shown(Views!FirstOf(GroupsOf(classes), lim))
  BY DEF Views!UserConnections, Views!Grouped, Views!Classes, Views!Destination,
         GroupsOf, GroupOf, ConnectionRows, Views!FormatUserUidDisplay
<1>2. \A s \in rows : key(s) = key(r) => Views!UserSays(s) = Views!UserSays(r)
  BY DEF Views!UserSays, Views!Destination
<1> HIDE DEF key
<1>3. Apart(classes, ConnectionRows)
  BY DEF Apart
<1>4. c \in classes /\ r \in c
  BY DEF AmongNewest
<1> HIDE DEF classes
<1>5. Represented(c, r, classes, lim)
  BY <1>3, <1>4, ClassIsRepresented
<1>6. Views!UserSays(Views!Newest(c)) = Views!UserSays(r)
  BY <1>2, <1>5 DEF Represented
<1> QED
  BY <1>1, <1>5, <1>6 DEF Represented, Views!Found, ConnectionRows

\* The event at place i of the table has i - 1 newer ones.
LEMMA StoredIsAmongNewest ==
  ASSUME TabInv, NEW i \in DOMAIN stored, NEW lim \in Nat, i <= lim, ~stored[i].internal
  PROVE  AmongNewest(Stored(stored[i]), lim)
<1> DEFINE r == Stored(stored[i])
           newer == {s \in ConnectionRows : s.time > r.time}
           f == [j \in 1 .. Len(stored) |-> Stored(stored[j])]
           first == {j \in 1 .. Len(stored) : j < i}
           g == [j \in first |-> f[j]]
<1>1. stored \in Seq(Event) /\ Descending(stored)
  BY DEF TabInv
<1>2. DOMAIN stored = 1 .. Len(stored) /\ Len(stored) \in Nat
  BY <1>1
<1>3. \A j \in 1 .. Len(stored) : stored[j] \in Event /\ f[j].time = stored[j].time
                                  /\ f[j].time \in Nat
  <2> SUFFICES ASSUME NEW j \in 1 .. Len(stored)
               PROVE  stored[j] \in Event /\ Stored(stored[j]).time = stored[j].time
                      /\ stored[j].time \in Nat
    OBVIOUS
  <2>1. stored[j] \in Event
    BY <1>1, <1>2
  <2>2. stored[j].time \in Nat
    BY <2>1, TabBoundsAssumption DEF Event
  <2> QED
    BY <2>1, <2>2, StoredFields
<1>4. \A s \in ConnectionRows : \E j \in 1 .. Len(stored) : s = f[j]
  BY <1>2 DEF ConnectionRows, ToSet
<1>5. \A j \in 1 .. Len(stored) : f[j] \in ConnectionRows
  BY <1>2 DEF ConnectionRows, ToSet
<1>6. r = f[i] /\ i \in 1 .. Len(stored) /\ r.rule # InternalRule
  BY <1>2, <1>3, StoredFields
<1>7. DOMAIN f = 1 .. Len(stored)
  OBVIOUS
<1>8. f = [j \in 1 .. Len(stored) |-> f[j]]
  OBVIOUS
<1> HIDE DEF f, r
<1>9. IsFiniteSet(ConnectionRows)
  <2>1. f \in Surjection(1 .. Len(stored), ConnectionRows)
    BY <1>4, <1>5, <1>8 DEF Surjection
  <2>2. IsFiniteSet(1 .. Len(stored))
    BY <1>2, FS_Interval
  <2> QED
    BY <2>1, <2>2, FS_Surjection
<1>10. \A j, k \in 1 .. Len(stored) : j < k => f[k].time < f[j].time
  BY <1>2, <1>1, <1>3 DEF Descending
<1>11. DistinctTimes(ConnectionRows)
  <2> SUFFICES ASSUME NEW s \in ConnectionRows, NEW u \in ConnectionRows
               PROVE  s.time \in Nat /\ (s.time = u.time => s = u)
    BY DEF DistinctTimes
  <2>1. PICK j \in 1 .. Len(stored) : s = f[j]
    BY <1>4
  <2>2. PICK k \in 1 .. Len(stored) : u = f[k]
    BY <1>4
  <2>3. f[j].time \in Nat /\ f[k].time \in Nat
    BY <1>3
  <2>4. f[j].time = f[k].time => j = k
    BY <1>2, <1>10, <2>3
  <2> QED
    BY <2>1, <2>2, <2>3, <2>4
<1>12. Cardinality(newer) < lim
  <2>1. \A s \in newer : \E j \in first : s = f[j]
    <3> SUFFICES ASSUME NEW s \in newer PROVE \E j \in first : s = f[j]
      OBVIOUS
    <3>1. PICK j \in 1 .. Len(stored) : s = f[j]
      BY <1>4
    <3>2. f[j].time > f[i].time /\ f[j].time \in Nat /\ f[i].time \in Nat
      BY <1>3, <1>6, <3>1
    <3>3. j < i
      BY <1>2, <1>6, <1>10, <3>2
    <3> QED
      BY <3>1, <3>3
  <2>2. \A j \in first : f[j] \in newer
    <3> SUFFICES ASSUME NEW j \in first PROVE f[j] \in newer
      OBVIOUS
    <3>1. f[j].time \in Nat /\ f[i].time \in Nat /\ f[i].time < f[j].time
      BY <1>3, <1>6, <1>10
    <3> QED
      BY <1>5, <1>6, <3>1
  <2> HIDE DEF newer
  <2>3. g \in Surjection(first, newer)
    BY <2>1, <2>2 DEF Surjection
  <2>4. first = 1 .. (i - 1) /\ i - 1 \in Nat
    BY <1>2, <1>6
  <2>5. IsFiniteSet(first) /\ Cardinality(first) = i - 1
    <3>1. i \in Nat /\ i >= 1
      BY <1>2, <1>6
    <3>2. 1 \in Int /\ i - 1 \in Int /\ (IF 1 > i - 1 THEN 0 ELSE i - 1 - 1 + 1) = i - 1
      BY <3>1
    <3>3. IsFiniteSet(1 .. (i - 1)) /\ Cardinality(1 .. (i - 1)) = i - 1
      BY <3>2, FS_Interval
    <3> QED
      BY <2>4, <3>3
  <2> HIDE DEF first, g
  <2>6. IsFiniteSet(newer) /\ Cardinality(newer) <= i - 1
    BY <2>3, <2>5, FS_Surjection
  <2>7. Cardinality(newer) \in Nat
    BY <2>6, FS_CardinalityType
  <2>8. i \in Nat
    BY <1>2, <1>6
  <2> QED
    BY <2>6, <2>7, <2>8
<1>13. r \in ConnectionRows
  BY <1>5, <1>6
<1> HIDE DEF newer
<1> QED
  BY <1>6, <1>9, <1>11, <1>12, <1>13 DEF AmongNewest, r, newer

\* Whatever is stored: what the tab shows once it is up to date is in the file
\* that Save writes, and an event not beyond the limit is in the details of its
\* node, rule, host, program, address, port and user as what it was
\* (main_window.cpp:1608-3246, 3990-4050).
THEOREM EventsFound == EventsTabSpec => []EventsAreFound
<1>1. TabInv => EventsAreFound
  <2> SUFFICES ASSUME TabInv PROVE EventsAreFound
    OBVIOUS
  <2>1. ASSUME tab = "events", model = Fetched(limit), NEW i \in ToSet(view.visible)
        PROVE  model[i] \in Saved
    <3>1. Fits(TheTable) /\ TheTable.view = view /\ TheTable.model = model
      BY DEF TabInv, TheTable
    <3>2. i \in DOMAIN model /\ Matching(model[i], view.action, view.text)
      BY <2>1, <3>1, ShownRows DEF Filtered
    <3>3. view.action = actionChoice /\ view.text = filterText
      BY <2>1 DEF TabInv, InStep
    <3>4. PICK k \in DOMAIN stored : model[i] = stored[k] /\ ~stored[k].internal
      BY <2>1, <3>2, FetchedAreStored DEF TabInv
    <3>5. model[i] \in ToSet(stored) /\ ~model[i].internal
      BY <3>4 DEF ToSet
    <3> QED
      BY <3>2, <3>3, <3>5 DEF Saved, Select, Matching
  <2>2. ASSUME NEW i \in 1 .. Smaller(limit, Len(stored)), ~stored[i].internal
        PROVE  Views!FoundInDetails(Stored(stored[i]), limit)
    <3> DEFINE r == Stored(stored[i])
    <3>1. limit \in Nat /\ stored \in Seq(Event)
      BY TabBoundsAssumption DEF TabInv, Widgets
    <3>2. i \in DOMAIN stored /\ i <= limit
      BY <3>1 DEF Smaller
    <3>3. AmongNewest(r, limit)
      BY <2>2, <3>1, <3>2, StoredIsAmongNewest
    <3> HIDE DEF r
    <3>4. /\ Views!Found(r, Views!NodeConnections(r.node, limit), Views!NodeSays)
          /\ Views!Found(r, Views!RuleConnections(r.rule, r.node, limit), Views!RuleSays)
          /\ Views!Found(r, Views!HostConnections(r.dst_host, limit), Views!HostSays)
          /\ Views!Found(r, Views!ProcConnections(r.process, limit), Views!ProcSays)
      BY <3>3, FoundInNode, FoundInRule, FoundInHost, FoundInProc
    <3>5. /\ Views!Found(r, Views!AddrConnections(r.dst_ip, limit), Views!AddrSays)
          /\ Views!Found(r, Views!PortConnections(r.dst_port, limit), Views!PortSays)
          /\ Views!Found(r, Views!UserConnections(Views!FormatUserUidDisplay(r.uid), limit),
                         Views!UserSays)
      BY <3>3, FoundInAddr, FoundInPort, FoundInUser
    <3>6. Views!FoundInDetails(r, limit)
      BY <3>4, <3>5 DEF Views!FoundInDetails
    <3> QED
      BY <3>6 DEF r
  <2> QED
    BY <2>1, <2>2 DEF EventsAreFound
<1> QED
  BY <1>1, TabInvariant, PTL
=============================================================================
