---------------------------- MODULE Shell_proofs ----------------------------
(***************************************************************************)
(* Proofs about Shell, for every set of daemons and every bound.           *)
(***************************************************************************)
EXTENDS Shell, TLAPS

\* A Subscribe request that is not out of date tells the truth: its daemon is
\* still there, nothing is being written to it, and its firewall is as it said.
QueueInv ==
  \A i \in 1 .. Len(subscribes) :
    LET n == subscribes[i].node
    IN  subscribes[i].current =>
          /\ session[n] # "off"
          /\ outbox[n] = "none"
          /\ firewall[n] = subscribes[i].running

\* A notification is on its way only to a daemon whose stream is open.
OutboxInv == \A n \in Nodes : outbox[n] # "none" => session[n] = "open"

\* A daemon that is gone is in step with nothing.
InStepInv == \A n \in inStep : session[n] # "off"

IInv == TypeOK /\ QueueInv /\ OutboxInv /\ InStepInv /\ ShownIsRunning
-----------------------------------------------------------------------------
(* The tray's operations keep its type, and leave the icon they should.    *)

Tray == [connected : BOOLEAN, enabled : BOOLEAN, icon : Icons,
         label : Labels, usable : BOOLEAN]

LEMMA UpdateIconType ==
  ASSUME NEW t \in Tray
  PROVE  /\ UpdateIcon(t) \in Tray
         /\ UpdateIcon(t).icon = IconFor(UpdateIcon(t))
         /\ UpdateIcon(t).connected = t.connected
         /\ UpdateIcon(t).enabled = t.enabled
         /\ UpdateIcon(t).label = t.label
         /\ UpdateIcon(t).usable = t.usable
BY DEF Tray, UpdateIcon, IconFor, Icons

LEMMA LabelForType ==
  ASSUME NEW e \in BOOLEAN
  PROVE  LabelFor(e) \in Labels
BY DEF LabelFor, Labels

LEMMA SetFirewallEnabledType ==
  ASSUME NEW t \in Tray, NEW e \in BOOLEAN
  PROVE  LET u == SetFirewallEnabled(t, e)
         IN  /\ u \in Tray
             /\ u.icon = IconFor(u)
             /\ u.connected = t.connected
             /\ u.enabled = e
             /\ u.label = LabelFor(e)
             /\ u.usable = t.connected
<1> DEFINE v == [t EXCEPT !.enabled = e, !.label = LabelFor(e), !.usable = t.connected]
<1>1. /\ v \in Tray
      /\ v.connected = t.connected
      /\ v.enabled = e
      /\ v.label = LabelFor(e)
      /\ v.usable = t.connected
  BY LabelForType DEF Tray
<1> HIDE DEF v
<1> QED
  BY <1>1, UpdateIconType DEF SetFirewallEnabled, v

LEMMA TrayOnSubscribedType ==
  ASSUME NEW t \in Tray, NEW e \in BOOLEAN, NEW nodes
  PROVE  LET u == TrayOnSubscribed(t, e, nodes)
         IN  /\ u \in Tray
             /\ u.icon = IconFor(u)
             /\ u.connected
             /\ u.enabled = e
             /\ u.label = LabelFor(e)
             /\ u.usable = \A m, n \in nodes : m = n
<1> DEFINE v == [connected |-> TRUE, enabled |-> e, icon |-> t.icon,
                 label |-> LabelFor(e), usable |-> \A m, n \in nodes : m = n]
<1>1. (\A m, n \in nodes : m = n) \in BOOLEAN
  OBVIOUS
<1>2. /\ v \in Tray
      /\ v.connected
      /\ v.enabled = e
      /\ v.label = LabelFor(e)
      /\ v.usable = \A m, n \in nodes : m = n
  BY <1>1, LabelForType DEF Tray
<1> HIDE DEF v
<1> QED
  BY <1>2, UpdateIconType DEF TrayOnSubscribed, v

LEMMA ReloadIconsType ==
  ASSUME NEW t \in Tray
  PROVE  LET u == ReloadIcons(t)
         IN  /\ u \in Tray
             /\ u.icon = IconFor(u)
             /\ u.connected = t.connected
             /\ u.enabled = t.enabled
             /\ u.label = LabelFor(t.enabled)
             /\ u.usable = t.usable
<1> DEFINE v == [t EXCEPT !.label = LabelFor(t.enabled)]
<1>1. /\ v \in Tray
      /\ v.connected = t.connected
      /\ v.enabled = t.enabled
      /\ v.label = LabelFor(t.enabled)
      /\ v.usable = t.usable
  BY LabelForType DEF Tray
<1> HIDE DEF v
<1> QED
  BY <1>1, UpdateIconType DEF ReloadIcons, v
-----------------------------------------------------------------------------
\* A queue in which the requests of some daemons are out of date.
Late(queue, late) ==
  [i \in DOMAIN queue |->
     [queue[i] EXCEPT !.current = @ /\ queue[i].node \notin late]]

LEMMA LateEffect ==
  ASSUME NEW queue \in Seq(Subscribe), NEW late \in SUBSET Nodes
  PROVE  /\ Late(queue, late) \in Seq(Subscribe)
         /\ Len(Late(queue, late)) = Len(queue)
         /\ \A i \in 1 .. Len(queue) :
              /\ Late(queue, late)[i].node = queue[i].node
              /\ Late(queue, late)[i].running = queue[i].running
              /\ Late(queue, late)[i].current <=>
                   queue[i].current /\ queue[i].node \notin late
<1> DEFINE q == Late(queue, late)
<1>1. ASSUME NEW i \in 1 .. Len(queue)
      PROVE  /\ q[i] \in Subscribe
             /\ q[i].node = queue[i].node
             /\ q[i].running = queue[i].running
             /\ q[i].current <=> queue[i].current /\ queue[i].node \notin late
  <2>1. queue[i] \in Subscribe /\ DOMAIN queue = 1 .. Len(queue)
    OBVIOUS
  <2>2. q[i] = [queue[i] EXCEPT !.current = @ /\ queue[i].node \notin late]
    BY <2>1 DEF Late
  <2> HIDE DEF q
  <2> QED
    BY <2>1, <2>2 DEF Subscribe
<1>2. Len(queue) \in Nat /\ DOMAIN q = 1 .. Len(queue)
  BY DEF Late
<1>3. q \in [1 .. Len(queue) -> Subscribe]
  BY <1>1, <1>2 DEF Late
<1> HIDE DEF q
<1>4. q \in Seq(Subscribe) /\ Len(q) = Len(queue)
  BY <1>2, <1>3
<1> QED
  BY <1>1, <1>4 DEF q

\* Outdated() is the case of one daemon.
LEMMA OutdatedIsLate ==
  ASSUME NEW queue, NEW n \in Nodes
  PROVE  Outdated(queue, n) = Late(queue, {n})
BY DEF Outdated, Late
-----------------------------------------------------------------------------
\* What the actions do to the tray and to the queue, once for all proofs.
LEMMA ToggleEffect ==
  ASSUME TypeOK, NEW p \in BOOLEAN, Toggle(p)
  PROVE  /\ window.connected =>
              /\ window' = [window EXCEPT !.enabled = ~window.enabled, !.pressed = p]
              /\ tray' = SetFirewallEnabled(tray, ~window.enabled)
              /\ outbox' = [n \in Nodes |->
                             IF n \notin Reached THEN outbox[n]
                             ELSE IF ~window.enabled THEN "LOAD_FIREWALL" ELSE "UNLOAD_FIREWALL"]
              /\ inStep' = Reached
              /\ subscribes' = Late(subscribes, Reached)
         /\ ~window.connected =>
              /\ window' = [window EXCEPT !.pressed = FALSE]
              /\ UNCHANGED <<tray, outbox, subscribes, inStep>>
BY DEF Toggle, Late

LEMMA TailEffect ==
  ASSUME TypeOK, subscribes # <<>>, subscribes' = Tail(subscribes)
  PROVE  /\ subscribes' \in Seq(Subscribe)
         /\ Head(subscribes) \in Subscribe
         /\ Head(subscribes) = subscribes[1] /\ 1 \in 1 .. Len(subscribes)
         /\ \A i \in 1 .. Len(subscribes') :
              i + 1 \in 1 .. Len(subscribes) /\ subscribes'[i] = subscribes[i + 1]
BY DEF TypeOK

\* Every handler keeps the ranges of the variables.
THEOREM TypeCorrect == Spec => []TypeOK
<1>1. Init => TypeOK
  BY BoundsAssumption DEF Init, TypeOK, Icons, Labels, Note
<1>2. TypeOK /\ [Next]_vars => TypeOK'
  <2> SUFFICES ASSUME TypeOK, [Next]_vars PROVE TypeOK'
    OBVIOUS
  <2> USE BoundsAssumption DEF gui, wire, Happens
  <2>0. /\ tray \in Tray
        /\ window.enabled \in BOOLEAN /\ window.pressed \in BOOLEAN
        /\ subscribes \in Seq(Subscribe)
        /\ Reached \in SUBSET Nodes
    BY DEF TypeOK, Tray, Reached
  <2>1. ASSUME NEW n \in Nodes, Connect(n) PROVE TypeOK'
    <3>1. Outdated(subscribes, n) \in Seq(Subscribe)
      <4>1. Outdated(subscribes, n) = Late(subscribes, {n})
        BY OutdatedIsLate
      <4>2. Late(subscribes, {n}) \in Seq(Subscribe)
        BY <2>0, LateEffect
      <4> QED
        BY <4>1, <4>2
    <3>2. subscribes' \in Seq(Subscribe)
      BY <2>1, <3>1 DEF Connect, TypeOK, Subscribe
    <3> QED
      BY <2>1, <3>2 DEF Connect, TypeOK
  <2>2. ASSUME NEW n \in Nodes, OpenStream(n) PROVE TypeOK'
    BY <2>2 DEF OpenStream, TypeOK
  <2>3. ASSUME NEW n \in Nodes, Disconnect(n) PROVE TypeOK'
    <3>1. subscribes' \in Seq(Subscribe)
      <4>1. subscribes' = Late(subscribes, {n})
        BY <2>3, OutdatedIsLate DEF Disconnect
      <4>2. Late(subscribes, {n}) \in Seq(Subscribe)
        BY <2>0, LateEffect
      <4> QED
        BY <4>1, <4>2
    <3> QED
      BY <2>3, <3>1 DEF Disconnect, TypeOK
  <2>4. ASSUME NEW n \in Nodes, RestartDaemon(n) PROVE TypeOK'
    BY <2>4 DEF RestartDaemon, TypeOK
  <2>5. ASSUME NEW n \in Nodes, Obey(n) PROVE TypeOK'
    BY <2>5 DEF Obey, TypeOK
  <2>6. ASSUME NEW n \in Nodes, Refuse(n) PROVE TypeOK'
    BY <2>6 DEF Refuse, TypeOK
  <2>7. CASE OnDaemonSubscribed
    <3>1. subscribes' \in Seq(Subscribe) /\ Head(subscribes) \in Subscribe
      BY <2>7, TailEffect DEF OnDaemonSubscribed
    <3>2. tray' \in Tray
      BY <2>0, <2>7, <3>1, SetFirewallEnabledType, TrayOnSubscribedType
      DEF OnDaemonSubscribed, Subscribe
    <3>3. /\ window' \in [connected : BOOLEAN, enabled : BOOLEAN, pressed : BOOLEAN]
          /\ known' \subseteq Nodes
          /\ inStep' \subseteq Nodes
      BY <2>7, <3>1 DEF OnDaemonSubscribed, Show, Subscribe, TypeOK
    <3> QED
      BY <2>7, <3>1, <3>2, <3>3 DEF OnDaemonSubscribed, TypeOK, Tray
  <2>8. ASSUME NEW p \in BOOLEAN, Toggle(p), events' \in 0 .. MaxEvents,
               UNCHANGED <<known, prompts, session, firewall>>
        PROVE  TypeOK'
    <3>1. subscribes' \in Seq(Subscribe)
      <4>1. Late(subscribes, Reached) \in Seq(Subscribe)
        BY <2>0, LateEffect
      <4>2. subscribes' = subscribes \/ subscribes' = Late(subscribes, Reached)
        BY <2>8, ToggleEffect DEF TypeOK
      <4> QED
        BY <2>0, <4>1, <4>2
    <3>2. tray' \in Tray
      BY <2>0, <2>8, ToggleEffect, SetFirewallEnabledType
    <3>3. window' \in [connected : BOOLEAN, enabled : BOOLEAN, pressed : BOOLEAN]
      <4>1. /\ window.connected =>
                  window' = [window EXCEPT !.enabled = ~window.enabled, !.pressed = p]
            /\ ~window.connected => window' = [window EXCEPT !.pressed = FALSE]
        BY <2>8, ToggleEffect
      <4> QED
        BY <4>1 DEF TypeOK
    <3>4. outbox' \in [Nodes -> Note \cup {"none"}] /\ inStep' \subseteq Nodes
      <4>1. \/ outbox' = [n \in Nodes |->
                            IF n \notin Reached THEN outbox[n]
                            ELSE IF ~window.enabled THEN "LOAD_FIREWALL" ELSE "UNLOAD_FIREWALL"]
               /\ inStep' = Reached
            \/ outbox' = outbox /\ inStep' = inStep
        BY <2>8, ToggleEffect DEF TypeOK
      <4> QED
        BY <2>0, <4>1 DEF TypeOK, Note
    <3> QED
      BY <2>8, <3>1, <3>2, <3>3, <3>4 DEF TypeOK, Tray
  <2>9. CASE ClickPauseButton
    <3>1. (~window.pressed) \in BOOLEAN
      <4>1. window.pressed = TRUE \/ window.pressed = FALSE
        BY <2>0
      <4> QED
        BY <4>1
    <3>2. events' \in 0 .. MaxEvents
      BY <2>9 DEF ClickPauseButton, TypeOK
    <3> QED
      BY <2>8, <2>9, <3>1, <3>2 DEF ClickPauseButton
  <2>10. CASE ClickTrayItem
    <3>1. events' \in 0 .. MaxEvents
      BY <2>10 DEF ClickTrayItem, TypeOK
    <3> QED
      BY <2>0, <2>8, <2>10, <3>1 DEF ClickTrayItem
  <2>11. CASE OpenPrompt
    <3>1. tray' \in Tray
      BY <2>0, <2>11 DEF OpenPrompt, Tray, Icons
    <3>2. prompts' \in 0 .. MaxPrompts
      BY <2>11 DEF OpenPrompt, TypeOK
    <3>3. events' \in 0 .. MaxEvents
      BY <2>11 DEF OpenPrompt, TypeOK
    <3> QED
      BY <2>11, <3>1, <3>2, <3>3 DEF OpenPrompt, TypeOK, Tray
  <2>12. CASE ClosePrompt
    <3>1. tray' \in Tray
      BY <2>0, <2>12, UpdateIconType DEF ClosePrompt
    <3> QED
      BY <2>12, <3>1 DEF ClosePrompt, TypeOK, Tray
  <2>13. CASE ChangeIconTheme
    <3>1. tray' \in Tray
      BY <2>0, <2>13, ReloadIconsType DEF ChangeIconTheme
    <3> QED
      BY <2>13, <3>1 DEF ChangeIconTheme, TypeOK, Tray
  <2>14. CASE UNCHANGED vars
    BY <2>14 DEF vars, TypeOK
  <2> QED
    BY <2>1, <2>2, <2>3, <2>4, <2>5, <2>6, <2>7, <2>9, <2>10, <2>11, <2>12, <2>13, <2>14
    DEF Next
<1> QED
  BY <1>1, <1>2, PTL DEF Spec
-----------------------------------------------------------------------------
\* The tray says what the window says, whatever prompts are open: every
\* operation of the tray ends in the icon that its state calls for.
THEOREM TraySafe == Spec => []Safe
<1>1. Init => Safe
  <2>1. Init => TypeOK
    BY BoundsAssumption DEF Init, TypeOK, Icons, Labels, Note
  <2>2. Init => TrayFollowsWindow
    BY DEF Init, TrayFollowsWindow, IconFor
  <2> QED
    BY <2>1, <2>2 DEF Safe
<1>2. TrayFollowsWindow /\ TypeOK /\ TypeOK' /\ [Next]_vars => TrayFollowsWindow'
  <2> SUFFICES ASSUME TrayFollowsWindow, TypeOK, TypeOK', [Next]_vars PROVE TrayFollowsWindow'
    OBVIOUS
  <2> USE DEF gui, wire
  <2>0. /\ tray \in Tray
        /\ window.enabled \in BOOLEAN /\ window.pressed \in BOOLEAN
    BY DEF TypeOK, Tray
  <2>1. ASSUME UNCHANGED <<window, tray, known, prompts>> PROVE TrayFollowsWindow'
    BY <2>1 DEF TrayFollowsWindow, IconFor, LabelFor
  <2>2. CASE \E n \in Nodes : \/ Connect(n) \/ OpenStream(n) \/ Disconnect(n)
                              \/ RestartDaemon(n) \/ Obey(n) \/ Refuse(n)
    BY <2>1, <2>2 DEF Connect, OpenStream, Disconnect, RestartDaemon, Obey, Refuse
  <2>3. CASE OnDaemonSubscribed
    <3> DEFINE s == Head(subscribes)
               nodes == known \cup {s.node}
               t == SetFirewallEnabled(tray, s.running)
    <3>1. s \in Subscribe /\ s.running \in BOOLEAN
      BY <2>3, TailEffect DEF OnDaemonSubscribed, Subscribe
    <3>2. /\ window' = Show(s.running)
          /\ tray' = TrayOnSubscribed(t, s.running, nodes)
          /\ known' = nodes
          /\ prompts' = prompts
      BY <2>3 DEF OnDaemonSubscribed
    <3> HIDE DEF s, nodes, t
    <3>3. t \in Tray
      BY <2>0, <3>1, SetFirewallEnabledType DEF t
    <3>4. /\ tray'.icon = IconFor(tray')
          /\ tray'.connected
          /\ tray'.enabled = s.running
          /\ tray'.label = LabelFor(s.running)
          /\ tray'.usable = \A m, n \in known' : m = n
      <4> DEFINE u == TrayOnSubscribed(t, s.running, nodes)
      <4>1. /\ u.icon = IconFor(u)
            /\ u.connected
            /\ u.enabled = s.running
            /\ u.label = LabelFor(s.running)
            /\ u.usable = \A m, n \in nodes : m = n
        BY <3>1, <3>3, TrayOnSubscribedType
      <4>2. tray' = u
        BY <3>2
      <4> HIDE DEF u
      <4> QED
        BY <3>2, <4>1, <4>2, Zenon
    <3>5. window'.connected = TRUE /\ window'.enabled = s.running
      BY <3>2 DEF Show, TypeOK
    <3>6. tray'.connected = TRUE
      BY <3>4 DEF TypeOK
    <3> QED
      BY <3>4, <3>5, <3>6 DEF TrayFollowsWindow
  <2>4. ASSUME NEW p \in BOOLEAN, Toggle(p), UNCHANGED <<known, prompts>>
        PROVE  TrayFollowsWindow'
    <3>1. CASE window.connected
      <4>1. /\ window' = [window EXCEPT !.enabled = ~window.enabled, !.pressed = p]
            /\ tray' = SetFirewallEnabled(tray, ~window.enabled)
        BY <2>4, <3>1, ToggleEffect
      <4>2. PICK e \in BOOLEAN : e = ~window.enabled
        OBVIOUS
      <4>3. window'.enabled = e /\ window'.connected = window.connected
        BY <4>1, <4>2 DEF TypeOK
      <4>4. /\ tray'.icon = IconFor(tray')
            /\ tray'.connected = tray.connected
            /\ tray'.enabled = e
            /\ tray'.label = LabelFor(e)
            /\ tray'.usable = tray.connected
        BY <2>0, <4>1, <4>2, SetFirewallEnabledType
      <4> QED
        BY <2>4, <3>1, <4>3, <4>4 DEF TrayFollowsWindow, TypeOK
    <3>2. CASE ~window.connected
      <4>1. window' = [window EXCEPT !.pressed = FALSE] /\ tray' = tray
        BY <2>4, <3>2, ToggleEffect
      <4>2. /\ ~window'.pressed /\ window'.connected = window.connected
            /\ window'.enabled = window.enabled
        BY <4>1 DEF TypeOK
      <4> QED
        BY <2>4, <3>2, <4>1, <4>2 DEF TrayFollowsWindow, IconFor
    <3> QED
      BY <3>1, <3>2
  <2>5. CASE ClickPauseButton
    <3>1. (~window.pressed) \in BOOLEAN
      <4>1. window.pressed = TRUE \/ window.pressed = FALSE
        BY <2>0
      <4> QED
        BY <4>1
    <3> QED
      BY <2>4, <2>5, <3>1 DEF ClickPauseButton
  <2>6. CASE ClickTrayItem
    BY <2>0, <2>4, <2>6 DEF ClickTrayItem
  <2>7. CASE OpenPrompt
    <3>1. /\ tray' = [tray EXCEPT !.icon = "alert"] /\ prompts' = prompts + 1
          /\ UNCHANGED <<window, known>>
      BY <2>7 DEF OpenPrompt
    <3>2. prompts' > 0
      BY <3>1 DEF TypeOK
    <3> QED
      BY <2>0, <3>1, <3>2 DEF TrayFollowsWindow, Tray
  <2>8. CASE ClosePrompt
    <3>1. tray' = UpdateIcon(tray) /\ UNCHANGED <<window, known>>
      BY <2>8 DEF ClosePrompt
    <3>2. /\ tray'.icon = IconFor(tray')
          /\ tray'.connected = tray.connected
          /\ tray'.enabled = tray.enabled
          /\ tray'.label = tray.label
          /\ tray'.usable = tray.usable
      BY <2>0, <3>1, UpdateIconType
    <3> QED
      BY <3>1, <3>2 DEF TrayFollowsWindow
  <2>9. CASE ChangeIconTheme
    <3>1. tray' = ReloadIcons(tray) /\ UNCHANGED <<window, known>>
      BY <2>9 DEF ChangeIconTheme
    <3>2. /\ tray'.icon = IconFor(tray')
          /\ tray'.connected = tray.connected
          /\ tray'.enabled = tray.enabled
          /\ tray'.label = LabelFor(tray.enabled)
          /\ tray'.usable = tray.usable
      BY <2>0, <3>1, ReloadIconsType
    <3> QED
      BY <3>1, <3>2 DEF TrayFollowsWindow
  <2>10. CASE UNCHANGED vars
    BY <2>1, <2>10 DEF vars
  <2> QED
    BY <2>2, <2>3, <2>5, <2>6, <2>7, <2>8, <2>9, <2>10 DEF Next
<1> QED
  BY <1>1, <1>2, TypeCorrect, PTL DEF Spec, Safe
-----------------------------------------------------------------------------
LEMMA RequestType ==
  ASSUME TypeOK, NEW i \in 1 .. Len(subscribes)
  PROVE  subscribes[i].node \in Nodes /\ subscribes[i].running \in BOOLEAN
<1>1. subscribes[i] \in Subscribe
  BY DEF TypeOK
<1> QED
  BY <1>1 DEF Subscribe

\* Requests that go out of date, and the others as they are, stay true.
LEMMA LateKeepsQueueInv ==
  ASSUME TypeOK, QueueInv, NEW late \in SUBSET Nodes,
         subscribes' = Late(subscribes, late),
         \A n \in Nodes \ late : /\ session'[n] = session[n]
                                 /\ outbox'[n] = outbox[n]
                                 /\ firewall'[n] = firewall[n]
  PROVE  QueueInv'
<1> DEFINE q == Late(subscribes, late)
<1>1. /\ Len(q) = Len(subscribes)
      /\ \A i \in 1 .. Len(subscribes) :
           /\ q[i].node = subscribes[i].node
           /\ q[i].running = subscribes[i].running
           /\ q[i].current <=> subscribes[i].current /\ subscribes[i].node \notin late
  BY LateEffect DEF TypeOK
<1>2. \A i \in 1 .. Len(subscribes) : subscribes[i].node \in Nodes
  BY RequestType
<1>3. subscribes' = q
  OBVIOUS
<1> HIDE DEF q
<1> QED
  BY <1>1, <1>2, <1>3 DEF QueueInv

\* One step per action, and under it one per conjunct the action disturbs.
LEMMA Step ==
  ASSUME IInv, TypeOK', [Next]_vars
  PROVE  IInv'
<1> USE DEF IInv, gui, wire
<1>0. /\ subscribes \in Seq(Subscribe) /\ Reached \in SUBSET Nodes
      /\ \A i \in 1 .. Len(subscribes) :
           subscribes[i].node \in Nodes /\ subscribes[i].running \in BOOLEAN
      /\ inStep \subseteq Nodes
  BY RequestType DEF TypeOK, Reached
<1>1. ASSUME NEW n \in Nodes, Connect(n) PROVE IInv'
  <2> DEFINE q == Late(subscribes, {n})
             s == [node |-> n, running |-> firewall[n], current |-> TRUE]
  <2>1. /\ Len(q) = Len(subscribes) /\ q \in Seq(Subscribe)
        /\ \A i \in 1 .. Len(subscribes) :
             /\ q[i].node = subscribes[i].node
             /\ q[i].running = subscribes[i].running
             /\ q[i].current <=> subscribes[i].current /\ subscribes[i].node \notin {n}
    BY <1>0, LateEffect
  <2>2. subscribes' = Append(q, s)
    BY <1>1, OutdatedIsLate DEF Connect
  <2>3. s \in Subscribe
    BY DEF Subscribe, TypeOK
  <2>4. /\ s.node = n /\ s.running = firewall[n]
        /\ session' = [session EXCEPT ![n] = "subscribed"]
        /\ outbox[n] = "none"
        /\ UNCHANGED <<firewall, outbox, inStep, window>>
    BY <1>1 DEF Connect, OutboxInv
  <2> HIDE DEF q, s
  <2>5. /\ Len(subscribes') = Len(subscribes) + 1
        /\ subscribes'[Len(subscribes) + 1] = s
        /\ \A i \in 1 .. Len(subscribes) : subscribes'[i] = q[i]
    BY <1>0, <2>1, <2>2, <2>3
  <2>6. QueueInv'
    <3> SUFFICES ASSUME NEW i \in 1 .. Len(subscribes'), subscribes'[i].current
                 PROVE  LET m == subscribes'[i].node
                        IN  /\ session'[m] # "off"
                            /\ outbox'[m] = "none"
                            /\ firewall'[m] = subscribes'[i].running
      BY DEF QueueInv
    <3>1. CASE i = Len(subscribes) + 1
      BY <2>4, <2>5, <3>1 DEF TypeOK
    <3>2. CASE i \in 1 .. Len(subscribes)
      <4>1. /\ subscribes'[i].node = subscribes[i].node /\ subscribes[i].node # n
            /\ subscribes'[i].running = subscribes[i].running
            /\ subscribes[i].current
        BY <2>1, <2>5, <3>2
      <4>2. session'[subscribes[i].node] = session[subscribes[i].node]
        BY <1>0, <2>4, <3>2, <4>1 DEF TypeOK
      <4> QED
        BY <2>4, <3>2, <4>1, <4>2 DEF QueueInv
    <3> QED
      BY <1>0, <2>5, <3>1, <3>2
  <2>7. OutboxInv' /\ InStepInv' /\ ShownIsRunning'
    BY <1>1, <2>4 DEF Connect, OutboxInv, InStepInv, ShownIsRunning, Coming, TypeOK
  <2> QED
    BY <2>6, <2>7
<1>2. ASSUME NEW n \in Nodes, OpenStream(n) PROVE IInv'
  BY <1>0, <1>2 DEF OpenStream, QueueInv, OutboxInv, InStepInv, ShownIsRunning, Coming, TypeOK
<1>3. ASSUME NEW n \in Nodes, Disconnect(n) PROVE IInv'
  <2>1. /\ subscribes' = Late(subscribes, {n})
        /\ session' = [session EXCEPT ![n] = "off"]
        /\ outbox' = [outbox EXCEPT ![n] = "none"]
        /\ inStep' = inStep \ {n}
        /\ UNCHANGED <<window, firewall>>
    BY <1>3, OutdatedIsLate DEF Disconnect
  <2>2. QueueInv'
    <3>1. \A m \in Nodes \ {n} : /\ session'[m] = session[m]
                                /\ outbox'[m] = outbox[m]
                                /\ firewall'[m] = firewall[m]
      BY <2>1 DEF TypeOK
    <3> QED
      BY <2>1, <3>1, LateKeepsQueueInv
  <2>3. OutboxInv' /\ InStepInv' /\ ShownIsRunning'
    BY <1>0, <2>1 DEF OutboxInv, InStepInv, ShownIsRunning, Coming, TypeOK
  <2> QED
    BY <2>2, <2>3
<1>4. ASSUME NEW n \in Nodes, RestartDaemon(n) PROVE IInv'
  BY <1>0, <1>4 DEF RestartDaemon, QueueInv, OutboxInv, InStepInv, ShownIsRunning, Coming, TypeOK
<1>5. ASSUME NEW n \in Nodes, Obey(n) PROVE IInv'
  BY <1>0, <1>5 DEF Obey, QueueInv, OutboxInv, InStepInv, ShownIsRunning, Coming, TypeOK
<1>6. ASSUME NEW n \in Nodes, Refuse(n) PROVE IInv'
  BY <1>0, <1>6 DEF Refuse, QueueInv, OutboxInv, InStepInv, ShownIsRunning, Coming, TypeOK
<1>7. CASE OnDaemonSubscribed
  <2> DEFINE s == Head(subscribes)
  <2>1. /\ s = subscribes[1] /\ 1 \in 1 .. Len(subscribes)
        /\ \A i \in 1 .. Len(subscribes') :
             i + 1 \in 1 .. Len(subscribes) /\ subscribes'[i] = subscribes[i + 1]
    BY <1>7, TailEffect DEF OnDaemonSubscribed
  <2>2. /\ window' = Show(s.running)
        /\ inStep' = LET kept == IF s.running = window.enabled THEN inStep ELSE {}
                     IN  IF s.current THEN kept \cup {s.node} ELSE kept \ {s.node}
        /\ UNCHANGED <<session, firewall, outbox>>
    BY <1>7 DEF OnDaemonSubscribed
  <2> HIDE DEF s
  <2>3. QueueInv' /\ OutboxInv'
    BY <2>1, <2>2 DEF QueueInv, OutboxInv
  <2>4. window'.enabled = s.running
    BY <2>2 DEF Show, TypeOK
  <2>5. s.current => /\ session[s.node] # "off"
                     /\ outbox[s.node] = "none"
                     /\ firewall[s.node] = s.running
    BY <2>1 DEF QueueInv
  <2>6. ASSUME NEW n \in inStep' PROVE session'[n] # "off" /\ Coming(n)' = window'.enabled
    <3>1. CASE s.current /\ n = s.node
      BY <2>2, <2>4, <2>5, <3>1 DEF Coming
    <3>2. CASE n \in inStep /\ s.running = window.enabled
      BY <2>2, <2>4, <3>2 DEF InStepInv, ShownIsRunning, Coming
    <3> QED
      BY <2>2, <2>6, <3>1, <3>2
  <2> QED
    BY <2>3, <2>6 DEF InStepInv, ShownIsRunning
<1>8. ASSUME NEW p \in BOOLEAN, Toggle(p), UNCHANGED <<session, firewall>>
      PROVE  IInv'
  <2>1. CASE window.connected
    <3>1. /\ window' = [window EXCEPT !.enabled = ~window.enabled, !.pressed = p]
          /\ outbox' = [n \in Nodes |->
                         IF n \notin Reached THEN outbox[n]
                         ELSE IF ~window.enabled THEN "LOAD_FIREWALL" ELSE "UNLOAD_FIREWALL"]
          /\ inStep' = Reached
          /\ subscribes' = Late(subscribes, Reached)
      BY <1>8, <2>1, ToggleEffect
    <3>2. QueueInv'
      BY <1>0, <1>8, <3>1, LateKeepsQueueInv
    <3>3. OutboxInv' /\ InStepInv'
      BY <1>8, <3>1 DEF OutboxInv, InStepInv, Reached
    <3>4. window'.enabled = ~window.enabled
      BY <3>1 DEF TypeOK
    <3>5. ShownIsRunning'
      BY <1>0, <3>1, <3>4 DEF ShownIsRunning, Coming
    <3> QED
      BY <3>2, <3>3, <3>5
  <2>2. CASE ~window.connected
    <3>1. /\ window' = [window EXCEPT !.pressed = FALSE]
          /\ UNCHANGED <<outbox, subscribes, inStep>>
      BY <1>8, <2>2, ToggleEffect
    <3>2. window'.enabled = window.enabled
      BY <3>1 DEF TypeOK
    <3> QED
      BY <1>8, <3>1, <3>2 DEF QueueInv, OutboxInv, InStepInv, ShownIsRunning, Coming
  <2> QED
    BY <2>1, <2>2
<1>9. CASE ClickPauseButton
  <2>1. (~window.pressed) \in BOOLEAN
    <3>1. window.pressed = TRUE \/ window.pressed = FALSE
      BY DEF TypeOK
    <3> QED
      BY <3>1
  <2> QED
    BY <1>8, <1>9, <2>1 DEF ClickPauseButton
<1>10. CASE ClickTrayItem
  <2>1. window.pressed \in BOOLEAN
    BY DEF TypeOK
  <2> QED
    BY <1>8, <1>10, <2>1 DEF ClickTrayItem
<1>11. ASSUME UNCHANGED <<window, wire>> PROVE IInv'
  BY <1>11 DEF QueueInv, OutboxInv, InStepInv, ShownIsRunning, Coming
<1>12. CASE OpenPrompt \/ ClosePrompt \/ ChangeIconTheme \/ UNCHANGED vars
  BY <1>11, <1>12 DEF OpenPrompt, ClosePrompt, ChangeIconTheme, vars
<1> QED
  BY <1>1, <1>2, <1>3, <1>4, <1>5, <1>6, <1>7, <1>9, <1>10, <1>12 DEF Next

\* The firewall the window shows is the one that runs, or is being made to, at
\* every daemon that had the last word or took the last toggle: the Subscribe
\* requests in the queue are true unless something happened to their daemon.
THEOREM FirewallShown == Spec => []ShownIsRunning
<1>1. Init => IInv
  BY BoundsAssumption DEF Init, IInv, TypeOK, Icons, Labels, Note,
     QueueInv, OutboxInv, InStepInv, ShownIsRunning
<1>2. IInv /\ TypeOK' /\ [Next]_vars => IInv'
  BY Step
<1>3. IInv => ShownIsRunning
  BY DEF IInv
<1> QED
  BY <1>1, <1>2, <1>3, TypeCorrect, PTL DEF Spec
=============================================================================
