------------------------------- MODULE Shell -------------------------------
(***************************************************************************)
(* The firewall switch: the main window's pause button and state label,    *)
(* the tray icon with its menu, and the daemons whose firewalls they speak *)
(* of (src/src/systray.cpp, main_window.cpp, nodes.cpp, ui_controller.cpp, *)
(* main.cpp).                                                              *)
(*                                                                         *)
(* A handler of the GUI thread is one action; a signal runs its slots in   *)
(* the order main.cpp connects them, the window's before the tray's.  A    *)
(* prompt runs a nested event loop in which every other event is handled.  *)
(* Of NotifyStream there remains: a notification is written to a daemon    *)
(* whose stream is open and idle and dropped for any other.  The window    *)
(* never hears that a daemon has gone.                                     *)
(***************************************************************************)
EXTENDS Naturals, Sequences

CONSTANTS Nodes,
          MaxQueue,    \* bound: Subscribe events waiting for the GUI thread
          MaxPrompts,  \* bound: prompts open inside one another
          MaxEvents    \* bound: connections, user actions and failures

ASSUME BoundsAssumption ==
  MaxQueue \in Nat \ {0} /\ MaxPrompts \in Nat /\ MaxEvents \in Nat

Subscribe == [node : Nodes, running : BOOLEAN, current : BOOLEAN]
Icons == {"off", "white", "pause", "alert"}
Labels == {"Disable", "Enable"}
Note == {"LOAD_FIREWALL", "UNLOAD_FIREWALL"}

VARIABLES
  window,     \* MainWindow: m_daemonConnected, m_interceptionEnabled, the button
  tray,       \* SysTray: m_connected, m_fwEnabled, the icon, the menu's item
  known,      \* keys of Nodes::m_nodes
  prompts,    \* prompts that are open
  subscribes, \* SubscribeEvents the GUI thread has not handled
  session,    \* external, per daemon: "off", "subscribed", "open"
  firewall,   \* external: whether each daemon's firewall runs
  outbox,     \* the notification being written to each daemon
  inStep,     \* history: daemons the window has the last word of, or gave it to
  events

gui == <<window, tray, known, prompts>>
wire == <<subscribes, session, firewall, outbox, inStep>>
vars == <<gui, wire, events>>

TypeOK ==
  /\ window \in [connected : BOOLEAN, enabled : BOOLEAN, pressed : BOOLEAN]
  /\ tray \in [connected : BOOLEAN, enabled : BOOLEAN, icon : Icons,
               label : Labels, usable : BOOLEAN]
  /\ known \subseteq Nodes
  /\ prompts \in 0 .. MaxPrompts
  /\ subscribes \in Seq(Subscribe)
  /\ session \in [Nodes -> {"off", "subscribed", "open"}]
  /\ firewall \in [Nodes -> BOOLEAN]
  /\ outbox \in [Nodes -> Note \cup {"none"}]
  /\ inStep \subseteq Nodes
  /\ events \in 0 .. MaxEvents

Init ==
  /\ window = [connected |-> FALSE, enabled |-> TRUE, pressed |-> FALSE]
  /\ tray = [connected |-> FALSE, enabled |-> FALSE, icon |-> "off",
             label |-> "Disable", usable |-> FALSE]
  /\ known = {} /\ prompts = 0 /\ subscribes = <<>>
  /\ session = [n \in Nodes |-> "off"]
  /\ firewall \in [Nodes -> BOOLEAN]
  /\ outbox = [n \in Nodes |-> "none"]
  /\ inStep = {} /\ events = 0

Happens == events < MaxEvents /\ events' = events + 1

-----------------------------------------------------------------------------
(* The tray, each operation from a state t.                                *)

LabelFor(enabled) == IF enabled THEN "Disable" ELSE "Enable"

IconFor(t) == IF ~t.connected THEN "off" ELSE IF t.enabled THEN "white" ELSE "pause"

UpdateIcon(t) == [t EXCEPT !.icon = IconFor(t)]

SetFirewallEnabled(t, enabled) ==
  UpdateIcon([t EXCEPT !.enabled = enabled,
                       !.label = LabelFor(enabled),
                       !.usable = t.connected])

\* SysTray::onDaemonSubscribed(): with more nodes than one the item is off.
TrayOnSubscribed(t, enabled, nodes) ==
  UpdateIcon([connected |-> TRUE, enabled |-> enabled, icon |-> t.icon,
              label |-> LabelFor(enabled),
              usable |-> \A m, n \in nodes : m = n])

\* A change of the icon theme.
ReloadIcons(t) == UpdateIcon([t EXCEPT !.label = LabelFor(t.enabled)])

-----------------------------------------------------------------------------
(* The daemons.                                                            *)

Outdated(queue, n) ==
  [i \in DOMAIN queue |-> [queue[i] EXCEPT !.current = @ /\ queue[i].node # n]]

\* A daemon says in its Subscribe request whether its firewall runs; an
\* older request of it is out of date.
Connect(n) ==
  /\ Happens
  /\ session[n] = "off" /\ Len(subscribes) < MaxQueue
  /\ session' = [session EXCEPT ![n] = "subscribed"]
  /\ subscribes' = Append(Outdated(subscribes, n),
                          [node |-> n, running |-> firewall[n], current |-> TRUE])
  /\ UNCHANGED <<gui, firewall, outbox, inStep>>

OpenStream(n) ==
  /\ session[n] = "subscribed"
  /\ session' = [session EXCEPT ![n] = "open"]
  /\ UNCHANGED <<gui, subscribes, firewall, outbox, inStep, events>>

\* The daemon stops, or loses the UI; what was being written to it is lost.
Disconnect(n) ==
  /\ Happens
  /\ session[n] # "off"
  /\ session' = [session EXCEPT ![n] = "off"]
  /\ subscribes' = Outdated(subscribes, n)
  /\ outbox' = [outbox EXCEPT ![n] = "none"]
  /\ inStep' = inStep \ {n}
  /\ UNCHANGED <<gui, firewall>>

\* Away from the UI a daemon starts with the firewall its own file names.
RestartDaemon(n) ==
  /\ Happens
  /\ session[n] = "off"
  /\ firewall' = [firewall EXCEPT ![n] = ~@]
  /\ UNCHANGED <<gui, subscribes, session, outbox, inStep>>

Obey(n) ==
  /\ outbox[n] # "none"
  /\ firewall' = [firewall EXCEPT ![n] = outbox[n] = "LOAD_FIREWALL"]
  /\ outbox' = [outbox EXCEPT ![n] = "none"]
  /\ UNCHANGED <<gui, subscribes, session, inStep, events>>

\* The daemon answers ERROR, which no part of the UI looks at.
Refuse(n) ==
  /\ Happens
  /\ outbox[n] # "none"
  /\ outbox' = [outbox EXCEPT ![n] = "none"]
  /\ inStep' = inStep \ {n}
  /\ UNCHANGED <<gui, subscribes, session, firewall>>

-----------------------------------------------------------------------------
(* The GUI thread.                                                         *)

\* setInterceptionEnabled() and the emit of interceptionToggled().
Show(enabled) == [window EXCEPT !.connected = TRUE, !.enabled = enabled]

OnDaemonSubscribed_TrayOnly ==
  /\ subscribes # <<>>
  /\ LET s == Head(subscribes)
         nodes == known \cup {s.node}
         kept == IF s.running = window.enabled THEN inStep ELSE {}
     IN /\ known' = nodes
        /\ window' = [window EXCEPT !.connected = TRUE]
        /\ tray' = TrayOnSubscribed(SetFirewallEnabled(tray, s.running), s.running, nodes)
        /\ inStep' = IF s.current THEN kept \cup {s.node} ELSE kept \ {s.node}
  /\ subscribes' = Tail(subscribes)
  /\ UNCHANGED <<prompts, session, firewall, outbox, events>>

\* customEvent(): the node is added, then the window's slot runs, then the
\* tray's.  A daemon whose request is out of date is out of step, and so
\* are the others when what is shown changes.
OnDaemonSubscribed ==
  /\ subscribes # <<>>
  /\ LET s == Head(subscribes)
         nodes == known \cup {s.node}
         kept == IF s.running = window.enabled THEN inStep ELSE {}
     IN /\ known' = nodes
        /\ window' = Show(s.running)
        /\ tray' = TrayOnSubscribed(SetFirewallEnabled(tray, s.running), s.running, nodes)
        /\ inStep' = IF s.current THEN kept \cup {s.node} ELSE kept \ {s.node}
  /\ subscribes' = Tail(subscribes)
  /\ UNCHANGED <<prompts, session, firewall, outbox, events>>

\* broadcastNotification(): the daemons whose stream takes a Write now.
Reached == {n \in Nodes : session[n] = "open" /\ outbox[n] = "none"}

\* onInterceptionToggled(), the slot of the button and of the tray's item,
\* whose argument it does not look at; `pressed' is where a toggle button
\* stands by then.  What a daemon said before the notification is out of date.
Toggle(pressed) ==
  \/ /\ window.connected
     /\ LET want == ~window.enabled
        IN /\ window' = [window EXCEPT !.enabled = want, !.pressed = pressed]
           /\ tray' = SetFirewallEnabled(tray, want)
           /\ outbox' = [n \in Nodes |->
                           IF n \notin Reached THEN outbox[n]
                           ELSE IF want THEN "LOAD_FIREWALL" ELSE "UNLOAD_FIREWALL"]
     /\ subscribes' = [i \in DOMAIN subscribes |->
                         [subscribes[i] EXCEPT !.current = @ /\ subscribes[i].node \notin Reached]]
     /\ inStep' = Reached
  \/ /\ ~window.connected
     /\ window' = [window EXCEPT !.pressed = FALSE]
     /\ UNCHANGED <<tray, outbox, subscribes, inStep>>

\* A toggle button flips itself when it is clicked, before the slot runs.
ClickPauseButton ==
  /\ Happens
  /\ Toggle(~window.pressed)
  /\ UNCHANGED <<known, prompts, session, firewall>>

ClickTrayItem ==
  /\ Happens
  /\ tray.usable
  /\ Toggle(window.pressed)
  /\ UNCHANGED <<known, prompts, session, firewall>>

\* alertRequested() before promptUser(), alertFinished() after it.
OpenPrompt ==
  /\ Happens
  /\ prompts < MaxPrompts
  /\ prompts' = prompts + 1
  /\ tray' = [tray EXCEPT !.icon = "alert"]
  /\ UNCHANGED <<window, known, wire>>

ClosePrompt_KeepsIcon ==
  /\ prompts > 0
  /\ prompts' = prompts - 1
  /\ UNCHANGED <<window, tray, known, wire, events>>

ClosePrompt ==
  /\ prompts > 0
  /\ prompts' = prompts - 1
  /\ tray' = UpdateIcon(tray)
  /\ UNCHANGED <<window, known, wire, events>>

ChangeIconTheme ==
  /\ Happens
  /\ tray' = ReloadIcons(tray)
  /\ UNCHANGED <<window, known, prompts, wire>>

Next ==
  \/ \E n \in Nodes : \/ Connect(n) \/ OpenStream(n) \/ Disconnect(n)
                      \/ RestartDaemon(n) \/ Obey(n) \/ Refuse(n)
  \/ OnDaemonSubscribed
  \/ ClickPauseButton \/ ClickTrayItem
  \/ OpenPrompt \/ ClosePrompt
  \/ ChangeIconTheme

Spec == Init /\ [][Next]_vars

-----------------------------------------------------------------------------
(* Once a daemon has connected the tray says what the window says, in its  *)
(* icon, its item and what a click on it would do; the alert never         *)
(* outlives the prompts, whichever signals came while they were open; and  *)
(* with a lone daemon the item can be used.                                *)
TrayFollowsWindow ==
  /\ tray.connected = window.connected
  /\ tray.usable => tray.connected
  /\ ~window.connected => ~window.pressed
  /\ tray.icon \in IF prompts > 0 THEN {"alert", IconFor(tray)} ELSE {IconFor(tray)}
  /\ window.connected =>
       /\ tray.enabled = window.enabled
       /\ tray.label = LabelFor(window.enabled)
       /\ (\A m, n \in known : m = n) => tray.usable

Safe == TypeOK /\ TrayFollowsWindow

(* The firewall is what the window shows, or is being made so, at every    *)
(* daemon that had the last word or was given it: whose Subscribe request  *)
(* was true when it was shown, or whose stream took the last toggle.       *)
Coming(n) == IF outbox[n] = "none" THEN firewall[n] ELSE outbox[n] = "LOAD_FIREWALL"
ShownIsRunning == \A n \in inStep : Coming(n) = window.enabled
=============================================================================
