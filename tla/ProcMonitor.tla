----------------------------- MODULE ProcMonitor -----------------------------
(***************************************************************************)
(* The process details dialog (src/src/process_details_dialog.cpp) over    *)
(* the notification streams: it asks a daemon to report on one process     *)
(* until told to stop, and recognises the reports by the number of the     *)
(* notification, which is the second it was sent in.                       *)
(* Of NotifyStream there remains: a send while a Write is outstanding, or  *)
(* without a stream, is dropped.  What a tab or a label shows is the        *)
(* report it was last filled from.                                         *)
(***************************************************************************)
EXTENDS Naturals, Sequences, FiniteSets

CONSTANTS Nodes, Pids,
          Before,      \* Before[p]: the pids the combo box lists before p
          Pages,       \* the tabs of the dialog
          FirstPage,
          Labels,      \* those of the header that only some reports rewrite
          Optional,    \* the tabs and labels that a report may say nothing of
          NoPid, NoNode, NoData,
          MaxClock,    \* bound: seconds that pass
          MaxReplies,  \* bound: reports of one daemon on their way
          MaxClicks    \* bound: user actions and lost streams

ASSUME PidsAssumption ==
  /\ NoPid \notin Pids /\ NoNode \notin Nodes /\ FirstPage \in Pages
  /\ Optional \subseteq Pages \cup Labels
  /\ \A p \in Pids : Before[p] \subseteq Pids
  /\ \A S \in (SUBSET Pids) \ {{}} : \E p \in S : Before[p] \cap S = {}
ASSUME BoundsAssumption == MaxClock \in Nat /\ MaxReplies \in Nat \ {0} /\ MaxClicks \in Nat

Ids == 0 .. MaxClock
Types == {"MONITOR_PROCESS", "STOP_MONITOR_PROCESS"}
Parts == Pages \cup Labels
Data == [pid : Pids, node : Nodes, lacks : SUBSET Optional]
Note == [id : Ids, type : Types, pid : Pids]
Reply == [id : Ids, code : {"OK", "ERROR"}, data : Data \cup {NoData}]

\* m_pids: which row of the table a pid was first found in names its node.
Selections == UNION {[S -> Nodes] : S \in (SUBSET Pids) \ {{}}}

VARIABLES
  ui,         \* the dialog, and what it has sent
  connected,  \* daemons with a stream
  watched,    \* external: the notification by which a daemon watches a process
  replies,    \* external: reports of each daemon that the GUI has not handled
  now,        \* time(0)
  clicks

vars == <<ui, connected, watched, replies, now, clicks>>

Dialog ==
  [visible : BOOLEAN,
   pids : Selections \cup {<<>>},          \* m_pids
   choice : Pids \cup {NoPid},             \* m_pidCombo->currentText()
   pid : Pids \cup {NoPid},                \* m_pid
   node : Nodes \cup {NoNode},             \* m_node
   running : BOOLEAN,                      \* m_running
   lastNid : Ids,                          \* m_lastNid
   sent : [Ids -> Types \cup {"none"}],    \* m_notificationsSent
   shown : Data \cup {NoData},             \* m_lastJson, m_dataLoaded, arguments, CWD
   page : Pages,                           \* the current tab
   filled : [Parts -> Data \cup {NoData}], \* the text of each tab and label
   busy : [Nodes -> BOOLEAN],              \* m_writePending
   outbox : [Nodes -> Seq(Note)],          \* written, not yet received
   missed : [Nodes -> SUBSET Pids]]        \* history: the last word on the pid was dropped

TypeOK ==
  /\ ui \in Dialog
  /\ connected \subseteq Nodes
  /\ watched \in [Nodes -> [Pids -> Ids \cup {NoData}]]
  /\ replies \in [Nodes -> Seq(Reply)]
  /\ now \in Ids /\ clicks \in 0 .. MaxClicks

Empty == [g \in Parts |-> NoData]
NothingSent == [i \in Ids |-> "none"]

Init ==
  /\ ui = [visible |-> FALSE, lastNid |-> 0, pids |-> <<>>, choice |-> NoPid,
           pid |-> NoPid, node |-> NoNode, running |-> FALSE, sent |-> NothingSent,
           shown |-> NoData, page |-> FirstPage, filled |-> Empty,
           busy |-> [n \in Nodes |-> FALSE], outbox |-> [n \in Nodes |-> <<>>],
           missed |-> [n \in Nodes |-> {}]]
  /\ connected = Nodes
  /\ watched = [n \in Nodes |-> [p \in Pids |-> NoData]]
  /\ replies = [n \in Nodes |-> <<>>]
  /\ now = 0 /\ clicks = 0

-----------------------------------------------------------------------------
(* The parts of the handlers, each from a state d of the dialog.           *)

\* GRpcServer::sendNotification().
Send(d, type) ==
  IF d.node \in connected /\ ~d.busy[d.node]
  THEN [d EXCEPT !.busy[d.node] = TRUE,
                 !.outbox[d.node] = Append(@, [id |-> now, type |-> type, pid |-> d.pid]),
                 !.missed[d.node] = @ \ {d.pid}]
  ELSE [d EXCEPT !.missed[d.node] = @ \cup {d.pid}]

Register(d, type) == [d EXCEPT !.sent[now] = type, !.lastNid = now]

\* startMonitoring(): nothing while m_pid is set.
Start(d) ==
  IF d.pid # NoPid \/ d.choice = NoPid THEN d
  ELSE Register(Send([d EXCEPT !.pid = d.choice, !.node = d.pids[d.choice], !.running = TRUE],
                     "MONITOR_PROCESS"), "MONITOR_PROCESS")

\* stopMonitoring().
Stop(d) ==
  IF d.pid = NoPid THEN d
  ELSE [Register(Send(d, "STOP_MONITOR_PROCESS"), "STOP_MONITOR_PROCESS")
          EXCEPT !.running = FALSE, !.pid = NoPid]

Clear_HeaderOnly(d) == [d EXCEPT !.shown = NoData]

\* The labels, m_lastJson and the text of every tab.
Clear(d) == [d EXCEPT !.shown = NoData, !.filled = Empty]

Reset_KeepsIds(d) ==
  [Clear(d) EXCEPT !.pids = <<>>, !.choice = NoPid, !.pid = NoPid, !.node = NoNode,
                   !.running = FALSE, !.lastNid = 0]

\* resetUi().
Reset(d) ==
  [Clear(d) EXCEPT !.pids = <<>>, !.choice = NoPid, !.pid = NoPid, !.node = NoNode,
                   !.running = FALSE, !.lastNid = 0, !.sent = NothingSent]

\* The combo box is filled in the order of the map; its first item is current.
Offer(d, pids) ==
  [d EXCEPT !.pids = pids, !.visible = TRUE,
            !.choice = CHOOSE p \in DOMAIN pids : Before[p] \cap DOMAIN pids = {}]

\* renderTabFromJson() and the labels of loadDataJson(): the tab that is current
\* and the labels, but for those of which the report says nothing (Descriptors is
\* no array, IOStats or Statm no object, Path is empty): they stay as they were.
Visible(d) == {d.page} \cup Labels
Rendered(d, data) ==
  [d EXCEPT !.filled = [g \in Parts |-> IF g \in Visible(d) \ data.lacks
                                        THEN data ELSE @[g]]]

\* loadDataJson().
Load(d, data) == [Rendered(d, data) EXCEPT !.shown = data]

\* Between two sends of one handler the completion queue's thread may or may
\* not get to finish the first Write.
Meanwhile(d, swift) == [d EXCEPT !.busy = [n \in Nodes |-> @[n] /\ ~swift]]

-----------------------------------------------------------------------------
(* The user.                                                               *)

Click == clicks < MaxClicks /\ clicks' = clicks + 1
External == <<connected, watched, replies, now>>

Opened_ResetsFirst(pids, swift) == Start(Offer(Meanwhile(Stop(Reset(ui)), swift), pids))
Opened(pids, swift) == Start(Offer(Reset(Meanwhile(Stop(ui), swift)), pids))

\* MainWindow::onProcDetailsClicked(), monitor().  Assumed: after a click in
\* the dialog the user takes a second to choose other processes in the table.
Monitor(pids) ==
  /\ Click
  /\ ui.pids \in {<<>>, pids} \/ ui.lastNid < now
  /\ \E swift \in BOOLEAN : ui' = Opened(pids, swift)
  /\ UNCHANGED External

\* onPidChanged(), for any item that is activated.
PidChanged(d, p) ==
  LET c == [d EXCEPT !.choice = p]
  IN IF p = c.pid THEN {c}
     ELSE IF ~c.running THEN {Clear(c)}
     ELSE {Start(Meanwhile(Stop(Clear(c)), swift)) : swift \in BOOLEAN}

ChangePid(p) ==
  /\ Click /\ ui.visible /\ p \in DOMAIN ui.pids
  /\ ui' \in PidChanged(ui, p)
  /\ UNCHANGED External

\* onActionToggled().
ToggleAction ==
  /\ Click /\ ui.visible
  /\ ui' = IF ui.running THEN Stop(ui) ELSE Start(ui)
  /\ UNCHANGED External

\* onTabChanged().
ChangeTab(g) ==
  /\ Click /\ ui.visible /\ g # ui.page
  /\ ui' = LET d == [ui EXCEPT !.page = g]
           IN IF ui.shown = NoData THEN d ELSE Load(d, ui.shown)
  /\ UNCHANGED External

\* onCloseClicked().
Close ==
  /\ Click /\ ui.visible
  /\ ui' = [Stop(ui) EXCEPT !.visible = FALSE]
  /\ UNCHANGED External

\* Escape, or the window's close button: the dialog only hides.
Dismiss ==
  /\ Click /\ ui.visible
  /\ ui' = [ui EXCEPT !.visible = FALSE]
  /\ UNCHANGED External

-----------------------------------------------------------------------------
(* handleNotificationReply().                                              *)

Failed_KeepsRunning(d, id) == [d EXCEPT !.sent[id] = "none"]

\* With one pid and nothing to show, the dialog hides.
Failed(d, id) ==
  [d EXCEPT !.sent[id] = "none", !.running = FALSE,
            !.visible = @ /\ (d.shown # NoData \/ Cardinality(DOMAIN d.pids) > 1)]

\* Numbers that were not sent, and other nodes, are ignored; m_node is set when
\* anything was sent.
Handled(d, n, r) ==
  IF d.sent[r.id] = "none" \/ d.node # n THEN d
  ELSE IF r.code = "ERROR" THEN Failed(d, r.id)
  ELSE IF d.sent[r.id] = "STOP_MONITOR_PROCESS" THEN [d EXCEPT !.sent[r.id] = "none"]
  ELSE IF r.data = NoData THEN d
  ELSE Load(d, r.data)

HandleReply(n) ==
  /\ replies[n] # <<>>
  /\ ui' = Handled(ui, n, Head(replies[n]))
  /\ replies' = [replies EXCEPT ![n] = Tail(@)]
  /\ UNCHANGED <<connected, watched, now, clicks>>

-----------------------------------------------------------------------------
(* The streams and the daemons (external).                                 *)

WriteDone(n) ==
  /\ ui.busy[n]
  /\ ui' = [ui EXCEPT !.busy[n] = FALSE]
  /\ UNCHANGED <<connected, watched, replies, now, clicks>>

Room(n) == Len(replies[n]) < MaxReplies
Answer(n, id, code, data) ==
  replies' = [replies EXCEPT ![n] = Append(@, [id |-> id, code |-> code, data |-> data])]

\* A daemon starts to watch a process, or stops and says so.
Receive(n) ==
  /\ ui.outbox[n] # <<>>
  /\ LET note == Head(ui.outbox[n])
     IN \/ /\ note.type = "MONITOR_PROCESS"
           /\ watched' = [watched EXCEPT ![n][note.pid] = note.id]
           /\ UNCHANGED replies
        \/ /\ note.type = "STOP_MONITOR_PROCESS"
           /\ watched' = [watched EXCEPT ![n][note.pid] = NoData]
           /\ Room(n) /\ Answer(n, note.id, "OK", NoData)
  /\ ui' = [ui EXCEPT !.outbox[n] = Tail(@)]
  /\ UNCHANGED <<connected, now, clicks>>

Report(n, p) ==
  /\ watched[n][p] # NoData /\ Room(n)
  /\ \E lacks \in SUBSET Optional :
       Answer(n, watched[n][p], "OK", [pid |-> p, node |-> n, lacks |-> lacks])
  /\ UNCHANGED <<ui, connected, watched, now, clicks>>

\* The process is gone.
ReportError(n, p) ==
  /\ watched[n][p] # NoData /\ Room(n)
  /\ Answer(n, watched[n][p], "ERROR", NoData)
  /\ watched' = [watched EXCEPT ![n][p] = NoData]
  /\ UNCHANGED <<ui, connected, now, clicks>>

\* A stream ends with what is on it; the daemon gives up its watches.
Disconnect(n) ==
  /\ Click /\ n \in connected
  /\ connected' = connected \ {n}
  /\ ui' = [ui EXCEPT !.busy[n] = FALSE, !.outbox[n] = <<>>, !.missed[n] = Pids]
  /\ watched' = [watched EXCEPT ![n] = [p \in Pids |-> NoData]]
  /\ UNCHANGED <<replies, now>>

Connect(n) ==
  /\ n \notin connected
  /\ connected' = connected \cup {n}
  /\ UNCHANGED <<ui, watched, replies, now, clicks>>

Tick ==
  /\ now < MaxClock /\ now' = now + 1
  /\ UNCHANGED <<ui, connected, watched, replies, clicks>>

User ==
  \/ \E pids \in Selections : Monitor(pids)
  \/ \E p \in Pids : ChangePid(p)
  \/ \E g \in Pages : ChangeTab(g)
  \/ ToggleAction \/ Close \/ Dismiss

Stream(n) == HandleReply(n) \/ WriteDone(n) \/ Receive(n)
Next ==
  \/ User \/ Tick
  \/ \E n \in Nodes : Stream(n) \/ Disconnect(n) \/ Connect(n)
  \/ \E n \in Nodes, p \in Pids : Report(n, p) \/ ReportError(n, p)

\* gRPC and the event loop go on; a daemon reports on a timer.  Receive is
\* strongly fair since the bound on reports, not the code, makes it wait.
Fairness ==
  /\ \A n \in Nodes : WF_vars(HandleReply(n)) /\ WF_vars(WriteDone(n)) /\ SF_vars(Receive(n))
  /\ \A n \in Nodes, p \in Pids : WF_vars(Report(n, p))

Spec == Init /\ [][Next]_vars /\ Fairness

-----------------------------------------------------------------------------
(* Properties.                                                             *)

UnderWay(n, p) == \E i \in DOMAIN ui.outbox[n] : ui.outbox[n][i].pid = p

\* A daemon that watches a process for which the dialog has since been told
\* something else was told so too: unless a notification was dropped, no watch
\* is left behind by changing the process, closing the dialog or opening it for
\* another program (process_details_dialog.cpp:360-431).
NoWatchLeftBehind ==
  \A n \in Nodes, p \in Pids :
    watched[n][p] # NoData /\ p \notin ui.missed[n] /\ ~UnderWay(n, p)
      => ui.pid = p /\ ui.node = n

\* Whatever is on the screen, in a tab that is not looked at too, is about one of
\* the processes the dialog was opened for, as its own node reported it, however
\* late reports of an earlier opening arrive (438-443).
AskedForNow(data) ==
  data # NoData => data.pid \in DOMAIN ui.pids /\ ui.pids[data.pid] = data.node
ShownWasAskedFor ==
  AskedForNow(ui.shown) /\ \A g \in Parts : AskedForNow(ui.filled[g])

\* The header and the visible tab are those of the last report: tabs are rendered
\* when they are looked at (587-600, 610-615).  Only what that report says nothing
\* of may be left over from one before (98-137).
PageFitsHeader ==
  \A g \in Visible(ui) :
    \/ ui.filled[g] = ui.shown
    \/ ui.shown # NoData /\ g \in ui.shown.lacks

Safe == TypeOK /\ PageFitsHeader

\* Once the user leaves the dialog alone, it comes to show the process it
\* monitors, unless a notification to that node was dropped.
MonitoredIsShown ==
  <>[](ui.running /\ ui.missed[ui.node] = {}
         => ui.shown # NoData /\ ui.shown.pid = ui.pid /\ ui.shown.node = ui.node)
=============================================================================
