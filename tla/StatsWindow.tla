----------------------------- MODULE StatsWindow -----------------------------
(***************************************************************************)
(* The tabs of the main window over the tables of module Statistics        *)
(* (src/src/main_window.cpp).  Each tab shows an overview, or the          *)
(* connections of one row of it.  A hidden view is loaded again before it  *)
(* is shown, so the model keeps what the current tab shows, `screen'; the  *)
(* connections of a rule are the exception, which nothing loads again.     *)
(* What the details group, limit and hide is in module ConnectionViews,    *)
(* the rows of the overview of the rules are in module RuleSync.           *)
(* populateStats() ends by emitting statsUpdated(), whose slot runs inside *)
(* it: the refresh belongs to the step that handled the ping.              *)
(* The limit on the number of rows, sorting and filters are left out.      *)
(***************************************************************************)
EXTENDS Statistics

CONSTANTS RuleOf,      \* RuleOf[c]: the rule that connection c met
          Internal,    \* connections that the UI's own DNS rule allowed
          Overview     \* no row is opened

Whats == {d[2] : d \in Details}
Tabs == {"events", "nodes", "rules"} \cup Kinds
UserRules == Peers \X {RuleOf[c] : c \in Conns \ Internal}   \* the rows of the rules tab

ASSUME WindowAssumption ==
  /\ Internal \subseteq Conns /\ Overview \notin Whats \cup Peers \cup UserRules
  /\ Kinds \cap {"events", "nodes", "rules"} = {}

VARIABLES
  tab,     \* the current tab
  detail,  \* the row each tab has opened
  frozen,  \* m_logsFrozen
  ruleRows,  \* m_rulesConnModel while a rule is open
  screen   \* the rows that the current tab shows

window_vars == <<tab, detail, frozen, ruleRows, screen>>

ScreenRow ==
  Row \cup [addr : Peers, cons : Nat] \cup [what : Whats, hits : Nat]

WindowTypeOK ==
  /\ TypeOK
  /\ tab \in Tabs /\ frozen \in BOOLEAN
  /\ DOMAIN detail = Tabs /\ detail["rules"] \in UserRules \cup {Overview}
  /\ \A t \in Tabs \ {"rules"} : detail[t] \in Whats \cup Peers \cup {Overview}
  /\ ruleRows \subseteq Row
  /\ screen \subseteq ScreenRow

-----------------------------------------------------------------------------
(* The queries.                                                            *)

Visible(t) == {r \in t.connections : r.conn \notin Internal}

NodeRows(t) ==
  {[addr |-> n, cons |-> t.nodes[n]] : n \in {m \in Peers : t.nodes[m] # NoCount}}
HitRows(t, k) ==
  {[what |-> d[2], hits |-> t.hits[d]] : d \in {e \in Details : e[1] = k /\ t.hits[e] # 0}}

Matches(r, kind, what) ==
  IF kind = "nodes" THEN r.node = what ELSE WhatOf[r.conn][kind] = what

RuleConnections(t, what) ==
  {r \in t.connections : r.node = what[1] /\ RuleOf[r.conn] = what[2]}

Loaded(t, kind, what) ==
  CASE kind = "events" -> Visible(t)
    [] kind = "nodes" /\ what = Overview -> NodeRows(t)
    [] kind \in Kinds /\ what = Overview -> HitRows(t, kind)
    [] OTHER -> {r \in Visible(t) : Matches(r, kind, what)}

\* Both are primed: the view is filled from the tables as they are by then.
Load ==
  screen' = IF tab' = "rules" THEN ruleRows' ELSE Loaded(db', tab', detail'[tab'])
Keep == UNCHANGED screen

WindowInit ==
  /\ Init
  /\ tab = "events" /\ frozen = FALSE
  /\ detail = [t \in Tabs |-> Overview]
  /\ ruleRows = {} /\ screen = {}

-----------------------------------------------------------------------------
(* Signals of the controller.                                              *)

\* In the other detail views the overview, which is hidden, is loaded.
FollowsInDetail == {"nodes", "hosts"}

OnStatsUpdated(needRefresh) ==
  IF \/ ~needRefresh
     \/ tab = "events" /\ frozen
     \/ detail[tab] # Overview /\ tab \notin FollowsInDetail
  THEN Keep ELSE Load

StatsArrive ==
  /\ OnPing
  /\ UNCHANGED <<tab, detail, frozen, ruleRows>>
  /\ OnStatsUpdated(NeedRefresh(Head(pings)))

\* A daemon subscribed, or its status was set.
OnNodesUpdated ==
  /\ tab = "nodes"
  /\ UNCHANGED <<vars, tab, detail, frozen, ruleRows>>
  /\ Load

\* Logging a prompted connection tells the window nothing.
InBackground == (Daemons \/ Prompts) /\ UNCHANGED window_vars

Restart ==
  /\ RestartUI
  /\ tab' = "events" /\ frozen' = FALSE
  /\ detail' = [t \in Tabs |-> Overview]
  /\ ruleRows' = {} /\ screen' = {}

-----------------------------------------------------------------------------
(* The user.                                                               *)

\* Bound: what the user does counts as a mishap, but not opening and going back.
UserStep == UNCHANGED <<daemons, pings, caches, taken>>
NoWrite == UserStep /\ UNCHANGED <<store, lost>>

\* onTabChanged(), which the limit combo calls too for the tab that is there.
\* It loads the events whether or not they are frozen.
ChangeTab(t) ==
  /\ tab' = t
  /\ UNCHANGED <<detail, frozen, ruleRows>>
  /\ Mishap /\ NoWrite /\ Load

AtOverview(t) == tab = t /\ detail[t] = Overview

OpenDetail(what) ==
  /\ detail' = [detail EXCEPT ![tab] = what]
  /\ UNCHANGED <<tab, frozen>>
  /\ NoMishap /\ NoWrite /\ Load

OpenNode(addr) ==
  /\ AtOverview("nodes") /\ addr \in {r.addr : r \in screen}
  /\ OpenDetail(addr) /\ UNCHANGED ruleRows

OpenRow(what) ==
  /\ tab \in Kinds /\ AtOverview(tab) /\ what \in {r.what : r \in screen}
  /\ OpenDetail(what) /\ UNCHANGED ruleRows

OpenRule(what) ==
  /\ AtOverview("rules")
  /\ ruleRows' = RuleConnections(db, what)
  /\ OpenDetail(what)

\* setRulesDetailView(): what the hidden view holds no longer matters.
CloseRule == ruleRows' = {}

Back ==
  /\ detail[tab] # Overview
  /\ detail' = [detail EXCEPT ![tab] = Overview]
  /\ IF tab = "rules" THEN CloseRule ELSE UNCHANGED ruleRows
  /\ UNCHANGED <<tab, frozen>>
  /\ NoMishap /\ NoWrite /\ Load

\* A double click on an event's node, process or rule leads to its overview.
FollowEvent(t) ==
  /\ tab = "events" /\ screen # {}
  /\ t \in {"nodes", "procs", "rules"} \cap Tabs
  /\ tab' = t /\ detail' = [detail EXCEPT ![t] = Overview]
  /\ IF t = "rules" THEN CloseRule ELSE UNCHANGED ruleRows
  /\ UNCHANGED frozen
  /\ Mishap /\ NoWrite /\ Load

ToggleFreeze ==
  /\ frozen' = ~frozen
  /\ UNCHANGED <<tab, detail, ruleRows>> /\ Mishap /\ NoWrite
  /\ IF tab = "events" /\ frozen THEN Load ELSE Keep

\* The tables without what the Clean button removes.  The table of nodes has
\* no column `what': there the first DELETE fails and only the second works.
Cleaned(t, kind, what) ==
  CASE kind = "events" -> [t EXCEPT !.connections = {}]
    [] kind = "nodes" /\ what = Overview -> [t EXCEPT !.nodes = NoTables.nodes]
    [] OTHER ->
         [nodes |-> t.nodes,
          connections |-> {r \in t.connections : what # Overview => ~Matches(r, kind, what)},
          hits |-> [d \in Details |->
                      IF d[1] = kind /\ what \in {Overview, d[2]} THEN 0 ELSE t.hits[d]]]

Clean ==
  /\ tab # "rules"
  /\ Execute(Cleaned(db, tab, detail[tab]))
  /\ lost' = [rows |-> lost.rows \cup (db.connections \ db'.connections),
              hits |-> lost.hits \cup {d \in Details : db.hits[d] # db'.hits[d]}]
  /\ UNCHANGED <<tab, detail, frozen, ruleRows>>
  /\ Mishap /\ UserStep /\ Load

User ==
  \/ \E t \in Tabs : ChangeTab(t) \/ FollowEvent(t)
  \/ \E addr \in Peers : OpenNode(addr)
  \/ \E what \in Whats : OpenRow(what)
  \/ \E what \in UserRules : OpenRule(what)
  \/ Back \/ ToggleFreeze \/ Clean

WindowNext == StatsArrive \/ OnNodesUpdated \/ InBackground \/ Restart \/ User
WindowSpec == WindowInit /\ [][WindowNext]_<<vars, window_vars>>

-----------------------------------------------------------------------------
(* Properties.                                                             *)

\* What holds in every state: the types, and no event that is taken twice.
Safe == WindowTypeOK /\ EventTakenOnce

\* What a batch adds to the rows of the current view is on the screen when the
\* batch has been handled: deduplication, which decides about needRefresh, never
\* hides a change (ui_controller.cpp:533, 597; main_window.cpp:3851-3876).  Not
\* in a frozen log, in the details that do not follow, and for a node's counters.
Follows ==
  /\ tab # "rules" /\ ~(tab = "events" /\ frozen)
  /\ IF detail[tab] = Overview THEN tab # "nodes" ELSE tab \in FollowsInDetail
ScreenFollows ==
  [][BatchHandled /\ Follows =>
       LET now == Loaded(db', tab, detail[tab])
       IN now \subseteq Loaded(db, tab, detail[tab]) \/ screen' = now]_<<vars, window_vars>>
=============================================================================
