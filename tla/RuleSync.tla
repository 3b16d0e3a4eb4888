------------------------------ MODULE RuleSync ------------------------------
(***************************************************************************)
(* The rules: the records in memory (Rules::m_rules), their rows in the    *)
(* table `rules', the rows the rules tab shows, and the daemons' own rules *)
(* (src/src/rules.cpp, main_window.cpp, rule_dialog.cpp, ui_controller.cpp).*)
(*                                                                         *)
(* A handler of the GUI thread is one action.  A popup menu or a message   *)
(* box runs a nested event loop, so what a handler read before it opened   *)
(* one is in `picked' and the events of the daemons are handled meanwhile. *)
(* A notification reaches a daemon if its stream is registered and idle    *)
(* (module NotifyStream has the details), else it is dropped.  The answer  *)
(* to a question travels on a call of its own, a Subscribe request on a    *)
(* third one: there is no order between the three.                         *)
(***************************************************************************)
EXTENDS Naturals, Sequences

CONSTANTS NodeOrder,     \* the addresses "proto:addr", as the node map sorts them
          Names,         \* names of rules
          InternalName,  \* internalDnsRuleName()
          CloneNames,    \* CloneNames[x]: cloned-0-x, cloned-1-x, ...
          Actions, Durations,
          Entered,       \* bound: the rules a user or a prompt makes from nothing
          NoRule, NoNote, NoPick,
          MaxEvents      \* bound: answers, actions of the user, and failures

Nodes == {NodeOrder[i] : i \in DOMAIN NodeOrder}
Rule == [enabled: BOOLEAN, action: Actions, duration: Durations]
NotificationTypes == {"CHANGE_RULE", "DELETE_RULE", "ENABLE_RULE", "DISABLE_RULE"}
Note == [type: NotificationTypes, name: Names, rule: Rule \cup {NoRule}]

ASSUME NamesAssumption ==
  /\ InternalName \in Names
  /\ CloneNames \in [Names -> Seq(Names)]
ASSUME ValuesAssumption ==
  /\ NoRule \notin Rule /\ NoNote \notin Note
  /\ Entered \subseteq Rule
  /\ "allow" \in Actions /\ {"always", "until restart"} \subseteq Durations
ASSUME BoundsAssumption == MaxEvents \in Nat

VARIABLES
  memory,     \* m_rules: node -> name -> record
  table,      \* rows of `rules', by (node, name)
  shown,      \* the rows of the rules tab: "none", or the Active column
  picked,     \* what a handler holds while its menu or message box is open
  nodes,      \* keys of Nodes::m_nodes
  connected,  \* m_daemonConnected
  dns,        \* {m_internalDnsRuleNode} once m_internalDnsRuleCreated, else {}
  subscribes, \* SubscribeEvents the GUI thread has not handled
  session,    \* a daemon: "off", "subscribed", "open" (its stream is registered)
  outbox,     \* the notification being written to a daemon
  answers,    \* answers on their way to a daemon
  daemon,     \* the rules each daemon has
  behind,     \* history: names whose last change a daemon missed or got in disorder
  events

books == <<memory, table>>
gui == <<shown, picked, nodes, connected, dns, subscribes>>
wire == <<session, outbox, answers, daemon, behind>>
vars == <<books, gui, wire, events>>

Book == [Nodes -> [Names -> Rule \cup {NoRule}]]
Pick == [node: Nodes, name: Names, active: BOOLEAN, targets: SUBSET Nodes]

TypeOK ==
  /\ memory \in Book /\ table \in Book /\ daemon \in Book
  /\ shown \in [Nodes -> [Names -> {"none", "True", "False"}]]
  /\ picked \in Pick \cup {NoPick}
  /\ nodes \subseteq Nodes /\ connected \in BOOLEAN
  /\ dns \subseteq Nodes
  /\ subscribes \in Seq([node: Nodes, rules: [Names -> Rule \cup {NoRule}]])
  /\ session \in [Nodes -> {"off", "subscribed", "open"}]
  /\ outbox \in [Nodes -> Note \cup {NoNote}]
  /\ answers \in [Nodes -> SUBSET [name: Names, rule: Rule]]
  /\ behind \in [Nodes -> SUBSET Names]
  /\ events \in 0..MaxEvents

UserNames == Names \ {InternalName}
None == [x \in Names |-> NoRule]
Nowhere == [n \in Nodes |-> None]

\* A file database may hold rows of an earlier session; no code loads them.
\* Bound: at most one rule is there before the UI starts.
Init ==
  /\ memory = Nowhere
  /\ \E n \in Nodes, x \in UserNames, r \in Entered : \E atDaemon, inTable \in BOOLEAN :
       LET one == [Nowhere EXCEPT ![n][x] = r]
       IN /\ daemon = IF atDaemon THEN one ELSE Nowhere
          /\ table = IF inTable THEN one ELSE Nowhere
  /\ shown = [n \in Nodes |-> [x \in Names |-> "none"]]
  /\ picked = NoPick /\ nodes = {} /\ connected = FALSE
  /\ dns = {}
  /\ subscribes = <<>>
  /\ session = [n \in Nodes |-> "off"] /\ outbox = [n \in Nodes |-> NoNote]
  /\ answers = [n \in Nodes |-> {}] /\ behind = [n \in Nodes |-> {}]
  /\ events = 0

-----------------------------------------------------------------------------
(* Rules: each operation changes a record in memory and its row.           *)

Add(targets, x, r) ==
  /\ memory' = [n \in Nodes |-> IF n \in targets THEN [memory[n] EXCEPT ![x] = r] ELSE memory[n]]
  /\ table' = [n \in Nodes |-> IF n \in targets THEN [table[n] EXCEPT ![x] = r] ELSE table[n]]

Merged_KeepsOld(mine, theirs) ==
  [x \in Names |-> IF mine[x] # NoRule THEN mine[x] ELSE theirs[x]]

\* The rules of a Subscribe request are added; none is removed.
Merged(mine, theirs) ==
  [x \in Names |-> IF theirs[x] # NoRule THEN theirs[x] ELSE mine[x]]

Remove(n, x) ==
  /\ memory' = [memory EXCEPT ![n][x] = NoRule]
  /\ table' = [table EXCEPT ![n][x] = NoRule]

Switched(book, n, x, on) ==
  IF book[n][x] = NoRule THEN book ELSE [book EXCEPT ![n][x].enabled = on]

SetEnabled_MemoryOnly(n, x, on) ==
  memory' = Switched(memory, n, x, on) /\ table' = table

SetEnabled(n, x, on) ==
  /\ memory' = Switched(memory, n, x, on)
  /\ table' = Switched(table, n, x, on)

\* refreshRules(): internal rules are hidden.  updated() is emitted by the
\* operations that remove or switch a rule and by addRules(), not by add().
RowsOf(book) ==
  [n \in Nodes |-> [x \in Names |->
     IF x = InternalName \/ book[n][x] = NoRule THEN "none"
     ELSE IF book[n][x].enabled THEN "True" ELSE "False"]]

RefreshRules == shown' = RowsOf(memory')

-----------------------------------------------------------------------------
(* Notifications.                                                          *)

Takes(n) == session[n] = "open" /\ outbox[n] = NoNote

\* An older word about rule x of n is under way on another call.
Overtakes(n, x) ==
  \/ \E a \in answers[n] : a.name = x
  \/ \E i \in DOMAIN subscribes : subscribes[i].node = n

Switches(note) == note.type \in {"ENABLE_RULE", "DISABLE_RULE"}

Missed(n, note) ==
  IF ~Takes(n) \/ Overtakes(n, note.name) THEN behind[n] \cup {note.name}
  ELSE IF Switches(note) THEN behind[n] ELSE behind[n] \ {note.name}

\* sendNotification() to each target; a stream that is not idle drops it.
Send(targets, note) ==
  /\ outbox' = [n \in Nodes |-> IF n \in targets /\ Takes(n) THEN note ELSE outbox[n]]
  /\ behind' = [n \in Nodes |-> IF n \in targets THEN Missed(n, note) ELSE behind[n]]
  /\ UNCHANGED <<session, answers, daemon>>

ChangeRule(x, r) == [type |-> "CHANGE_RULE", name |-> x, rule |-> r]
DeleteRule(x) == [type |-> "DELETE_RULE", name |-> x, rule |-> NoRule]
SwitchRule(x, on) ==
  [type |-> IF on THEN "ENABLE_RULE" ELSE "DISABLE_RULE", name |-> x, rule |-> NoRule]

Used == events < MaxEvents /\ events' = events + 1

-----------------------------------------------------------------------------
(* The daemons (external).                                                 *)

\* Bound: a request of a daemon is handled before it subscribes again.
Subscribe(n) ==
  /\ session[n] = "off"
  /\ \A i \in DOMAIN subscribes : subscribes[i].node # n
  /\ session' = [session EXCEPT ![n] = "subscribed"]
  /\ subscribes' = Append(subscribes, [node |-> n, rules |-> daemon[n]])
  /\ behind' = [behind EXCEPT ![n] = {a.name : a \in answers[n]}]
  /\ UNCHANGED <<books, shown, picked, nodes, connected, dns, outbox, answers, daemon,
                 events>>

OpenStream(n) ==
  /\ session[n] = "subscribed"
  /\ session' = [session EXCEPT ![n] = "open"]
  /\ UNCHANGED <<books, gui, outbox, answers, daemon, behind, events>>

Applied(mine, note) ==
  CASE note.type = "CHANGE_RULE" -> [mine EXCEPT ![note.name] = note.rule]
    [] note.type = "DELETE_RULE" -> [mine EXCEPT ![note.name] = NoRule]
    [] Switches(note) /\ mine[note.name] # NoRule ->
         [mine EXCEPT ![note.name].enabled = (note.type = "ENABLE_RULE")]
    [] OTHER -> mine

ApplyNote(n) ==
  /\ outbox[n] # NoNote
  /\ daemon' = [daemon EXCEPT ![n] = Applied(@, outbox[n])]
  /\ outbox' = [outbox EXCEPT ![n] = NoNote]
  /\ UNCHANGED <<books, gui, session, answers, behind, events>>

AdoptAnswer(n, a) ==
  /\ a \in answers[n]
  /\ answers' = [answers EXCEPT ![n] = @ \ {a}]
  /\ daemon' = [daemon EXCEPT ![n][a.name] = a.rule]
  /\ UNCHANGED <<books, gui, session, outbox, behind, events>>

\* The daemon gave the question up, or the call was not answered in time.
LoseAnswer(n, a) ==
  /\ a \in answers[n] /\ Used
  /\ answers' = [answers EXCEPT ![n] = @ \ {a}]
  /\ behind' = [behind EXCEPT ![n] = @ \cup {a.name}]
  /\ UNCHANGED <<books, gui, session, outbox, daemon>>

UnderWay(n) ==
  {a.name : a \in answers[n]} \cup (IF outbox[n] = NoNote THEN {} ELSE {outbox[n].name})

\* A daemon that restarts forgets its temporary rules.
Disconnect(n, restarts) ==
  /\ session[n] # "off" /\ Used
  /\ session' = [session EXCEPT ![n] = "off"]
  /\ outbox' = [outbox EXCEPT ![n] = NoNote] /\ answers' = [answers EXCEPT ![n] = {}]
  /\ behind' = [behind EXCEPT ![n] = @ \cup UnderWay(n)]
  /\ daemon' = IF ~restarts THEN daemon
               ELSE [daemon EXCEPT ![n] = [x \in Names |->
                       IF @[x] # NoRule /\ @[x].duration # "always" THEN NoRule ELSE @[x]]]
  /\ UNCHANGED <<books, gui>>

-----------------------------------------------------------------------------
(* What the GUI thread handles for the daemons.                            *)

\* ensureInternalDnsRule(n): the rule that lets the UI's own resolver through.
DnsRule == [enabled |-> TRUE, action |-> "allow", duration |-> "until restart"]
MakesDnsRule(n) == dns = {} /\ session[n] = "open"

MakeDnsRule(n) ==
  IF MakesDnsRule(n)
  THEN dns' = {n} /\ Send({n}, ChangeRule(InternalName, DnsRule))
  ELSE UNCHANGED <<dns, wire>>

WithDnsRule(mine, n) == IF MakesDnsRule(n) THEN [mine EXCEPT ![InternalName] = DnsRule] ELSE mine

OnSubscribed ==
  /\ subscribes # <<>>
  /\ LET n == Head(subscribes).node
         theirs == Head(subscribes).rules
     IN /\ nodes' = nodes \cup {n}
        /\ memory' = [memory EXCEPT ![n] = WithDnsRule(Merged(@, theirs), n)]
        /\ table' = [table EXCEPT ![n] = WithDnsRule(Merged(@, theirs), n)]
        /\ MakeDnsRule(n)
  /\ subscribes' = Tail(subscribes)
  /\ connected' = TRUE
  /\ RefreshRules
  /\ UNCHANGED <<picked, events>>

\* n is the first key of the node map, whichever daemon the statistics came from.
IsFirst(n) ==
  \E i \in DOMAIN NodeOrder :
    NodeOrder[i] = n /\ \A j \in 1 .. i - 1 : NodeOrder[j] \notin nodes

RetryDnsRule_Never == UNCHANGED <<books, dns, wire>>

RetryDnsRule ==
  IF dns = {} /\ connected /\ nodes # {}
  THEN \E n \in nodes :
         /\ IsFirst(n)
         /\ memory' = [memory EXCEPT ![n] = WithDnsRule(@, n)]
         /\ table' = [table EXCEPT ![n] = WithDnsRule(@, n)]
         /\ MakeDnsRule(n)
  ELSE UNCHANGED <<books, dns, wire>>

OnStatsUpdated(n, needRefresh) ==
  /\ session[n] # "off"
  /\ RetryDnsRule
  /\ IF needRefresh THEN RefreshRules ELSE UNCHANGED shown
  /\ UNCHANGED <<picked, nodes, connected, subscribes, events>>

\* The end of customEvent(): the rule is stored, then the call is answered.
Answer(n, x, r) ==
  /\ session[n] # "off" /\ Used
  /\ Add({n}, x, r)
  /\ answers' = [answers EXCEPT ![n] = @ \cup {[name |-> x, rule |-> r]}]
  /\ behind' = [behind EXCEPT ![n] =
                  IF Overtakes(n, x) \/ x \in UnderWay(n) THEN @ \cup {x} ELSE @ \ {x}]
  /\ UNCHANGED <<gui, session, outbox, daemon>>

-----------------------------------------------------------------------------
(* The user.                                                               *)

Free == picked = NoPick

\* A context menu opens on a row, or a message box on the selected one.
PickRow(n, x) ==
  /\ Free /\ shown[n][x] # "none"
  /\ picked' = [node |-> n, name |-> x, active |-> shown[n][x] = "True", targets |-> nodes]
  /\ UNCHANGED <<books, shown, nodes, connected, dns, subscribes, wire, events>>

\* What every choice has in common: the menu or the box is closed.
Chosen == ~Free /\ picked' = NoPick /\ UNCHANGED <<nodes, connected, dns, subscribes>>

Cancel == Chosen /\ UNCHANGED <<shown, books, wire, events>>

\* The Delete of the menu, of the toolbar and of the detail bar.
MenuDelete ==
  /\ Chosen /\ Used
  /\ Send({picked.node}, DeleteRule(picked.name))
  /\ Remove(picked.node, picked.name)
  /\ RefreshRules

MenuEnable ==
  /\ Chosen /\ Used
  /\ SetEnabled(picked.node, picked.name, ~picked.active)
  /\ Send({picked.node}, SwitchRule(picked.name, ~picked.active))
  /\ RefreshRules

PickedRow == table[picked.node][picked.name]

\* sendChangeRule(): the row is updated and read again; the record is replaced by it.
MenuChange(r) ==
  /\ Chosen /\ Used
  /\ PickedRow # NoRule
  /\ Add({picked.node}, picked.name, r)
  /\ Send({picked.node}, ChangeRule(picked.name, r))
  /\ UNCHANGED shown

MenuApplyTo(dst) ==
  /\ Chosen /\ Used
  /\ dst \in picked.targets /\ PickedRow # NoRule
  /\ Send({dst}, ChangeRule(picked.name, PickedRow))
  /\ Add({dst}, picked.name, PickedRow)
  /\ UNCHANGED shown

IsFreeName_Untested(n, x, c) == CloneNames[x] # <<>> /\ c = CloneNames[x][1]

\* c is the first of the candidate names that no row has.
IsFreeName(n, x, c) ==
  \E i \in 1 .. Len(CloneNames[x]) :
    /\ c = CloneNames[x][i] /\ table[n][c] = NoRule
    /\ \A j \in 1 .. i - 1 : table[n][CloneNames[x][j]] # NoRule

MenuDuplicate ==
  /\ Chosen /\ Used
  /\ PickedRow # NoRule
  /\ \E c \in Names :
       /\ IsFreeName(picked.node, picked.name, c)
       /\ Add({picked.node}, c, PickedRow)
       /\ Send({picked.node}, ChangeRule(c, PickedRow))
  /\ UNCHANGED shown

\* onToggleRuleClicked(): the wanted state is taken from the record, not the row.
ToggleRule(n, x) ==
  /\ Free /\ Used
  /\ shown[n][x] # "none" /\ memory[n][x] # NoRule
  /\ LET on == ~memory[n][x].enabled
     IN Send({n}, SwitchRule(x, on)) /\ SetEnabled(n, x, on)
  /\ RefreshRules
  /\ UNCHANGED <<picked, nodes, connected, dns, subscribes>>

\* RuleDialog::onApplyClicked(), once the rule is built: what the user entered
\* for a new rule or made of an old one, for one node or for all.
DialogApply(targets, x, r) ==
  /\ Free /\ Used
  /\ Add(targets, x, r)
  /\ Send(targets, ChangeRule(x, r))
  /\ UNCHANGED gui

-----------------------------------------------------------------------------
Daemons ==
  \E n \in Nodes :
    \/ Subscribe(n) \/ OpenStream(n) \/ ApplyNote(n)
    \/ \E a \in answers[n] : AdoptAnswer(n, a) \/ LoseAnswer(n, a)
    \/ \E restarts \in BOOLEAN : Disconnect(n, restarts)

User ==
  \/ \E n \in Nodes, x \in UserNames : PickRow(n, x) \/ ToggleRule(n, x)
  \/ Cancel \/ MenuDelete \/ MenuEnable \/ MenuDuplicate
  \/ \E a \in Actions : MenuChange([PickedRow EXCEPT !.action = a])
  \/ \E d \in Durations : MenuChange([PickedRow EXCEPT !.duration = d])
  \/ \E dst \in Nodes : MenuApplyTo(dst)
  \/ \E targets \in {{n} : n \in Nodes} \cup {nodes}, x \in UserNames, r \in Entered :
       DialogApply(targets, x, r)

Next ==
  \/ Daemons \/ User \/ OnSubscribed
  \/ \E n \in Nodes, needRefresh \in BOOLEAN : OnStatsUpdated(n, needRefresh)
  \/ \E n \in Nodes, x \in UserNames, r \in Entered : Answer(n, x, r)

\* The event loop handles what is queued.  A daemon that has subscribed opens
\* its stream, and keeps pinging while it is connected.
Fairness ==
  /\ WF_vars(OnSubscribed)
  /\ \A n \in Nodes : WF_vars(OpenStream(n))
  /\ \A n \in Nodes : WF_vars(OnStatsUpdated(n, TRUE))

Spec == Init /\ [][Next]_vars /\ Fairness

-----------------------------------------------------------------------------
\* A record in memory and its row are the same, whichever of the handlers
\* wrote them and in which order (rules.cpp, main_window.cpp:1796-1837).
MemoryIsTable ==
  \A n \in Nodes, x \in Names : memory[n][x] # NoRule => table[n][x] = memory[n][x]

\* A rule in force at a daemon the UI knows is the rule the UI has, unless its
\* last change is still under way, was dropped, or met an older word about the
\* rule on another call.  (The UI may have rules the daemon lost.)
Settled(n, x) ==
  /\ n \in nodes /\ x \notin UnderWay(n) /\ x \notin behind[n]
  /\ \A i \in DOMAIN subscribes : subscribes[i].node # n

RulesInForceAreKnown ==
  \A n \in Nodes, x \in Names :
    Settled(n, x) /\ daemon[n][x] # NoRule => memory[n][x] = daemon[n][x]

\* No row of the rules tab shows a rule that is gone: the menu and the toolbar
\* act on rows, long after they were filled.
RowsAreRules ==
  \A n \in Nodes, x \in Names : shown[n][x] # "none" => memory[n][x] # NoRule

\* What holds in every state: the types, and memory, table and rows that agree.
Safe == TypeOK /\ MemoryIsTable /\ RowsAreRules

\* Duplicating a rule changes no rule that has a row (main_window.cpp:1894-1908).
CloneOverwritesNothing ==
  [][MenuDuplicate => \A n \in Nodes, x \in Names :
       table[n][x] # NoRule => table'[n][x] = table[n][x] /\ memory'[n][x] = memory[n][x]]_vars

\* The rule for the UI's own resolver is made in the end when every known
\* daemon stays connected (main_window.cpp:532-534, 3838-3840).
AllStay == nodes # {} /\ \A n \in nodes : session[n] = "open"
DnsRuleMade == <>[]AllStay => <>(dns # {})
=============================================================================
