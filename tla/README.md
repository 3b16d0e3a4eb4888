# OpenSnitch UI (TQt3/TDE): models, checks and proofs

This directory holds TLA+ models of the native OpenSnitch UI, the TLC runs that check
them on small instances, and TLAPS proofs for every value of the constants. Paths are
relative to the repository; a bare file name is under `src/src/` of the mapped tree.

## 1. The system

The UI is one process with three kinds of thread.

* The **GUI thread** runs the TQt event loop: `UIController`, `PromptDialog`,
  `MainWindow`, `SysTray`, the dialogs, the rule and node stores, the database.
* Two **completion-queue threads** (`GRpcServer::cqThreadFunc` over `m_cq`,
  `notifyCqThreadFunc` over `m_notifyCq`) run `proceed()` of the call objects.
* One **resolver thread** turns addresses into names.

The daemons are gRPC clients: they `Subscribe`, `Ping` with statistics, ask `AskRule` and
hold a bidirectional `Notifications` stream. A completion-queue thread hands work to the
GUI thread with `TQApplication::postEvent()`. The GUI thread answers `AskRule` by calling
into the call object directly, and sends notifications through a registry of streams.

### Inventory

| Component | State | Operations | Hard behaviour | What makes it correct |
|---|---|---|---|---|
| AskRule call (`AskRuleCallData`, grpc_server.cpp) | `m_state`, four atomic flags, tags outstanding in gRPC | `proceed`, `finishWithRule`, `releaseFromGui` | two threads share an object that deletes itself; tags arrive in any order; daemon gives up; shutdown | the object outlives every reference and goes away in the end; one answer per question |
| Prompt (`PromptDialog`, `UIController::customEvent`) | current connection, tick, timer, result | `promptUser`, `buildRule`, `onAllow`, `onDeny`, `onTick`, `closeEvent` | nested event loop, re-entry, countdown against click | each question gets one rule, made from its own connection, and gets it even when nobody is there |
| Notification streams (`NotificationsCallData`, registry) | `m_state`, `m_writePending`, `m_pendingNotif`, alarm, `m_activeNotifs` | `proceed` in two threads, `sendNotification`, `broadcastNotification`, register, unregister | two threads and the GUI on one object, disconnect and reconnect, cancelled alarms | no access to freed streams, nothing lost, one Read and one Write at a time |
| Resolver (`NetIdentityResolver`, `ResolverThread`) | cache, queue, thread running or not | `request`, `lookup`, `run`, `finish` | worker that leaves when idle, expiry while resolving | every accepted request is served, once |
| Unary calls, server | `Ping`, `Subscribe` call objects, `m_running` | `start`, `initAccepts`, `stop` | accepts created on the GUI thread while the queues already run | one handler waits at any time |
| Statistics (`UIController::populateStats`) | `m_lastStats`, `m_lastItems`, tables | per batch: dedup, insert, commit or roll back, purge | failure of one insert, repeated batches | an event is stored once |
| Rules and nodes (`Rules`, `Nodes`) | `m_rules`, `m_nodes`, tables | `addRules`, `add`, `remove`, `setEnabled`, ... | three copies: memory, table, daemon | the copies agree |
| Main window | the tab in front, opened rows, selection, frozen log, filters, interception flag | rule, node and firewall actions, refreshes, save, clean | stale rows and menus; what is shown against the state of the daemons | what is shown is stored, or was acknowledged |
| Table model and view (`mvc/`) | rows, visible rows, cached sort keys, current row | filter, sort, reset, select | rows that move under a selection; cached keys | shows what matches, in order |
| Rule dialog | some thirty widgets that outlive every rule edited | `editRule`, reset, apply | what a former rule left behind; a JSON round trip | editing changes one rule and drops nothing of it |
| Preferences dialog, settings | the form; the file; the nodes' configurations | load, apply, save, close | one file write per setting, kills between two; two limits that exclude each other; stale node pages | the form shows what is stored, a node gets what was edited |
| Tray icon | connected, firewall, alert | signals from controller and window | signals in any order, nested prompts | the icon says what the window says |
| Process details dialog | pid, node, ids sent | `startMonitoring`, `stopMonitoring`, `handleNotificationReply` | late replies, ids by the second, dropped STOP | shows the process that is selected, leaves no watch behind |
| Desktop entries, JSON | a map; a tree | read, look up | none across threads | |

Left out for good: generated icons, the vendored JSON parser, packaging scripts, layout.

## 2. Modules

| Module | Models | State and actions |
|---|---|---|
| `AskRule` | the promise: a question is settled once, its object lives as long as it is open | `question`, `object`; `Pose`, `Answer`, `Abandon`, `RefuseIdle`, `Free` |
| `AskRuleCall` | `AskRuleCallData`, `customEvent()`'s hand-over and `GRpcServer::stop()` | one action per access another thread can see: e.g. `releaseFromGui()` is `Release`, `ReadDone`, `ReadCompleted`, `GuiDelete` |
| `PromptLoop` | how the GUI thread decides: `customEvent()`, `promptUser()` and its slots | one action per event the loop delivers; `NestedPrompt` is a whole nested `promptUser()` |
| `NotifyStream` | `NotificationsCallData`, the registry, the GUI's sends | one action per access or critical section; `at`/`call` say where each thread is in `proceed()` |
| `Resolver` | `NetIdentityResolver` and its thread | one action per critical section |
| `RuleSync` | the rule store, its table, the rules of each daemon, the rules tab | one action per user action, event or daemon step; `queue` holds what waits for the GUI thread, `outbox` and `answers` what is on its way to a daemon; `behind` names what overtook |
| `Statistics` | the daemons' logs and pings, `populateStats()`, the tables `nodes`, `connections` and details | one action per ping, with every choice of failing statements; `db` is what the UI reads, `disk` what is committed |
| `StatsWindow` | the tabs of the main window over `Statistics` (EXTENDS it) | `StatsArrive` is a ping with the refresh it emits; one action per thing the user does |
| `EventsTab` | the events tab and the table view under it | `view`, `cache` and `model` are those of `TQtMvcTableView` and `TQtListStore`; one action per handler, the signals and index rebuilds it causes included; which rows are shown is a set (`Filtered`) and their order an arrangement of it (`Arranged`); `Saved` is what is in the file that Save writes |
| `ConnectionViews` | the SQL of the seven detail views, as pure operators over the rows of `connections` | one operator per `refresh...Connections()`; `EventsTab` instantiates it (`Views`) |
| `ProcMonitor` | the process details dialog and the daemons' reports | `ui` is the dialog and what it has sent; one action per handler, per daemon step and per second |
| `Shell` | pause button, tray icon, prompts' alert, the daemons' firewalls | `window` and `tray`; a signal runs its slots in the order `main()` connects them |
| `Preferences` | the dialog, the settings file, the nodes' configurations | `SetNext` is one `setSetting()` with its write of the file, so Apply is many steps; every other handler is one |
| `RuleForm` | the rule dialog's form, taken apart and put together; the rules that prompts and preferences make | `form` holds the widgets; `Loaded`, `RuleOf`, `Reread` are `editRule()`, `onApplyClicked()`, `parseOperatorsJson()`; `Recode` is the way of a text through `utf8()` and `TQString(c_str())`, `Reencoded` that of a name |
| `AskRuleCall_proofs`, `Screen_proofs` (`PromptLoop` and `EventsTab`), `RuleChange_proofs` (`NotifyStream` and `RuleForm`), `Details_proofs` (`Resolver` and `ProcMonitor`), `RuleSync_proofs`, `StatsWindow_proofs`, `Shell_proofs`, `Preferences_proofs` | the theorems about each (section 4) | inductive invariants, lemmas |
| `MC...` | values for the constants | |

The models meet at interfaces rather than in one product: `AskRuleCall` abstracts the
decision to "a rule is there", `PromptLoop` makes that decision and abstracts the call
object to "answered", and both agree that a question's event is queued, then prompted,
then answered, with nested event loops. `RuleSync` takes the answer as one step and goes on
to what becomes of the rule; `Statistics` shares the event queue's order with it, and
no table but `nodes`, of which `RuleSync` keeps only the set of addresses. `ProcMonitor`,
`Shell` and `Preferences` keep of `NotifyStream` what a sender sees: a notification is taken
by a stream that is open and idle and dropped by any other. `RuleForm` keeps of `RuleSync`
one store of rules; `DialogApply` of `RuleSync` is what happens to the result. `EventsTab`
keeps of `Statistics` that rows come (at the top) and are purged (at the bottom).

**Texts.** The UI hands a text on as `utf8()` and reads it as `TQString(c_str())`, which is Latin-1, so
letters outside ASCII are encoded once more on every such way. `RuleForm` models this, since a
rule goes that way in a circle: each text counts its encodings (`recoded`), and a name in ASCII is one
that `Reencoded` leaves as it is. In the other modules names, addresses and texts are opaque values
that are handed on as they are: what they say is about ASCII ones.

**Undefined behaviour.** In `AskRuleCall` and `NotifyStream` a step on a freed object (or a
second Read or Write on a stream) sets `fault`; after that nothing happens, since nothing
can be said. Safety is therefore stated about the states up to the first fault, and the
liveness properties end in `... \/ fault # "none"`. That the fault itself is reachable is
not hidden: `ask_double_delete` is a run of its own, section 6 lists the rest. Reads of the
sort-key cache beyond what was filled return the default keys of `TQValueVector`, as in the
build; `keyed` remembers which were real.

**Atomicity.** Flags that are `std::atomic<int>` are read and written one at a time.
`m_state` and `m_writePending` outside their lock are plain memory; the models treat an
access as atomic and let the threads interleave around it.

## 3. Runs

| Run | Expect | Question | Bound |
|---|---|---|---|
| `ask_rule_call` | pass | lifetime, refinement of `AskRule`, progress; cancel and quit allowed | three handlers: two questions at once, one waiting |
| `ask_double_delete` | violation | is the call deleted once? | the same, no cancel, no quit |
| `prompt` | pass | right answer, once, for every question, countdown | three connections, all may be open; timeouts 1 and 3 ticks |
| `notify` | pass | live registry, no fault while connected, forwarded replies, reconnect, progress | one daemon, two streams opened, three stream objects, two sends, two messages of the daemon at any time |
| `resolver` | pass | in work once, mark means work, progress | three addresses |
| `rule_sync` | pass | do memory, table, rows on the screen and daemon agree; is the DNS rule made | one daemon, three names, four events |
| `stats` | pass | dedup, counters, whole batches, the screen | two daemons, two connections, two rules' details, two events logged, one ping waiting, two mishaps |
| `events_tab` | pass | filters, order, selection over a refresh; is an event in the file and in seven details | three rows, seven events; a number, a greater one that sorts first as text, no name |
| `proc_monitor` | pass | right process in header and page, no watch left behind | two daemons, two processes with numbers that may coincide, three clicks, one tick of the clock, one report waiting, two tabs of which one may be left out, one label |
| `shell` | pass | tray against window, alert against prompts, shown against running firewall | two daemons, two Subscribe requests waiting, two nested prompts, eight events |
| `preferences` | pass | limits, hidden form, node configurations, kills between writes | two daemons, two configurations (one with a value the form does not list), four events |
| `rule_form` | pass | is a rule the same after opening and applying, is only that one changed | two nodes, two names in ASCII and one outside it, six events of which two come from outside; words of every kind the form tells apart, one of them outside ASCII |

Why the bounds are enough: a handler or stream object interacts with another object only
through the thread that serves both, the GUI's event queue (FIFO) and the registry entry
of its key. Two objects in their lives and one in waiting exhibit each of these; in `notify` the
third object is the one that waits, or the second one that an early reply spawns. One key
suffices in `notify` because streams of two keys share only `m_notifsLock` and the two
threads, which the objects of one key share as well; `Keys` stays a parameter. A third
question in `prompt` arrives while two prompts have already met. A third address in
`resolver` is queued behind one that is queued behind one in hand. In `rule_sync` four events
are a question or a change, one that overtakes it, a reconnect, and a change to the result;
daemons share nothing in the rule store but the DNS flag.
In `stats` two daemons share the rows of counters; two events are one before and one after
a restart of the daemon, or one repeated and one new; two mishaps are a failure and a
second one (or a click, a restart) that meets what it left. Pings are handled one at
a time, so one waiting ping stands for any number. In `events_tab` three rows are one above,
the selected one and one below it; two limits are one that cuts and one that does not. The
group of a detail view needs two rows to go wrong and a limit needs a third. In `proc_monitor`
two clicks make a dialog stale and the third makes it stale again; one second or two is all
that ids tell apart; one tab that a report may leave out stands for the others. In `shell` a toggle, its loss, a Subscribe that predates it and a prompt
around them are eight events for two daemons. In `preferences` four events are choosing a
daemon, its restart with another configuration, an edit and Apply; writes, kills and failed
writes count as events of their own where they begin (`Happens`). In `rule_form` six events
are two rules from outside, Edit, a touch, Apply, Edit again; the name outside ASCII goes through five
encodings, more than six events can give it.

`CHECK_DEADLOCK FALSE` is given where the system may stop: the program has quit, the bound
on objects or sends is used up, or a fault ended the behaviour. `prompt` and `resolver`
are checked for deadlock. In the runs of the window and its dialogs the bounds on events end
a behaviour.

**Fairness.** A completion-queue thread loops on `Next()` until shutdown, the event loop
runs until quit, the resolver thread is scheduled by the operating system: each is weakly
fair as a whole. gRPC completes what it was given (`Grpc`). Nothing is assumed of the
daemons (they need not ask, cancel, reply, go away) or of the user (he need not answer,
send, quit). A prompt that met no other is answered in the end because its countdown runs:
`LoneQuestionAnswered` shows it and `AskRuleCall` assumes it. A prompt inside which another
question was handled has lost the countdown (prompt_dialog.cpp:436); `AskRuleCall` remembers it in
`untimed`, its fairness (`GuiGoesOn`) leaves the answer of such a prompt to the user, and
`EveryCallFreed` lets that question wait, until it is answered. `RuleSync` is
an exception on the daemons' side: one that has subscribed opens its stream, and goes on
pinging, as its client does on a timer; `DnsRuleMade` needs both. In `ProcMonitor` the event loop handles
replies and gRPC completes writes (WF), and a daemon that watches a process reports on it, as
its worker does on a timer; `Receive` is strongly fair because the bound on waiting reports,
not the code, disables it again and again. `Statistics`, `EventsTab`, `Shell`, `Preferences`
and `RuleForm` have safety and action properties only and assume no fairness: a handler of
the GUI thread is one step, so nothing in them has to happen eventually but by a user.

Every property of a passing run has a mutant in `PROJECT.json`: a definition with the
change of a plausible bug (`X_WhatIsWrong` beside `X`) under which TLC finds it violated.

## 4. Proofs

Each `..._proofs` module EXTENDS the component's module and proves its properties for every
value of the constants: any number of calls, daemons, streams, names, rules, addresses, any
log, any bound on events. The scheme is the same everywhere: an inductive invariant `IInv`, one
step (or lemma) per action under the proof that `Next` keeps it, and the theorems from
`Invariance`. Every invariant was checked by TLC on the bounds of the run before it was proved,
except where it quantifies over an infinite set (`MadeByForm` in `RuleChange_proofs`: a rule is that
of some form).

| Module | Theorems |
|---|---|
| `AskRuleCall_proofs` | `TypeCorrect`, `GuiObjectsLive` (`GuiObjectsAreLive`), `TagsLive` (`NoDanglingTag`), `ShutdownRespected` (`NoFinishAfterShutdown`), `Refinement` (`Abs!Spec`) |
| `Screen_proofs` | `LoneAnswersFit` (`Safe`), `OneAnswerEach` (`AnsweredOnce`); `TableIsRight` (`EventsTabSafe`), `SelectionStays` (`SelectionKept`), `OrderIsRight` (`ShownAreSorted`, given `Consistent`), `EventsFound` (`EventsAreFound`) |
| `RuleChange_proofs` | `StreamsSafe` (`Safe`), `ReconnectKept` (`ReconnectKeepsStream`); `FormRulesComplete` (`RuleFormSafe`), `OneRuleChanges` (`EditChangesOneRule`), `NoCriterionLost` (`CriteriaKept`), `ReopeningKeeps` (`ReopenedIsTheSame`) |
| `Details_proofs` | `ResolvedSafely` (`ResolverSafe`), `MonitorSafely` (`Safe`), `NothingLeftBehind` (`NoWatchLeftBehind`), `OnlyAskedIsShown` (`ShownWasAskedFor`) |
| `RuleSync_proofs` | `TypeCorrect`, `BooksSafe` (`Safe`), `RulesKnown` (`RulesInForceAreKnown`), `CloneIsNew` (`CloneOverwritesNothing`) |
| `StatsWindow_proofs` | `TakenOnce` (`Safe`), `CachesFit` (`CachesAgree`), `BatchAtomic` (`BatchIsAtomic`), `FollowsBatches` (`ScreenFollows`) |
| `Shell_proofs` | `TypeCorrect`, `TraySafe` (`Safe`), `FirewallShown` (`ShownIsRunning`) |
| `Preferences_proofs` | `LimitsSafe` (`Safe`), `HiddenFormStored` (`HiddenFormIsStored`), `ConfigsInStep` (`ConfigInStep`), `EditsOnly` (`OnlyEditsAreWritten`) |

Why each needs more than the property itself:

* **AskRuleCall.** "A held object is live" says nothing of a cq thread that is about to delete it.
  `IInv` says which places of the cq thread, which tags and which flags go together: a tag belongs
  to a call of a matching phase (`TagInv`), the place of the cq thread restates what it has
  tested (`CqInv`), what the daemon sees restricts both threads (`RpcInv`), a queued or prompted call
  is held and out of reach of every deletion (`WaitingInv`), a call past the decision is over
  (`FinishedInv`), posted events are handled once (`EventsInv`), only a cancelled call is deleted
  while held (`HeldInv`). For `NoDanglingTag` two conjuncts come on top: of an answered question
  each tag is there once and its flag is clear until then (`TagOnceInv`), and whoever is about to
  delete has seen both flags (`DeleteInv`). For `NoFinishAfterShutdown` three: only the innermost
  frame is past its prompt (`FrameInv`), a cancelled call gets its DONE (`DoneInv`), so when the cq
  thread has been joined every prompt that is left is marked as done (`QuitInv`). In the
  refinement, under the mapping `questionBar` (what the daemon sees) and `life`, `Ask`,
  `StartFinish`, `Cancel`, `Stop`, `OnAccept` and the two deletes are steps of `AskRule`, the
  rest stutter.
* **PromptLoop.** The rule is made from `m_currentConn`, a field of the one dialog. That the field is
  the question's own is `CurrentInv`, true until two prompts meet; that nobody answers twice needs
  that a question is either queued or in one prompt, once (`QueueInv`, `OuterInv`).
* **EventsTab.** A rebuild of the index makes the view right whatever it showed before, so the invariant
  (`TabInv`) is about what a rebuild starts from and leaves behind: each row that matches is
  shown once (`Shows`), a key that is known is its row's key (`KeysFit`), what is shown is in the
  order of the comparator over those keys if that order is a consistent one (`InOrder`), and in
  front the view has the window's filters (`InStep`). `SelectionStays` is then about one
  `Reselected()`: of the rows that look like the one selected before, one is shown. `OrderIsRight`
  is proved for destinations whose numbers and texts compare consistently (`Consistent`), and
  cannot be without: `MixedComparator` compares two numbers as numbers and any other pair as texts, and
  of a comparator that is no strict weak ordering `std::stable_sort()` promises nothing. The module
  of the run says that its destinations are consistent. That an order which is one can be had
  at all is a lemma: each row goes to the place that the number of its predecessors gives. For
  `EventsFound` a group of rows that a query makes is shown with its newest row, and different groups
  have different newest rows; those that are newer than the group of an event belong to newer events,
  of which there are fewer than the limit.
* **NotifyStream.** `IInv` says of each stream what its state allows to be outstanding: nothing before
  it is taken up (`FreshInv`, `AcceptInv`), nothing fails before it is closed (`FailInv`), one Read
  (`ReadInv`) and one notification on its way from the GUI over the alarm to the end of its
  Write (`WriteInv`); of the registry, that an entry is of an object nobody has begun to give up
  (`EntryInv`) and stays while the GUI holds the lock (`TargetInv`); and it counts replies
  (`CountInv`) over the finite set of completed Reads. Daemons speak when they like. A Read that
  completes before `m_state = ACTIVE` is taken for the accept, so both threads may be on the same
  way from `registerNotifications()` to ACTIVE: `Again` says when the second one can be there, that
  the thread of the accept has then done all but the last step, and `EarlyInv` that this happens once
  to a stream, of which `swallowed` is the record. Such a second `Register` may replace the entry of a
  newer stream (section 6): `ReconnectKept` says that an entry of a connected stream does not go, not
  that it cannot be replaced. That what replaces it is live (`EntryInv`) holds because an object
  is not given up before the thread that registers it is through.
* **Resolver.** An address is in work once, and is marked resolving exactly as long; inductive with
  `GuiInv`, which ties `request()` and `enqueue()` to one address. `Details_proofs` holds the
  theorems about two components, so the definitions of one of them, `Resolver`, carry its name; for
  the same reason those of `EventsTab` and `RuleForm` do.
* **ProcMonitor.** The three properties are about what is shown; the invariant is about what may yet
  be. A notification or report that is on its way has a number no later than the last one given
  (`lastNid <= now`), and if that number is one the dialog still takes, or may take again, it is
  for a process that the dialog was opened for (`OnlyAsked`); header, labels and tabs are of one
  opening, and those in sight of the last report but for what it lacks (`Coherent`); a daemon reports only what it was told to watch (`OwnReports`); and for a
  process that nobody monitors any more, the last word on its way to the daemon is a stop
  (`Watching`), which is what `NoWatchLeftBehind` says once nothing is on its way.
* **RuleForm.** The three action properties are about one click, but what it stores depends on
  everything the dialog held before. `FormFits` says what is left of that: the form has the name and
  the node of the rule being edited and, until it is touched, shows that rule (`Shows`: its criteria are
  the boxes checked, each with its text and its pattern box, and the last of several for one
  field); the combo boxes have a current item and no address is typed in (`GoodForm`); a rule the
  form stored is that of a form it accepted, as `Rules::add()` reads it (`MadeByForm`). `CriteriaKept` is then that `RuleOf` makes of
  a form that shows a rule one criterion for each box, and `ReopenedIsTheSame` that `AsRead` gives back
  what `Collected` put into the JSON: in the same order, since both follow `FieldOrder` and the
  members of a sequence that are in a set (`Picked`) are the same for the same sequence and set. Both
  encodings in between, when a rule is stored and when it is opened, leave texts in ASCII alone and are
  why `KeepsItsTexts` is a premise; `CriteriaKept` has none, since it compares words. An Apply
  stores under the name as it is read back, so what a rule's own name is about are names in ASCII.
  The second needs `own`: only of a rule the form made is the order that of the fields. The
  attempt to prove the two corrected them. A rule made before any daemon had connected belongs to
  a node that is in no list of nodes; opened with the box for all nodes still checked, removed
  meanwhile and applied, it is stored nowhere. Both therefore speak of an Apply that stores the rule
  being edited (`Stores`). The run did not show this: it takes seven events, one beyond its bound.
* **RuleSync.** `BooksSafe` is inductive with the types. `RulesInForceAreKnown` is about what is
  settled; the invariant says it of what is not: of a name that nothing overtook, a waiting
  Subscribe names the daemon's rule (`QueueOf`), an answer on its way carries the rule in memory,
  and without one, what the notification being written makes of the daemon's rule is what memory
  has (`Agreed`); a session that is off has nothing under way (`SessionOf`).
* **StatsWindow.** One batch of deduplication is enough because a daemon's pings are handled in the
  order of its log (`OrderInv`) and the events taken that a ping may repeat are in the list, for
  every ping that waits and for the next one (`TakenInv`). `BatchAtomic` needs that what is read is
  what is committed while no transaction is open (`StoreInv`), and otherwise follows from the
  tests of `insertBatch()`. `ScreenFollows`: a batch without a refresh has no fresh event and no changed
  counter, so whatever becomes of its transaction adds no row.
* **Shell.** `TrayFollowsWindow` is inductive with the types. `ShownIsRunning` needs that a Subscribe
  request that is not out of date tells the truth (`QueueInv`), that something is being written
  to open streams only (`OutboxInv`), and that a lost daemon leaves `inStep` (`InStepInv`).
* **Preferences.** `LimitsExclude` and `HiddenFormIsStored` hold because every load, including the one
  after a kill, ends in one of the forms that `GoodForm` allows; between two writes of Apply each
  setting is what the form says or is still to be written (`ApplyInv`). `ConfigInStep` needs the
  same of Subscribe requests as in Shell (`DaemonInv`), and that the combo box lists known
  daemons (`ListedInv`).

What is assumed of the constants is named in the modules (`...Assumption`): the values that stand
for "none" are none of the others; bounds are numbers; a daemon reports a configuration that is
one (`Preferences`), its list of nodes is a sequence of nodes; there is a daemon at all
(`NotifyStream`: `Keys # {}`); in the combo of processes some item comes first, whichever are
listed (`ProcMonitor`); the tabs with details of their own are not those for events, nodes and
rules (`StatsWindow`); there is a node and a duration to choose, patterns and directories are
words, the combo of addresses of the rule dialog takes no text, a port and a user's number are ASCII,
and what is read back for a name is a name (`RuleForm`). TLC evaluates each of them in the runs.

Only model-checked is all liveness (`EveryCallFreed`, `LoneQuestionAnswered`, `PendingIsWritten`,
`QueueIsServed`, `DnsRuleMade`, `MonitoredIsShown`), which is out of the prover's reach. One theorem has a
hypothesis that limits what it says, explained above: `Consistent` (`OrderIsRight`).

## 5. Assumptions about what is not in the repository

* gRPC delivers every tag once and each queue to one thread; on one call FINISH and DONE
  come in any order. `AsyncNotifyWhenDone()` is called after the accept (grpc_server.cpp:153)
  although gRPC documents it for before; the models let DONE be delivered all the same.
* `Shutdown()` without a deadline fails pending accepts and returns when no call is open.
* `TQDialog::exec()` of a dialog already in its loop returns at once, and a modal prompt
  keeps the user from the preferences.
* `TQThread::running()` is true until `run()` has returned and the thread has ended.
* A daemon's pings arrive in the order it sent them, and the window of events it may still
  send never moves back. What a daemon does with a notification is modelled from what the
  UI takes it to do (set, delete, enable, disable a rule of that name).
* `MONITOR_PROCESS` is answered by reports under its id until the process ends (an ERROR) or
  `STOP_MONITOR_PROCESS` comes. It takes a user a second to open the dialog for other processes
  after a click in it, so that ids of two openings differ.
* A daemon that subscribes says what its firewall and configuration are at that moment; one
  that restarts reads its file.
* SQLite takes the columns that are neither grouped nor aggregated from the row that MAX()
  chose (its documented extension for a single MAX), which every detail view relies on.
* `TQString(const char*)` reads Latin-1: TQt reads any other encoding only after
  `TQTextCodec::setCodecForCStrings()`, which nothing in the repository calls. The SQLite driver gives
  back the text it was given. File names are UTF-8.
* `setCurrentText()` of a combo box that is not editable selects the item or replaces the text
  of the current one; `std::stable_sort` sorts by a comparator that is consistent.
* `RuleSync`'s statements succeed. In `Statistics` any may fail, but a failure does not make
  SQLite roll back the transaction by itself (it may, on a full disk; the rest of the
  batch would then be committed in part), and BEGIN fails only inside a transaction.
* What ROLLBACK leaves with `journal_mode=OFF` is undefined. `Statements` lets any part of a
  batch be the part that is written, and the model keeps that part; a file is undone whole.

## 6. What the models show

One run finds the code at odds with its comment (`findings`): the double delete
(`ask_double_delete`). Besides, and not as runs of their own:

**Calls and threads**

* Quitting while a question is queued or shown blocks: `Shutdown()` (grpc_server.cpp:476) waits
  for the open call, on the thread that would have to answer it.
* A cancelled call can be freed while the GUI holds it: a FINISH that fails with `m_state`
  not yet FINISH deletes it (126-131). `GuiObjectsAreLive` and `NoDanglingTag` exclude cancelled calls.
* When two prompts meet, both are answered with a rule of the later connection
  (prompt_dialog.cpp:382), the first has no countdown any more and may never be answered: the
  daemon waits for it, and the call object stays, until a user comes (`WaitsForUser`).
* A prompt counts down from the timeout that the previous prompt was configured with.
* `customEvent()` looks `addr` up in a map whose keys are `proto:addr` (ui_controller.cpp:373),
  so with several daemons every connection counts as local.
* A second notification before the first is written is dropped (grpc_server.cpp:378).
* A disconnect with Read and Write outstanding yields two failed tags; the second is
  handled on a freed stream (310). `ConnectedNoFault` excludes it.
* A reply that comes before `m_state = ACTIVE` is taken for the accept (322-326): it is not forwarded, a
  second handler waits for connections, and the stream is registered a second time. If the daemon
  has lost it and opened another one by then, that second registration replaces the entry of the
  new stream, and the old one's teardown then removes it (579 finds its own): the connected daemon
  gets no notification until it connects again. `RepliesForwarded` counts the reply in `swallowed`.
* A stream that is deleted with its alarm set leaves an ALARM tag behind, which is
  "treated as a no-op" (301-304) by a method of the freed object.
* The resolver's worker that is about to return does not see an address queued before its
  thread has ended (net_identity_resolver.cpp:126): it waits for the next request.
* `main()` recognises `unix:@` (six characters) and cuts seven, the first of an abstract
  socket's name among them (main.cpp:159-161).

**Rules**

* `addRules()` never removes: rules that a daemon lost while it was away stay in the UI.
  `RulesInForceAreKnown` is therefore about the rules a daemon has, not the other way round.
* Prompt, rule dialog and DNS rule add rules without telling the rules tab, whose rows stay
  as they were until the next refresh.
* Answers, notifications and Subscribe snapshots overtake each other. `behind` holds the names
  for which that happened; for these memory and daemon may differ for good.
* The DNS rule is retried for the first node key only (main_window.cpp:3844), and
  `m_internalDnsRuleCreated` stays set when a daemon restarts, which forgets a rule that
  lasts "until restart".
* `Rules::add()` changes memory whether or not its INSERT succeeded.

**Statistics and the window**

* After a failed COMMIT (ui_controller.cpp:663-675) the transaction stays open: every later BEGIN
  fails, the statements go into it, and nothing reaches the disk until the UI ends.
* A batch that was rolled back is not inserted again: its events are in the dedup list.
* The row of a prompted connection has no arguments and the daemon's row of the same one has,
  so both are kept, although a comment has the UNIQUE constraint join them (database.cpp:376-377).
* The details of programs, addresses, ports and users do not follow the statistics
  (main_window.cpp:3872-3876). The connections of an opened rule are loaded once, when it is
  opened: a change of tab or limit only loads the hidden overview (3695).
* A change of tab and the limit combo load the events even if the log is frozen.
* Clean in the details of a node fails at its first DELETE: `nodes` has no column `what`.
* A purge of fewer than five rows removes them all.
* `Database::select()` ignores its limit and its fields. Save ignores the choice "reject", the
  limit and the pause.
* The views of hosts, programs, addresses, ports and users apply their LIMIT before they drop the
  internal rule's rows, that of a node after, so the former may show fewer. They do not group by
  the rule: a newer connection of the internal rule hides the whole group it falls into. The
  rule's view shows a protocol, and the host's a user, that it does not group by.
* Sort keys are cached for the rows visible at that moment; a wider filter sorts rows without
  keys until the next refresh. Numbers and texts in one column are compared by a relation that is
  no strict weak ordering (tqtmvctableview.cpp:48-56).
* Only the events tab restores the selection: after `refreshRules()` the current row is another
  rule's, and Toggle and Delete act on that. `onDataChanged()` (432) ignores the column filter.

**Firewall and tray**

* Two quick toggles: the second notification is dropped and window and daemon differ for good.
  So they do after a refused toggle, and a Subscribe request that is older than a toggle
  overrides it on the screen. With two daemons the last one that subscribed decides what is shown.
* `setDaemonConnected()` and `setIconDisconnected()` are called nowhere: a disconnection is never
  shown. The button's pressed state does not follow Subscribe.
* A Subscribe, a toggle, a change of theme or the end of an inner prompt clears the alert icon.
  Before the first connection a change of theme turns the item "Disable" into "Enable".

**Process details**

* A change of process sends STOP and MONITOR in a row; the second is dropped unless a completion
  thread was quick, and the dialog then shows "running" for a process nobody watches.
* After an ERROR the button says "start" but `m_pid` is still set, so Start does nothing (383). A
  late ERROR of the former process stops the display of the new one.
* A report without Descriptors, IOStats, Statm or Path leaves the tab or label as it was
  (98-137, 523). After a late report of p1, one of p2 that has none puts p2's arguments over p1's
  open files. `PageFitsHeader` excuses what the last report lacks, and no more;
  `ShownWasAskedFor` says that what is left over is of a process the dialog was opened for. The
  icon is not cleared when another process is chosen (583-600).
* STOP and MONITOR of one second share an id. Escape hides the dialog and leaves the daemon at work.
* The dialog's destructor stops monitoring through a server that has been deleted (main.cpp:46-56).

**Preferences**

* An Apply that is killed leaves a mix of old and new settings. A first run killed between
  config.cpp:136 and 147 never gets the purge default: the dialog shows it on
  (preferences_dialog.cpp:801-805), the controller takes it for off. Failed writes are silent.
* The combo box of nodes is filled at construction and on Close only; "apply to all nodes" stays
  checked although a comment has `loadSettings()` reset the form (269); values that a combo does not
  list are replaced by its first item when they are applied.
* A dropped CHANGE_CONFIG is saved as the node's configuration all the same (1034-1035), and a page filled
  before a node came back is written over what it brought.
* Save with an empty server address warns and closes without sending.

**Rule dialog**

* `parseOperatorsJson()` does not undo `jsonEscape()` (rule_dialog.cpp:169): backslashes double every
  time a list is edited, a '}' in a value empties it, a '"' cuts it.
* Case sensitivity is not read back; "apply to all nodes" is not reset; New comes up with what the
  dialog held, its name included. Automatic names collide, and a prompt's rule has the name of the
  executable: the later rule replaces the earlier.
* Criteria the form has no field for are dropped silently, of two with one operand the last stays.
  A regular expression for a port or a user becomes a simple comparison, `dest.network` becomes
  `dest.ip`, and a duration or node that the combo does not list takes the place of its first item.
* A prompt's "1.2.*" becomes a regular expression for `dest.host` (prompt_dialog.cpp:563-573, 706-709), and its
  rule for `process.command` has empty data; the default rule takes the first argument.
* With "apply to all nodes" still checked, a rule of a node that never connected is not stored
  where it came from.
* Texts outside ASCII are encoded once more each time a rule is stored (rules.cpp:7) and each time it is
  opened (main_window.cpp:1934-1943, rule_dialog.cpp:552, 571-574), so a rule with the path `/home/josé/x` changes
  at the daemon whenever it is opened and applied. A prompt's rule has its texts encoded once when the
  daemon gets it, those of its base twice in a list, and is stored with one more. A rule whose
  name is outside ASCII is stored beside the one that was opened; typed, a directory outside
  ASCII is refused, since `latin1()` (104) is not its name. `EditChangesOneRule` is about names in
  ASCII, `ReopenedIsTheSame` about texts in ASCII; no text of the repository promises either for others.
* Renaming a rule in the dialog adds one and leaves the old one, here and at the daemon.

## 7. Not modelled, and the plan

Not modelled: unary call objects and `start()`/`initAccepts()` racing the first tags; the shutdown of
streams; quit as a whole (`onQuitRequested()` removes posted events of the window, while the events
go to the controller) and the removal of the DNS rule; schema upgrade and backup copy of the database;
the tree and combo that filter the rules tab; columns, cell styles and painting; icons, layout,
messages. Desktop entries and JSON are sequential parsers without shared state.

Next, if the system grows: `ServerLife` (unary calls, `start()`, streams at shutdown) and the
composition of quit with the prompts and streams that are open.

Proofs left: none but of liveness (section 4).
