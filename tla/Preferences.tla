---------------------------- MODULE Preferences ----------------------------
(***************************************************************************)
(* The preferences dialog (src/src/preferences_dialog.cpp) over the        *)
(* settings file (config.cpp, tdeext/tqtsettings.cpp) and over the         *)
(* configurations of the daemons (nodes.cpp).                              *)
(*                                                                         *)
(* A setting is written to the file as soon as it is set, so a handler     *)
(* that sets several is several actions and the program can be killed      *)
(* between two of them; every other handler is one action.  Three          *)
(* settings of the database stand for all.  A daemon's configuration is    *)
(* a combo box's value (as are four of its fields) and the address of the  *)
(* server it may have; a notification is written to a daemon whose stream  *)
(* is open and idle and dropped for any other.                             *)
(***************************************************************************)
EXTENDS Naturals, Sequences

CONSTANTS NodeOrder,   \* the addresses "proto:addr", as the node map sorts them
          Listed,      \* the durations the form lists
          FirstListed,
          Addresses,
          NoAddress,   \* ""
          NoServer,    \* a configuration without the object "Server"
          Reported,    \* configurations that daemons start with
          Unparsable,  \* one that is no JSON object
          NoNode, NoConfig,
          MaxEvents    \* bound: user actions, failures and daemons' actions

Nodes == {NodeOrder[i] : i \in DOMAIN NodeOrder}
Config == [duration : Listed \cup {c.duration : c \in Reported},
           address : Addresses \cup {NoAddress, NoServer}]
Texts == Config \cup {Unparsable}

ASSUME NamesAssumption ==
  /\ NodeOrder \in Seq(Nodes)
  /\ FirstListed \in Listed /\ NoNode \notin Nodes
  /\ NoAddress \notin Addresses /\ NoServer \notin Addresses \cup {NoAddress}
ASSUME ConfigsAssumption ==
  /\ Reported \subseteq Config /\ Unparsable \notin Config
  /\ NoConfig \notin Texts
ASSUME BoundsAssumption == MaxEvents \in Nat

Keys == {"type", "purge", "ram"}
Values == {"memory", "file", "true", "false", "missing"}

VARIABLES
  disk,     \* settings.ini
  settings, \* TQtSettings::m_kv
  stage,    \* what the GUI thread is in: "idle", "start", "apply", "save"
  todo,     \* the settings it has still to set
  form,     \* the dialog
  configs,  \* Nodes::m_nodes: the configuration of each daemon
  daemons,  \* external: the configuration each daemon runs with
  up,       \* external: the daemons with a stream
  outbox,   \* the configuration being written to a daemon
  waiting,  \* a SubscribeEvent that the GUI thread has not handled
  inStep,   \* history: daemons that had the last word or took it
  events

file == <<disk, settings, stage, todo>>
wire == <<daemons, up, outbox, waiting, inStep>>
vars == <<file, form, configs, wire, events>>

Dialog ==
  [made : BOOLEAN, open : BOOLEAN,
   page : {"Database", "Nodes"},
   type : {"memory", "file"}, purge : BOOLEAN, ram : BOOLEAN,
   listed : SUBSET Nodes, choice : Nodes \cup {NoNode},
   duration : Listed, address : Addresses \cup {NoAddress}, editable : BOOLEAN,
   needsUpdate : BOOLEAN, all : BOOLEAN,
   base : Config \cup {NoConfig},               \* history: filled from this
   edited : SUBSET {"duration", "address"}]     \* history: since then

TypeOK ==
  /\ disk \in [Keys -> Values] /\ settings \in [Keys -> Values]
  /\ stage \in {"idle", "start", "apply", "save"}
  /\ todo \in Seq(Keys \X Values)
  /\ form \in Dialog
  /\ configs \in [Nodes -> Texts \cup {NoConfig}]
  /\ daemons \in [Nodes -> Texts]
  /\ up \subseteq Nodes /\ inStep \subseteq Nodes
  /\ outbox \in [Nodes -> Config \cup {NoConfig}]
  /\ waiting \in [Nodes -> [config : Texts, current : BOOLEAN] \cup {NoConfig}]
  /\ events \in 0 .. MaxEvents

NewForm ==
  [made |-> FALSE, open |-> FALSE, page |-> "Database",
   type |-> "memory", purge |-> FALSE, ram |-> FALSE,
   listed |-> {}, choice |-> NoNode,
   duration |-> FirstListed, address |-> NoAddress, editable |-> TRUE,
   needsUpdate |-> FALSE, all |-> FALSE, base |-> NoConfig, edited |-> {}]

-----------------------------------------------------------------------------
(* The settings.                                                           *)

\* initDefaults(): what a file lacks; the limit only if it lacked the type.
Defaults(kv) ==
  IF kv["type"] # "missing" THEN <<>>
  ELSE <<<<"type", "memory">>>> \o
       (IF kv["purge"] = "missing" THEN <<<<"purge", "true">>>> ELSE <<>>)

Init ==
  /\ disk \in {[type |-> t, purge |-> "missing", ram |-> "missing"] :
                 t \in {"missing", "memory", "file"}}
  /\ settings = disk
  /\ stage = "start" /\ todo = Defaults(disk)
  /\ form = NewForm
  /\ configs = [n \in Nodes |-> NoConfig]
  /\ daemons \in [Nodes -> Reported \cup {Unparsable}]
  /\ up = {} /\ inStep = {}
  /\ outbox = [n \in Nodes |-> NoConfig]
  /\ waiting = [n \in Nodes |-> NoConfig]
  /\ events = 0

Happens == events < MaxEvents /\ events' = events + 1

\* setSetting(): set, and the whole file written anew and renamed.
SetNext ==
  /\ todo # <<>>
  /\ settings' = [settings EXCEPT ![Head(todo)[1]] = Head(todo)[2]]
  /\ todo' = Tail(todo)
  /\ disk' = settings'
  /\ UNCHANGED <<stage, form, configs, wire, events>>

\* The disk is full; nobody is told.
SetNextUnwritten ==
  /\ Happens
  /\ todo # <<>>
  /\ settings' = [settings EXCEPT ![Head(todo)[1]] = Head(todo)[2]]
  /\ todo' = Tail(todo)
  /\ UNCHANGED <<disk, stage, form, configs, wire>>

Started ==
  /\ stage = "start" /\ todo = <<>>
  /\ stage' = "idle"
  /\ UNCHANGED <<disk, settings, todo, form, configs, wire, events>>

\* The UI is started again with the file `kept'; its memory is gone.
Restart(kept) ==
  /\ disk' = kept /\ settings' = kept
  /\ stage' = "start" /\ todo' = Defaults(kept)
  /\ form' = NewForm
  /\ configs' = [n \in Nodes |-> NoConfig]
  /\ up' = {} /\ inStep' = {}
  /\ outbox' = [n \in Nodes |-> NoConfig]
  /\ waiting' = [n \in Nodes |-> NoConfig]
  /\ UNCHANGED daemons

Killed == Happens /\ Restart(disk)

\* Config::destroy() writes the file once more.
Quit == Happens /\ stage = "idle" /\ Restart(settings)

-----------------------------------------------------------------------------
(* The form, each operation from a state f of it.                          *)

SetPurge(f, on) ==
  [f EXCEPT !.purge = on, !.ram = @ /\ ~(on /\ ~f.purge)]

SetRam_Alone(f, on) == [f EXCEPT !.ram = on]

\* A check box that turns on turns the other off; the load sets both in turn.
SetRam(f, on) ==
  [f EXCEPT !.ram = on, !.purge = @ /\ ~(on /\ ~f.ram)]

\* The limits as the load reads them: in memory a missing one counts as on.
PurgeOf(kv) ==
  IF kv["type"] = "memory" /\ kv["purge"] = "missing" THEN TRUE ELSE kv["purge"] = "true"

Fill_NotTheBox(f, c) ==
  IF c = Unparsable THEN [f EXCEPT !.base = NoConfig, !.edited = {}]
  ELSE [f EXCEPT !.editable = c.address # NoServer,
                 !.address = IF c.address = NoServer THEN @ ELSE c.address,
                 !.base = c, !.edited = {}]

\* pref_load_node_config_to_ui(): a text that is not listed selects the
\* first; a text that is no object, or has no server, leaves what was there.
Fill(f, c) ==
  IF c = Unparsable THEN [f EXCEPT !.base = NoConfig, !.edited = {}]
  ELSE [f EXCEPT !.duration = IF c.duration \in Listed THEN c.duration ELSE FirstListed,
                 !.editable = c.address # NoServer,
                 !.address = IF c.address = NoServer THEN @ ELSE c.address,
                 !.base = c, !.edited = {}]

\* onNodeComboChanged(), for a daemon that is known (none is ever removed).
Choose(f, n) ==
  [Fill([f EXCEPT !.choice = n], configs[n]) EXCEPT !.needsUpdate = FALSE]

Known == {n \in Nodes : configs[n] # NoConfig}

\* loadSettings().  "Apply to all nodes" stays as it was.
Load(f) ==
  LET loaded == SetRam(SetPurge([f EXCEPT !.type = settings["type"]], PurgeOf(settings)),
                       settings["ram"] = "true")
      listing == [loaded EXCEPT !.listed = Known, !.needsUpdate = FALSE]
  IN IF Known = {} THEN [listing EXCEPT !.choice = NoNode]
     ELSE Choose(listing, NodeOrder[CHOOSE i \in DOMAIN NodeOrder :
                                      /\ NodeOrder[i] \in Known
                                      /\ \A j \in 1 .. i - 1 : NodeOrder[j] \notin Known])

FormStep == stage = "idle" /\ UNCHANGED <<file, configs, wire>>

\* onPreferencesClicked(): the dialog is made, and loaded, once.
Open ==
  /\ FormStep /\ ~form.open /\ UNCHANGED events
  /\ form' = [IF form.made THEN form ELSE Load(form) EXCEPT !.made = TRUE, !.open = TRUE]

Close_KeepsForm ==
  /\ Happens /\ FormStep /\ form.open
  /\ form' = [form EXCEPT !.open = FALSE]

\* reject(): what was not applied is discarded.
Close ==
  /\ Happens /\ FormStep /\ form.open
  /\ form' = [Load(form) EXCEPT !.open = FALSE]

ChangePage ==
  /\ FormStep /\ form.open /\ UNCHANGED events
  /\ \E page \in {"Database", "Nodes"} \ {form.page} : form' = [form EXCEPT !.page = page]

\* updateDbTabStates(): with the type File both limits are greyed out.
LimitsUsable == form.type = "memory"

EditDatabase ==
  /\ Happens /\ FormStep /\ form.open /\ form.page = "Database"
  /\ \/ \E type \in {"memory", "file"} : form' = [form EXCEPT !.type = type]
     \/ LimitsUsable /\ form' = SetPurge(form, ~form.purge)
     \/ LimitsUsable /\ form' = SetRam(form, ~form.ram)

\* onNodeNeedsUpdate(), for each control of the page.
EditNode ==
  /\ Happens /\ FormStep /\ form.open /\ form.page = "Nodes"
  /\ \/ \E d \in Listed :
          form' = [form EXCEPT !.duration = d, !.edited = @ \cup {"duration"}, !.needsUpdate = TRUE]
     \/ \E a \in Addresses \cup {NoAddress} :
          /\ form.editable
          /\ form' = [form EXCEPT !.address = a, !.edited = @ \cup {"address"}, !.needsUpdate = TRUE]
     \/ form' = [form EXCEPT !.all = ~@, !.needsUpdate = TRUE]

ChooseNode ==
  /\ Happens /\ FormStep /\ form.open /\ form.page = "Nodes"
  /\ \E n \in form.listed : form' = Choose(form, n)

-----------------------------------------------------------------------------
(* Apply and Save.                                                         *)

Boolean(b) == IF b THEN "true" ELSE "false"

\* applySettings(), up to sync(): every setting is set, changed or not.
StartApply ==
  /\ Happens /\ stage = "idle" /\ form.open
  /\ stage' \in {"apply", "save"}
  /\ todo' = <<<<"type", form.type>>,
               <<"purge", Boolean(form.purge)>>,
               <<"ram", Boolean(form.ram)>>>>
  /\ UNCHANGED <<disk, settings, form, configs, wire>>

\* pref_apply_node_config().
Applied(c) ==
  [duration |-> form.duration,
   address |-> IF form.editable /\ c.address # NoServer /\ form.address # NoAddress
               THEN form.address ELSE c.address]

Targets == IF form.all THEN Known ELSE Known \cap {form.choice}

\* The page in front decides, then whether there is something to send; an
\* empty server address is refused with a message.
Sends ==
  /\ form.page = "Nodes"
  /\ form.needsUpdate \/ form.all
  /\ ~(Targets # {} /\ form.editable /\ form.address = NoAddress)

\* sync() and the rest: each target's new configuration is sent, kept
\* whether or not its stream takes it, and passed over if it does not parse.
FinishApply ==
  /\ stage \in {"apply", "save"} /\ todo = <<>>
  /\ disk' = settings
  /\ LET written == {n \in Targets : Sends /\ configs[n] # Unparsable}
         taken == {n \in written \cap up : outbox[n] = NoConfig}
     IN /\ configs' = [n \in Nodes |-> IF n \in written THEN Applied(configs[n]) ELSE configs[n]]
        /\ outbox' = [n \in Nodes |-> IF n \in taken THEN Applied(configs[n]) ELSE outbox[n]]
        /\ waiting' = [n \in Nodes |->
                         IF n \in taken /\ waiting[n] # NoConfig
                         THEN [waiting[n] EXCEPT !.current = FALSE] ELSE waiting[n]]
        /\ inStep' = (inStep \ written) \cup taken
        /\ form' = [form EXCEPT !.open = stage = "apply",
                                !.needsUpdate = @ /\ ~Sends,
                                !.base = IF form.choice \in written THEN configs'[form.choice] ELSE @,
                                !.edited = IF form.choice \in written THEN {} ELSE @]
  /\ stage' = "idle"
  /\ UNCHANGED <<settings, todo, daemons, up, events>>

-----------------------------------------------------------------------------
(* The daemons.                                                            *)

Connect(n) ==
  /\ n \notin up /\ waiting[n] = NoConfig
  /\ up' = up \cup {n}
  /\ waiting' = [waiting EXCEPT ![n] = [config |-> daemons[n], current |-> TRUE]]
  /\ UNCHANGED <<file, form, configs, daemons, outbox, inStep, events>>

OnSubscribed_KeepsKnown(n) ==
  /\ stage = "idle" /\ waiting[n] # NoConfig
  /\ configs' = [configs EXCEPT ![n] = IF @ = NoConfig THEN waiting[n].config ELSE @]
  /\ inStep' = IF waiting[n].current THEN inStep \cup {n} ELSE inStep \ {n}
  /\ waiting' = [waiting EXCEPT ![n] = NoConfig]
  /\ UNCHANGED <<file, form, daemons, up, outbox, events>>

\* Nodes::add().  The form, open or not, keeps what it was filled with.
OnSubscribed(n) ==
  /\ stage = "idle" /\ waiting[n] # NoConfig
  /\ configs' = [configs EXCEPT ![n] = waiting[n].config]
  /\ inStep' = IF waiting[n].current THEN inStep \cup {n} ELSE inStep \ {n}
  /\ waiting' = [waiting EXCEPT ![n] = NoConfig]
  /\ UNCHANGED <<file, form, daemons, up, outbox, events>>

Obey(n) ==
  /\ outbox[n] # NoConfig
  /\ daemons' = [daemons EXCEPT ![n] = outbox[n]]
  /\ outbox' = [outbox EXCEPT ![n] = NoConfig]
  /\ UNCHANGED <<file, form, configs, up, waiting, inStep, events>>

Disconnect(n) ==
  /\ Happens
  /\ n \in up
  /\ up' = up \ {n}
  /\ outbox' = [outbox EXCEPT ![n] = NoConfig]
  /\ waiting' = IF waiting[n] = NoConfig THEN waiting
                ELSE [waiting EXCEPT ![n].current = FALSE]
  /\ inStep' = inStep \ {n}
  /\ UNCHANGED <<file, form, configs, daemons>>

\* Somebody edits the daemon's own file and starts it again.
EditByHand(n) ==
  /\ Happens
  /\ n \notin up
  /\ \E c \in Reported : daemons' = [daemons EXCEPT ![n] = c]
  /\ UNCHANGED <<file, form, configs, up, outbox, waiting, inStep>>

Next ==
  \/ SetNext \/ SetNextUnwritten \/ Started \/ Killed \/ Quit
  \/ Open \/ Close \/ ChangePage \/ EditDatabase \/ EditNode \/ ChooseNode
  \/ StartApply \/ FinishApply
  \/ \E n \in Nodes : \/ Connect(n) \/ OnSubscribed(n) \/ Obey(n)
                      \/ Disconnect(n) \/ EditByHand(n)

Spec == Init /\ [][Next]_vars

-----------------------------------------------------------------------------
(* The two limits of the database exclude each other in the form, whatever *)
(* a killed Apply left in the file and in whatever order a load sets them. *)
LimitsExclude == ~(form.purge /\ form.ram)

Safe == TypeOK /\ LimitsExclude

(* While the dialog is hidden its database page is what a load would show, *)
(* so that it opens on what is stored, after Close, Escape and Save alike. *)
HiddenFormIsStored ==
  form.made /\ ~form.open /\ stage = "idle" =>
    LET both == PurgeOf(settings) /\ settings["ram"] = "true"
    IN /\ form.type = settings["type"]
       /\ form.ram = (settings["ram"] = "true")
       /\ form.purge = (PurgeOf(settings) /\ ~both)

(* Applied to one daemon, the page changes no other's configuration and of *)
(* that one only the fields the user touched, whatever the form held from  *)
(* daemons chosen before; provided that its configuration is still the one *)
(* the form was filled from and that the combo box lists its value.        *)
OnlyEditsAreWritten ==
  [][stage # "idle" /\ stage' = "idle" /\ ~form.all =>
       \A n \in Nodes : configs'[n] # configs[n] =>
         /\ n = form.choice
         /\ configs[n] = form.base /\ form.base.duration \in Listed =>
              \A k \in {"duration", "address"} \ form.edited :
                configs'[n][k] = configs[n][k]]_vars

(* What the UI keeps as a daemon's configuration is what the daemon runs   *)
(* with, or is being sent, if the daemon had the last word or took it.     *)
Coming(n) == IF outbox[n] = NoConfig THEN daemons[n] ELSE outbox[n]
ConfigInStep == \A n \in inStep : configs[n] = Coming(n)
=============================================================================
