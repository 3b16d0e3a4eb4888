------------------------------ MODULE RuleForm ------------------------------
(***************************************************************************)
(* The rule dialog: how a stored rule is taken apart into the dialog's     *)
(* fields and put together again, and the rules a prompt makes, which are  *)
(* edited with it later (src/src/rule_dialog.cpp, prompt_dialog.cpp,       *)
(* main_window.cpp, rules.cpp, nodes.cpp).                                 *)
(*                                                                         *)
(* The dialog is made once and not modal: it is hidden and shown again     *)
(* with what it holds, and the daemons' rules and the prompts go on while  *)
(* it is open.  A handler of the GUI thread is one action.  Of RuleSync    *)
(* there remains one store of rules, Rules::m_rules with its table.        *)
(*                                                                         *)
(* A text of a field is a word, how often its backslashes have been        *)
(* doubled, and how often its letters outside ASCII have been encoded:     *)
(* jsonEscape() doubles backslashes in a list, where the daemon undoes it  *)
(* and parseOperatorsJson() does not; and a text is handed on as utf8()    *)
(* and read as TQString(c_str()), which is Latin-1 as long as no codec for *)
(* C strings is set, and nothing sets one.  Words hold no double quote, no *)
(* blank at an end however often they are encoded, and are in lower case   *)
(* (the protocol, in ASCII, is raised and lowered again).                  *)
(***************************************************************************)
EXTENDS Naturals, Sequences, FiniteSets, SequencesExt

CONSTANTS NodeOrder,    \* the addresses "proto:addr", as the node map sorts them
          Names,        \* names of rules
          Reencoded,    \* a name, as it is read after utf8(): one in ASCII is the same
          Slug,         \* Slug[a, w]: slugify_like_python() of an action and a hint
          Durations,    \* m_durationCombo's items, "once" first
          DurationTexts,   \* what the duration of a rule says
          OtherOperands,   \* operands the dialog has no field for
          Words,        \* what a field holds
          Patterns,     \* words that look like regular expressions
          Slashed,      \* words with a backslash
          Braced,       \* words with a closing brace
          NonAscii,     \* words with a letter outside ASCII
          Directories,  \* words that name a directory
          Sample,       \* the host the dialog is made with
          Foreign,      \* bound: the names and rules the daemons bring
          Connections,  \* bound: the connections prompts ask about: the name
                        \*   of the executable, the words a rule may take from
                        \*   one by field, the host, and its wildcard_host_to_regex()
          Asked,        \* bound: the targets chosen in a prompt
          Typed,        \* bound: words the user types, by field
          TypedNames,   \* bound: names the user types
          Checkable,    \* bound: fields whose boxes the user clicks
          MaxOutside,   \* bound: rules that come or go outside the dialog
          MaxEvents     \* bound: those, and actions of the user in the dialog

Nodes == ToSet(NodeOrder)
Actions == {"allow", "deny", "reject"}
Plain(w) == [word |-> w, doubled |-> 0, recoded |-> 0]
Empty == Plain("")
Texts == [word : Words \cup {""}, doubled : Nat, recoded : Nat]

\* The fields of the dialog, as onApplyClicked() visits them.
FieldOrder == <<"process.path", "process.command", "user.id", "process.id",
                "dest.port", "protocol", "dest.host", "dest.ip",
                "lists.domains", "lists.domains_regexp", "lists.ips", "lists.nets">>
Fields == ToSet(FieldOrder)
Processes == {"process.path", "process.command"}
DefaultTargets == {"process.path", "process.command", "dest.ip"}
Lists == {"lists.domains", "lists.domains_regexp", "lists.ips", "lists.nets"}
Operands == Fields \cup {"dest.network"} \cup OtherOperands
OperatorTypes == {"simple", "regexp", "network", "lists"}

\* One criterion, and a rule: `list' when its operator is a JSON list.
Criterion == [type : OperatorTypes, operand : Operands, data : Texts, sensitive : BOOLEAN]
Rule == [enabled : BOOLEAN, action : Actions, duration : DurationTexts, list : BOOLEAN,
         sensitive : BOOLEAN, criteria : Seq(Criterion)]
NoRule == [criteria |-> <<>>]

ASSUME WordsAssumption ==
  /\ Patterns \cup Slashed \cup Braced \cup NonAscii \cup Directories
       \cup {Sample, "tcp"} \subseteq Words
  /\ Slashed \cup Braced \subseteq Patterns /\ "" \notin Words
ASSUME NamesAssumption ==
  /\ Slug \in [Actions \X (Words \cup {""}) -> Names] /\ "" \notin Names
  /\ Reencoded \in [Names -> Names]
ASSUME ItemsAssumption ==
  /\ NodeOrder # <<>> /\ NodeOrder \in Seq(Nodes)
  /\ \A i, j \in DOMAIN NodeOrder : NodeOrder[i] = NodeOrder[j] => i = j
  /\ Durations # <<>> /\ Durations \in Seq(DurationTexts) /\ Durations[1] = "once"
  /\ "always" \in DurationTexts
ASSUME ConnectionsAssumption ==
  \A conn \in Connections :
    /\ conn.name \in Names /\ {conn.host, conn.wildcard} \subseteq Words
    /\ \A field \in Asked \cup DefaultTargets \cup {"dest.port", "user.id"} :
         conn.word[field] \in Words \cup {""}
    /\ {conn.word["dest.port"], conn.word["user.id"]} \cap NonAscii = {}
\* The combo of addresses has no item and no line to type in.
ASSUME BoundsAssumption ==
  /\ MaxOutside \in Nat /\ MaxEvents \in Nat
  /\ Foreign \subseteq Names \X Rule /\ TypedNames \subseteq Names
  /\ Asked \subseteq Fields /\ Checkable \subseteq Fields
  /\ Typed \in [Fields -> SUBSET Words] /\ Typed["dest.ip"] = {}

VARIABLES
  rules,    \* Rules::m_rules: node -> name -> rule, or NoRule
  nodes,    \* keys of Nodes::m_nodes
  form,     \* the dialog's fields, or <<>> before it is made
  open,     \* whether the dialog is on the screen
  edited,   \* history: the node and name of the rule being edited, until
            \*   the user turns the form to another one
  loaded,   \* history: that rule as editRule() got it, until the form is touched
  made,     \* history: the rules the form stored, until another replaces them
  own,      \* history: whether `loaded' was one of them
  outside, events

editing == <<edited, loaded, own>>
ruleFormVars == <<rules, nodes, form, open, editing, made, outside, events>>

NoForm == <<>>
Form == [name : Names \cup {""}, nodeItems : Seq(Nodes), node : Nat, all : BOOLEAN,
         enabled : BOOLEAN, sensitive : BOOLEAN, action : Actions,
         durations : Seq(DurationTexts), duration : Nat,
         checked : SUBSET Fields, text : [Fields -> Texts], regexp : SUBSET Processes]

RuleFormTypeOK ==
  /\ \A n \in Nodes, x \in Names : rules[n][x] = NoRule \/ rules[n][x] \in Rule
  /\ nodes \subseteq Nodes /\ open \in BOOLEAN
  /\ \/ form = NoForm
     \/ /\ form \in Form
        /\ form.node \in DOMAIN form.nodeItems
        /\ form.duration \in DOMAIN form.durations
  /\ open => form # NoForm
  /\ edited \in (Nodes \X Names) \cup {<<>>}
  /\ loaded = NoRule \/ (loaded \in Rule /\ edited # <<>>)
  /\ made \subseteq Nodes \X Names /\ own \in BOOLEAN
  /\ outside \in 0 .. MaxOutside /\ events \in 0 .. MaxEvents

RuleFormInit ==
  /\ rules = [n \in Nodes |-> [x \in Names |-> NoRule]]
  /\ nodes = {} /\ form = NoForm /\ open = FALSE
  /\ edited = <<>> /\ loaded = NoRule /\ made = {} /\ own = FALSE
  /\ outside = 0 /\ events = 0

-----------------------------------------------------------------------------
(* How a text is handed on.                                                *)

\* TQString(t.utf8()).
Recode(t) == IF t.word \in NonAscii THEN [t EXCEPT !.recoded = @ + 1] ELSE t

\* Every text of a rule is handed on when the rule is stored (Rules::add()) and
\* when it is opened again; the JSON around those of a list is ASCII.
Recoded(r) ==
  [r EXCEPT !.criteria =
     [i \in DOMAIN r.criteria |-> [r.criteria[i] EXCEPT !.data = Recode(@)]]]

-----------------------------------------------------------------------------
(* From the fields to a rule.                                              *)

\* The members of s that are in S, in its order: the k-th has k - 1 before it.
Picked(s, S) ==
  LET pos == {i \in DOMAIN s : s[i] \in S}
  IN [k \in 1 .. Cardinality(pos) |->
        s[CHOOSE i \in pos : Cardinality({j \in pos : j < i}) = k - 1]]

LooksLikeRegexp(t) == t.word \in Patterns

TypeOf(f, field) ==
  CASE field \in Processes -> IF field \in f.regexp THEN "regexp" ELSE "simple"
    [] field \in {"protocol", "dest.host"} ->
         IF LooksLikeRegexp(f.text[field]) THEN "regexp" ELSE "simple"
    [] field = "dest.ip" -> "network"
    [] field \in Lists -> "lists"
    [] OTHER -> "simple"

CriterionOf(f, field) ==
  [type |-> TypeOf(f, field), operand |-> field, data |-> f.text[field],
   sensitive |-> f.sensitive]

Collected(f) ==
  LET chosen == Picked(FieldOrder, f.checked)
  IN [i \in DOMAIN chosen |-> CriterionOf(f, chosen[i])]

\* Without a process a criterion that stands alone and looks like a regular
\* expression is one.
Alone(f, c) ==
  IF f.checked \cap Processes = {} /\ LooksLikeRegexp(c.data)
  THEN [c EXCEPT !.type = "regexp"] ELSE c

Accepted_AnyFolder(f) ==
  f.checked # {} /\ \A field \in f.checked : f.text[field] # Empty

\* stat() of the text's latin1(): where file names are UTF-8, a directory with
\* letters outside ASCII is found by a text encoded once, not by one as typed.
IsDirPath(t) == t.word \in Directories /\ (t.word \in NonAscii => t.recoded = 1)

Accepted(f) ==
  /\ f.checked # {}
  /\ \A field \in f.checked : f.text[field] # Empty
  /\ \A field \in f.checked \cap Lists : IsDirPath(f.text[field])

RuleOf(f) ==
  LET several == Cardinality(f.checked) >= 2
  IN [enabled |-> f.enabled, action |-> f.action, duration |-> f.durations[f.duration],
      list |-> several, sensitive |-> f.sensitive /\ ~several,
      criteria |-> IF several THEN Collected(f) ELSE <<Alone(f, Collected(f)[1])>>]

\* jsonGetStringValue() of what encodeOperatorsAsJson() wrote: a brace ends the
\* object before its data does.
Reread(t) ==
  IF t.word \in Braced THEN Empty
  ELSE IF t.word \in Slashed THEN [t EXCEPT !.doubled = @ + 1] ELSE t

Parsed(r) ==
  IF r.list THEN [i \in DOMAIN r.criteria |-> [r.criteria[i] EXCEPT !.data = Reread(@)]]
  ELSE r.criteria

\* The criteria of a stored rule, as editRule() gets them.
AsRead(r) == Parsed(Recoded(r))

\* The name of a rule that has none: its executable, else its first criterion,
\* as they are read back from the list (Slug does not tell a path from its end).
HintOf(criteria) ==
  LET paths == {i \in DOMAIN criteria : criteria[i].operand = "process.path"}
  IN criteria[IF paths = {} THEN 1 ELSE Min(paths)].data.word

NameOf(f) == IF f.name # "" THEN f.name ELSE Slug[f.action, HintOf(Parsed(RuleOf(f)))]

NodeOf(f) == f.nodeItems[f.node]

Targets(f) == IF f.all THEN nodes ELSE {NodeOf(f)}

-----------------------------------------------------------------------------
(* From a rule to the fields.                                              *)

NewForm ==
  [name |-> "",
   nodeItems |-> IF nodes = {} THEN <<NodeOrder[1]>>
                 ELSE Picked(NodeOrder, nodes),
   node |-> 1, all |-> FALSE, enabled |-> FALSE, sensitive |-> FALSE,
   action |-> "deny", durations |-> Durations, duration |-> 1,
   checked |-> {}, regexp |-> {},
   text |-> [field \in Fields |->
               CASE field = "dest.host" -> Plain(Sample)
                 [] field = "protocol" -> Plain("tcp")
                 [] OTHER -> Empty]]

TheForm == IF form = NoForm THEN NewForm ELSE form

Cleared_KeepsHost(f) ==
  [f EXCEPT !.name = "", !.node = 1, !.enabled = FALSE, !.action = "deny",
            !.duration = 1, !.checked = @ \cap {"dest.host"}, !.regexp = {},
            !.text = [field \in Fields |->
                        CASE field = "dest.host" -> f.text[field]
                          [] field = "protocol" -> Plain("tcp")
                          [] OTHER -> Empty]]

\* onResetClicked(): the boxes for all nodes and for case stay as they are.
Cleared(f) ==
  [f EXCEPT !.name = "", !.node = 1, !.enabled = FALSE, !.action = "deny",
            !.duration = 1, !.checked = {}, !.regexp = {},
            !.text = [field \in Fields |->
                        IF field = "protocol" THEN Plain("tcp") ELSE Empty]]

FieldFor(operand) == IF operand = "dest.network" THEN "dest.ip" ELSE operand

\* The criterion that remains of those of one field: a later one is put over
\* an earlier one.
LastFor(criteria, field) ==
  criteria[Max({i \in DOMAIN criteria : FieldFor(criteria[i].operand) = field})]

FieldsOf(criteria) == {FieldFor(criteria[i].operand) : i \in DOMAIN criteria} \cap Fields

WithCriteria_PlainPath(f, criteria) ==
  [f EXCEPT !.checked = @ \cup FieldsOf(criteria),
            !.text = [field \in Fields |->
                        IF field \in FieldsOf(criteria) \ {"dest.ip"}
                        THEN LastFor(criteria, field).data ELSE @[field]]]

\* One criterion at a time; one without a field is lost.  The combo of
\* addresses has no item and no line to type in, so it takes no text.
WithCriteria(f, criteria) ==
  [f EXCEPT !.checked = @ \cup FieldsOf(criteria),
            !.text = [field \in Fields |->
                        IF field \in FieldsOf(criteria) \ {"dest.ip"}
                        THEN LastFor(criteria, field).data ELSE @[field]],
            !.regexp = {field \in Processes :
                          IF field \in FieldsOf(criteria)
                          THEN LastFor(criteria, field).type = "regexp" ELSE field \in @}]

\* setCurrentText() of a combo one cannot type in: an item with that text is
\* chosen, else the text of the current item is replaced.
Chosen(items, pos, t) ==
  IF t \in ToSet(items) THEN [items |-> items, pos |-> Min({i \in DOMAIN items : items[i] = t})]
  ELSE [items |-> [items EXCEPT ![pos] = t], pos |-> pos]

Loaded_NodeIfListed(f, n, x, r) ==
  LET g == Cleared(f)
      d == Chosen(g.durations, g.duration, r.duration)
  IN WithCriteria(
       [g EXCEPT !.name = Reencoded[x], !.enabled = r.enabled, !.action = r.action,
                 !.node = IF n \in ToSet(g.nodeItems)
                          THEN Chosen(g.nodeItems, @, n).pos ELSE @,
                 !.durations = d.items, !.duration = d.pos], AsRead(r))

Loaded(f, n, x, r) ==
  LET g == Cleared(f)
      pos == Chosen(g.nodeItems, g.node, n)
      d == Chosen(g.durations, g.duration, r.duration)
  IN WithCriteria(
       [g EXCEPT !.name = Reencoded[x], !.enabled = r.enabled, !.action = r.action,
                 !.nodeItems = pos.items, !.node = pos.pos,
                 !.durations = d.items, !.duration = d.pos], AsRead(r))

-----------------------------------------------------------------------------
(* The rules of daemons and prompts.                                       *)

Event == events < MaxEvents /\ events' = events + 1
Outside == Event /\ outside < MaxOutside /\ outside' = outside + 1

\* A daemon subscribes and brings a rule, or a new version of one; x and r are
\* what addRules() makes of it.
OnSubscribed(n, x, r) ==
  /\ Outside
  /\ nodes' = nodes \cup {n}
  /\ rules' = [rules EXCEPT ![n][x] = r]
  /\ made' = made \ {<<n, x>>}
  /\ UNCHANGED <<form, open, editing>>

\* The texts of a connection are UTF-8, and read as any other.
Base(conn, chosen) ==
  [type |-> CASE chosen = "dest.ip" -> "network" [] OTHER -> "simple",
   operand |-> IF chosen = "process.id" THEN "process.path" ELSE chosen,
   data |-> IF chosen = "process.command" THEN Empty ELSE Recode(Plain(conn.word[chosen])),
   sensitive |-> FALSE]

\* What the box beside "destination IP" offers.
DestinationItems == {"host", "address", "network", "wildcard"}

\* The destination by the item chosen there.
DestinationOf(conn, what) ==
  [type |-> IF what = "wildcard" THEN "regexp" ELSE "network",
   operand |-> CASE what = "wildcard" -> "dest.host"
                 [] what = "network" -> "dest.network"
                 [] OTHER -> "dest.ip",
   data |-> Recode(Plain(CASE what = "wildcard" -> conn.wildcard
                          [] what = "host" -> conn.host
                          [] OTHER -> conn.word["dest.ip"])),
   sensitive |-> FALSE]

\* buildRule(): `details' are the boxes checked in the advanced view.  With one
\* the base is taken out of the operator it was put into.
PromptRule(conn, chosen, details, what, action, duration) ==
  LET base == Base(conn, chosen)
      Detail(field) == IF field = "dest.ip" THEN DestinationOf(conn, what)
                                            ELSE Base(conn, field)
      more == Picked(<<"dest.ip", "dest.port", "user.id">>, details \ {base.operand})
  IN [enabled |-> TRUE, action |-> action, duration |-> duration,
      list |-> details # {}, sensitive |-> FALSE,
      criteria |-> IF details = {} THEN <<base>>
                   ELSE Append([i \in DOMAIN more |-> Detail(more[i])],
                               [base EXCEPT !.data = Recode(@)])]

\* Rules::add().
Added(n, x, r) ==
  /\ rules' = [rules EXCEPT ![n][Reencoded[x]] = Recoded(r)]
  /\ made' = made \ {<<n, Reencoded[x]>>}

\* promptUser(): the details box is closed, or shows them all, or those the
\* preferences name.  The rule has the name of the executable, as it was read.
PromptAnswered(n, conn, chosen, details, what, action, duration) ==
  /\ Outside /\ n \in nodes
  /\ Added(n, Reencoded[conn.name],
           PromptRule(conn, chosen, details, what, action, duration))
  /\ UNCHANGED <<nodes, form, open, editing>>

\* build_default_rule_from_config(): one criterion, by the target the
\* preferences name.  Unlike the prompt it takes the command's first argument,
\* and latin1() gives the name and the text back as they came.
DefaultRule(conn, chosen, action, duration) ==
  [enabled |-> TRUE, action |-> action, duration |-> duration, list |-> FALSE,
   sensitive |-> FALSE,
   criteria |-> <<[Base(conn, chosen) EXCEPT !.data = Plain(conn.word[chosen])]>>]

\* Prompts are switched off.
DefaultTaken(n, conn, chosen, action, duration) ==
  /\ Outside /\ n \in nodes
  /\ Added(n, conn.name, DefaultRule(conn, chosen, action, duration))
  /\ UNCHANGED <<nodes, form, open, editing>>

RemoveRule(n, x) ==
  /\ Outside /\ rules[n][x] # NoRule
  /\ rules' = [rules EXCEPT ![n][x] = NoRule]
  /\ made' = made \ {<<n, x>>}
  /\ UNCHANGED <<nodes, form, open, editing>>

-----------------------------------------------------------------------------
(* The user.                                                               *)

Action == Event /\ outside' = outside

\* onNewClicked(): the dialog comes up with what it held.
New ==
  /\ Action /\ form' = TheForm /\ open' = TRUE
  /\ edited' = <<>> /\ loaded' = NoRule /\ own' = FALSE
  /\ UNCHANGED <<rules, nodes, made>>

Edit(n, x) ==
  /\ Action /\ rules[n][x] # NoRule
  /\ form' = Loaded(TheForm, n, x, rules[n][x])
  /\ open' = TRUE
  /\ edited' = <<n, x>> /\ loaded' = rules[n][x] /\ own' = (<<n, x>> \in made)
  /\ UNCHANGED <<rules, nodes, made>>

\* A field, a box or a combo changes; `same' if it is still about that rule.
Touch(f, same) ==
  /\ Action /\ open /\ form # f
  /\ form' = f
  /\ edited' = IF same THEN edited ELSE <<>>
  /\ loaded' = NoRule /\ own' = FALSE
  /\ UNCHANGED <<rules, nodes, open, made>>

Clicked(boxes, field) == IF field \in boxes THEN boxes \ {field} ELSE boxes \cup {field}

Check(field) ==
  \/ Touch([form EXCEPT !.checked = Clicked(@, field)], TRUE)
  \/ /\ field \in Processes /\ field \in form.checked
     /\ Touch([form EXCEPT !.regexp = Clicked(@, field)], TRUE)

\* A box is checked and its field filled: no code runs between the two but
\* what enables the field.
Fill(field, w) ==
  Touch([form EXCEPT !.checked = @ \cup {field}, !.text[field] = Plain(w)], TRUE)

Choose ==
  \/ \E on \in BOOLEAN : \/ Touch([form EXCEPT !.enabled = on], TRUE)
                         \/ Touch([form EXCEPT !.sensitive = on], TRUE)
                         \/ Touch([form EXCEPT !.all = on], TRUE)
  \/ \E a \in Actions : Touch([form EXCEPT !.action = a], TRUE)
  \/ \E i \in DOMAIN form.durations : Touch([form EXCEPT !.duration = i], TRUE)
  \/ \E i \in DOMAIN form.nodeItems : Touch([form EXCEPT !.node = i], FALSE)
  \/ \E x \in TypedNames \cup {""} : Touch([form EXCEPT !.name = x], FALSE)

ResetForm == Touch(Cleared(form), FALSE)

\* The rule is stored under its name, as Rules::add() reads it.
Apply ==
  /\ Action /\ open /\ Accepted(form)
  /\ LET x == Reencoded[NameOf(form)]
     IN /\ rules' = [n \in Nodes |-> IF n \in Targets(form)
                                     THEN [rules[n] EXCEPT ![x] = Recoded(RuleOf(form))]
                                     ELSE rules[n]]
        /\ form' = [form EXCEPT !.name = NameOf(form)]
        /\ made' = made \cup (Targets(form) \X {x})
  /\ UNCHANGED <<nodes, open, editing>>

\* A warning, and nothing is stored.
ApplyRefused ==
  /\ Action /\ open /\ ~Accepted(form)
  /\ UNCHANGED <<rules, nodes, form, open, editing, made>>

Close ==
  /\ Action /\ open /\ open' = FALSE
  /\ UNCHANGED <<rules, nodes, form, editing, made>>

-----------------------------------------------------------------------------
Details == {{}, {"dest.ip", "dest.port", "user.id"}}

RuleFormNext ==
  \/ \E n \in Nodes, brought \in Foreign : OnSubscribed(n, brought[1], brought[2])
  \/ \E n \in Nodes, conn \in Connections, details \in Details,
        what \in DestinationItems :
       \E chosen \in Asked :
         PromptAnswered(n, conn, chosen, details, what, "allow", "always")
  \/ \E n \in Nodes, conn \in Connections, chosen \in DefaultTargets :
       DefaultTaken(n, conn, chosen, "allow", "always")
  \/ \E n \in Nodes, x \in Names : RemoveRule(n, x) \/ Edit(n, x)
  \/ New
  \/ /\ open
     /\ \/ \E field \in Checkable : Check(field) \/ \E w \in Typed[field] : Fill(field, w)
        \/ Choose
        \/ ResetForm
  \/ Apply \/ ApplyRefused \/ Close

RuleFormSpec == RuleFormInit /\ [][RuleFormNext]_ruleFormVars

-----------------------------------------------------------------------------
(* Properties.                                                             *)

\* Every rule the form stored is complete, whatever was edited before it: it
\* has a criterion, none is without its value, and a list is a directory.
FormRulesAreComplete ==
  \A slot \in made :
    LET r == rules[slot[1]][slot[2]]
    IN /\ r.criteria # <<>>
       /\ \A i \in DOMAIN r.criteria :
            LET c == r.criteria[i]
            IN c.data # Empty /\ (c.operand \in Lists => c.data.word \in Directories)

\* The state has its types, and the form's rules are complete.
RuleFormSafe == RuleFormTypeOK /\ FormRulesAreComplete

AsciiName(x) == Reencoded[x] = x

\* Applying the form of a rule opened for editing stores that rule, under its
\* name and for its node, and changes no other, whichever nodes and rules the
\* dialog showed before -- unless the box for all nodes is still checked, or the
\* name is not in ASCII: then the rule is stored beside the one opened.
EditChangesOneRule ==
  [][Apply /\ edited # <<>> /\ AsciiName(edited[2]) /\ ~form.all =>
       /\ rules'[edited[1]][edited[2]] = Recoded(RuleOf(form))
       /\ \A n \in Nodes, x \in Names :
            <<n, x>> # edited => rules'[n][x] = rules[n][x]]_ruleFormVars

Stored(slot) == rules'[slot[1]][slot[2]]

\* Case sensitivity is not read back (editRule() leaves its box alone).
CaseAside(r) ==
  [r EXCEPT !.sensitive = FALSE,
            !.criteria = [i \in DOMAIN @ |-> [@[i] EXCEPT !.sensitive = FALSE]]]

\* No text of the rule changes on its way through the form: all are in ASCII,
\* and in a list none has a backslash.
KeepsItsTexts(r) ==
  \A i \in DOMAIN r.criteria :
    r.criteria[i].data.word \notin NonAscii \cup IF r.list THEN Slashed ELSE {}

\* The rule being edited is stored again: with the box for all nodes checked
\* that takes a node there still is, and its name must be in ASCII.
Stores(slot) == Apply /\ slot[1] \in Targets(form) /\ AsciiName(slot[2])

\* A rule the form made, opened again and applied as it is, is stored as it
\* was, but for its case sensitivity, for letters outside ASCII, and for the
\* backslashes of a list.
ReopenedIsTheSame ==
  [][loaded # NoRule /\ Stores(edited) /\ own /\ KeepsItsTexts(loaded) =>
       CaseAside(Stored(edited)) = CaseAside(loaded)]_ruleFormVars

\* Opening any rule and applying the form as it is drops no criterion there is
\* a field for, so that the rule does not match more, and takes none over from
\* a rule edited before: the last criterion of each field is there with its
\* value and nothing else is, or the form is refused.
CriteriaKept ==
  [][loaded # NoRule /\ Stores(edited) =>
       LET kept == {i \in DOMAIN loaded.criteria :
                      LET Field(j) == FieldFor(loaded.criteria[j].operand)
                      IN Field(i) \in Fields /\ \A j \in DOMAIN loaded.criteria :
                                                  j > i => Field(j) # Field(i)}
       IN {<<c.operand, c.data.word>> : c \in ToSet(Stored(edited).criteria)} =
          {<<FieldFor(loaded.criteria[i].operand), loaded.criteria[i].data.word>> :
             i \in kept}]_ruleFormVars
=============================================================================
