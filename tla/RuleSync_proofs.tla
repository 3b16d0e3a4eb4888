--------------------------- MODULE RuleSync_proofs ---------------------------
(***************************************************************************)
(* Proofs about RuleSync, for every set of daemons, names and rules.       *)
(***************************************************************************)
EXTENDS RuleSync, TLAPS

\* What a daemon has once it has obeyed the notification being written to it.
Ahead(n) == IF outbox[n] = NoNote THEN daemon[n] ELSE Applied(daemon[n], outbox[n])

Queued(n) == \E i \in 1 .. Len(subscribes) : subscribes[i].node = n

\* A daemon that is gone has nothing under way.
SessionOf(n) == session[n] = "off" => outbox[n] = NoNote /\ answers[n] = {}

\* A request that waits names every rule that the daemon has, unless the rule was
\* overtaken, and nothing else about that rule is under way.
QueueOf(n) ==
  \A i \in 1 .. Len(subscribes) : subscribes[i].node = n =>
    \A x \in Names \ behind[n] :
      /\ x \notin UnderWay(n)
      /\ daemon[n][x] # NoRule => subscribes[i].rules[x] = daemon[n][x]

\* What a known daemon will have in the end is what memory has: the answer that
\* is on its way, or else what its notification makes of its rules.
Agreed(n, x) ==
  IF \E a \in answers[n] : a.name = x
  THEN /\ \A a \in answers[n] : a.name = x => a.rule = memory[n][x]
       /\ outbox[n] # NoNote => outbox[n].name # x
  ELSE Ahead(n)[x] # NoRule => Ahead(n)[x] = memory[n][x]

AgreedOf(n) ==
  n \in nodes /\ ~Queued(n) => \A x \in Names \ behind[n] : Agreed(n, x)

NodeInv(n) == SessionOf(n) /\ QueueOf(n) /\ AgreedOf(n)

OneRequest ==
  \A i, j \in 1 .. Len(subscribes) : subscribes[i].node = subscribes[j].node => i = j

IInv == TypeOK /\ OneRequest /\ \A n \in Nodes : NodeInv(n)
-----------------------------------------------------------------------------
(* What a notification makes of the rules of one node.                     *)

Rules == [Names -> Rule \cup {NoRule}]

LEMMA NoteIsNote ==
  /\ \A x \in Names, r \in Rule : ChangeRule(x, r) \in Note
  /\ \A x \in Names : DeleteRule(x) \in Note
  /\ \A x \in Names, on \in BOOLEAN : SwitchRule(x, on) \in Note
BY DEF ChangeRule, DeleteRule, SwitchRule, Note, NotificationTypes

LEMMA EnabledType ==
  ASSUME NEW r \in Rule, NEW on \in BOOLEAN
  PROVE  [r EXCEPT !.enabled = on] \in Rule
BY DEF Rule

LEMMA AppliedCases ==
  ASSUME NEW mine \in Rules, NEW note \in Note
  PROVE  \/ /\ note.type = "CHANGE_RULE"
            /\ ~Switches(note)
            /\ Applied(mine, note) = [mine EXCEPT ![note.name] = note.rule]
         \/ /\ note.type = "DELETE_RULE"
            /\ ~Switches(note)
            /\ Applied(mine, note) = [mine EXCEPT ![note.name] = NoRule]
         \/ /\ Switches(note)
            /\ mine[note.name] # NoRule
            /\ Applied(mine, note) =
                 [mine EXCEPT ![note.name].enabled = (note.type = "ENABLE_RULE")]
         \/ /\ Switches(note)
            /\ mine[note.name] = NoRule
            /\ Applied(mine, note) = mine
<1>1. CASE note.type = "CHANGE_RULE"
  BY <1>1 DEF Applied, Switches
<1>2. CASE note.type = "DELETE_RULE"
  BY <1>2 DEF Applied, Switches
<1>3. CASE Switches(note) /\ mine[note.name] # NoRule
  BY <1>3 DEF Applied, Switches
<1>4. CASE Switches(note) /\ mine[note.name] = NoRule
  BY <1>4 DEF Applied, Switches
<1> QED
  BY <1>1, <1>2, <1>3, <1>4 DEF Switches, Note, NotificationTypes

LEMMA AppliedEffect ==
  ASSUME NEW mine \in Rules, NEW note \in Note
  PROVE  /\ Applied(mine, note) \in Rules
         /\ \A x \in Names \ {note.name} : Applied(mine, note)[x] = mine[x]
         /\ note.type = "CHANGE_RULE" => Applied(mine, note)[note.name] = note.rule
         /\ note.type = "DELETE_RULE" => Applied(mine, note)[note.name] = NoRule
         /\ Switches(note) =>
              Applied(mine, note)[note.name] =
                IF mine[note.name] = NoRule THEN NoRule
                ELSE [mine[note.name] EXCEPT !.enabled = (note.type = "ENABLE_RULE")]
<1>0. /\ note.name \in Names /\ note.rule \in Rule \cup {NoRule}
      /\ (note.type = "ENABLE_RULE") \in BOOLEAN
      /\ note.type \in NotificationTypes
  BY DEF Note
<1>1. CASE ~Switches(note)
  BY <1>0, <1>1, AppliedCases DEF Rules, Switches, NotificationTypes
<1>2. CASE Switches(note) /\ mine[note.name] = NoRule
  BY <1>0, <1>2, AppliedCases DEF Rules, Switches
<1>3. CASE Switches(note) /\ mine[note.name] # NoRule
  <2> DEFINE r == [mine[note.name] EXCEPT !.enabled = (note.type = "ENABLE_RULE")]
  <2>1. r \in Rule
    BY <1>0, <1>3, EnabledType DEF Rules
  <2>2. Applied(mine, note) = [mine EXCEPT ![note.name] = r]
    BY <1>0, <1>3, AppliedCases
  <2> HIDE DEF r
  <2>3. Applied(mine, note)[note.name] = r /\ Applied(mine, note) \in Rules
        /\ \A x \in Names \ {note.name} : Applied(mine, note)[x] = mine[x]
    BY <1>0, <2>1, <2>2 DEF Rules
  <2> QED
    BY <1>3, <2>3 DEF r, Switches
<1> QED
  BY <1>1, <1>2, <1>3

LEMMA AppliedElsewhere ==
  ASSUME NEW mine \in Rules, NEW note \in Note, NEW x \in Names, x # note.name
  PROVE  Applied(mine, note)[x] = mine[x]
<1>1. \A y \in Names \ {note.name} : Applied(mine, note)[y] = mine[y]
  BY AppliedEffect
<1> QED
  BY <1>1

\* A notification leaves a rule the same on both sides when it was, and a change
\* or a removal makes it so.
LEMMA AppliedAgrees ==
  ASSUME NEW mine \in Rules, NEW theirs \in Rules, NEW note \in Note,
         Switches(note) /\ theirs[note.name] # NoRule =>
           theirs[note.name] = mine[note.name]
  PROVE  Applied(theirs, note)[note.name] # NoRule =>
           Applied(theirs, note)[note.name] = Applied(mine, note)[note.name]
<1> DEFINE Word(book, was) ==
             /\ note.type = "CHANGE_RULE" => book = note.rule
             /\ note.type = "DELETE_RULE" => book = NoRule
             /\ Switches(note) =>
                  book = IF was = NoRule THEN NoRule
                         ELSE [was EXCEPT !.enabled = (note.type = "ENABLE_RULE")]
<1>1. Word(Applied(mine, note)[note.name], mine[note.name])
  BY AppliedEffect
<1>2. Word(Applied(theirs, note)[note.name], theirs[note.name])
  BY AppliedEffect
<1>3. note.type \in NotificationTypes
  BY DEF Note
<1> QED
  BY <1>1, <1>2, <1>3 DEF Switches, NotificationTypes
-----------------------------------------------------------------------------
(* What the GUI thread tells daemons it does to memory and table as well.   *)

Told(book, targets, note) ==
  [n \in Nodes |-> IF n \in targets THEN Applied(book[n], note) ELSE book[n]]

Tell(targets, note) ==
  /\ memory' = Told(memory, targets, note)
  /\ table' = Told(table, targets, note)
  /\ Send(targets, note)

LEMMA ToldType ==
  ASSUME NEW book \in Book, NEW targets \in SUBSET Nodes, NEW note \in Note
  PROVE  Told(book, targets, note) \in Book
<1>1. \A n \in Nodes : book[n] \in Rules
  BY DEF Book, Rules
<1>2. \A n \in Nodes : Applied(book[n], note) \in Rules
  BY <1>1, AppliedEffect
<1>3. Told(book, targets, note) \in [Nodes -> Rules]
  BY <1>1, <1>2 DEF Told
<1> QED
  BY <1>3 DEF Book, Rules

LEMMA AddIsTold ==
  ASSUME NEW targets \in SUBSET Nodes, NEW x \in Names, NEW r \in Rule,
         Add(targets, x, r)
  PROVE  /\ memory' = Told(memory, targets, ChangeRule(x, r))
         /\ table' = Told(table, targets, ChangeRule(x, r))
<1>1. \A mine : Applied(mine, ChangeRule(x, r)) = [mine EXCEPT ![x] = r]
  BY DEF Applied, ChangeRule, Switches
<1> QED
  BY <1>1 DEF Add, Told

LEMMA RemoveIsTold ==
  ASSUME TypeOK, NEW n \in Nodes, NEW x \in Names, Remove(n, x)
  PROVE  /\ memory' = Told(memory, {n}, DeleteRule(x))
         /\ table' = Told(table, {n}, DeleteRule(x))
<1>1. \A mine : Applied(mine, DeleteRule(x)) = [mine EXCEPT ![x] = NoRule]
  BY DEF Applied, DeleteRule, Switches
<1>2. ASSUME NEW book \in Book
      PROVE  [book EXCEPT ![n][x] = NoRule] = Told(book, {n}, DeleteRule(x))
  BY <1>1 DEF Told, Book
<1> QED
  BY <1>2 DEF Remove, TypeOK

LEMMA SwitchedIsTold ==
  ASSUME NEW book \in Book, NEW n \in Nodes, NEW x \in Names, NEW on \in BOOLEAN
  PROVE  Switched(book, n, x, on) = Told(book, {n}, SwitchRule(x, on))
<1> DEFINE note == SwitchRule(x, on)
<1>1. /\ Switches(note) /\ note.name = x /\ note \in Note
      /\ (note.type = "ENABLE_RULE") = on
  BY NoteIsNote DEF SwitchRule, Switches
<1>2. book[n] \in Rules
  BY DEF Book, Rules
<1> HIDE DEF note
<1>3. CASE book[n][x] = NoRule
  <2>1. Applied(book[n], note) = book[n]
    BY <1>1, <1>2, <1>3, AppliedCases
  <2>2. Told(book, {n}, note) = book
    BY <2>1 DEF Told, Book
  <2> QED
    BY <1>3, <2>2 DEF Switched, note
<1>4. CASE book[n][x] # NoRule
  <2>1. Applied(book[n], note) = [book[n] EXCEPT ![x].enabled = on]
    <3>1. Applied(book[n], note) =
            [book[n] EXCEPT ![note.name].enabled = (note.type = "ENABLE_RULE")]
      BY <1>1, <1>2, <1>4, AppliedCases
    <3> QED
      BY <1>1, <3>1
  <2>2. Told(book, {n}, note) = [book EXCEPT ![n] = Applied(book[n], note)]
    BY DEF Told, Book
  <2>3. Switched(book, n, x, on) = [book EXCEPT ![n] = [book[n] EXCEPT ![x].enabled = on]]
    BY <1>4 DEF Switched
  <2> QED
    BY <2>1, <2>2, <2>3 DEF note
<1> QED
  BY <1>3, <1>4

LEMMA SetEnabledIsTold ==
  ASSUME TypeOK, NEW n \in Nodes, NEW x \in Names, NEW on \in BOOLEAN,
         SetEnabled(n, x, on)
  PROVE  /\ memory' = Told(memory, {n}, SwitchRule(x, on))
         /\ table' = Told(table, {n}, SwitchRule(x, on))
BY SwitchedIsTold DEF SetEnabled, TypeOK

LEMMA DnsRuleIsRule == DnsRule \in Rule /\ InternalName \in Names
BY NamesAssumption, ValuesAssumption DEF DnsRule, Rule

LEMMA WithDnsRuleIsTold ==
  ASSUME NEW mine, NEW n \in Nodes, MakesDnsRule(n)
  PROVE  WithDnsRule(mine, n) = Applied(mine, ChangeRule(InternalName, DnsRule))
BY DEF WithDnsRule, Applied, ChangeRule, Switches

\* sendNotification() changes the outboxes and nothing else of the daemons.
LEMMA SendType ==
  ASSUME TypeOK, NEW targets \in SUBSET Nodes, NEW note \in Note, Send(targets, note)
  PROVE  /\ outbox' \in [Nodes -> Note \cup {NoNote}]
         /\ behind' \in [Nodes -> SUBSET Names]
         /\ UNCHANGED <<session, answers, daemon>>
<1>1. note.name \in Names
  BY DEF Note
<1>2. \A n \in Nodes : Missed(n, note) \subseteq Names
  BY <1>1 DEF Missed, TypeOK
<1> QED
  BY <1>2 DEF Send, TypeOK
-----------------------------------------------------------------------------
\* What an action of the user comes to: nothing but the window's own state, or
\* one notification that memory, table and daemons all get.  The rows stay as
\* they are only where no rule goes away.
Deed ==
  \E targets \in SUBSET Nodes, note \in Note :
    /\ Tell(targets, note)
    /\ \/ RefreshRules
       \/ shown' = shown /\ note.type = "CHANGE_RULE" /\ note.rule # NoRule

LEMMA AddIsDeed ==
  ASSUME NEW targets \in SUBSET Nodes, NEW x \in Names, NEW r \in Rule,
         Add(targets, x, r), Send(targets, ChangeRule(x, r)), shown' = shown
  PROVE  Deed
<1>1. Tell(targets, ChangeRule(x, r))
  BY AddIsTold DEF Tell
<1>2. /\ ChangeRule(x, r) \in Note
      /\ ChangeRule(x, r).type = "CHANGE_RULE" /\ ChangeRule(x, r).rule # NoRule
  BY NoteIsNote, ValuesAssumption DEF ChangeRule
<1> QED
  BY <1>1, <1>2 DEF Deed

LEMMA TellIsDeed ==
  ASSUME NEW n \in Nodes, NEW note \in Note, Tell({n}, note), RefreshRules
  PROVE  Deed
<1>1. {n} \in SUBSET Nodes
  OBVIOUS
<1> USE DEF Deed
<1> WITNESS {n} \in SUBSET Nodes, note \in Note
<1> QED
  OBVIOUS

LEMMA UserTells ==
  ASSUME TypeOK, User
  PROVE  /\ UNCHANGED <<nodes, connected, dns, subscribes>>
         /\ picked' \in Pick \cup {NoPick}
         /\ events' \in 0 .. MaxEvents
         /\ UNCHANGED <<shown, books, wire>> \/ Deed
<1> USE DEF Free
<1>0. picked # NoPick => /\ picked.node \in Nodes /\ picked.name \in Names
                         /\ picked.active \in BOOLEAN /\ (~picked.active) \in BOOLEAN
                         /\ picked.targets \subseteq Nodes
                         /\ PickedRow \in Rule \cup {NoRule}
  <2>1. picked # NoPick => picked \in Pick
    BY DEF TypeOK
  <2>2. picked # NoPick => /\ picked.node \in Nodes /\ picked.name \in Names
                           /\ picked.active \in BOOLEAN /\ picked.targets \subseteq Nodes
    BY <2>1 DEF Pick
  <2>3. picked # NoPick => picked.active = TRUE \/ picked.active = FALSE
    BY <2>2
  <2>4. picked # NoPick => PickedRow \in Rule \cup {NoRule}
    BY <2>2 DEF PickedRow, TypeOK, Book
  <2> QED
    BY <2>2, <2>3, <2>4
<1>1. Used => events' \in 0 .. MaxEvents
  BY BoundsAssumption DEF Used, TypeOK
<1>2. Chosen => /\ picked # NoPick /\ picked' = NoPick
                /\ UNCHANGED <<nodes, connected, dns, subscribes>>
  BY DEF Chosen
<1>3. ASSUME NEW n \in Nodes, NEW x \in UserNames, PickRow(n, x)
      PROVE  /\ picked' \in Pick
             /\ UNCHANGED <<shown, books, wire, nodes, connected, dns, subscribes, events>>
  <2>1. (shown[n][x] = "True") \in BOOLEAN
    OBVIOUS
  <2>2. x \in Names
    BY DEF UserNames
  <2> QED
    BY <1>3, <2>1, <2>2 DEF PickRow, Pick, TypeOK
<1>4. ASSUME NEW n \in Nodes, NEW x \in UserNames, ToggleRule(n, x)
      PROVE  /\ UNCHANGED <<picked, nodes, connected, dns, subscribes>>
             /\ Used /\ Deed
  <2>1. PICK on : /\ on = ~memory[n][x].enabled
                  /\ Send({n}, SwitchRule(x, on)) /\ SetEnabled(n, x, on)
    BY <1>4 DEF ToggleRule
  <2>2. memory[n][x].enabled \in BOOLEAN /\ x \in Names
    BY <1>4 DEF ToggleRule, TypeOK, Book, Rule, UserNames
  <2>3. on \in BOOLEAN
    BY <2>1, <2>2
  <2>4. Tell({n}, SwitchRule(x, on)) /\ SwitchRule(x, on) \in Note
    BY <2>1, <2>2, <2>3, SetEnabledIsTold, NoteIsNote DEF Tell
  <2> QED
    BY <1>4, <2>4, TellIsDeed DEF ToggleRule
<1>5. CASE Cancel
  BY <1>2, <1>5 DEF Cancel, TypeOK
<1>6. CASE MenuDelete
  <2>1. /\ Tell({picked.node}, DeleteRule(picked.name)) /\ DeleteRule(picked.name) \in Note
        /\ picked.node \in Nodes
    BY <1>0, <1>2, <1>6, RemoveIsTold, NoteIsNote DEF MenuDelete, Tell
  <2>2. Deed
    BY <1>6, <2>1, TellIsDeed DEF MenuDelete
  <2> QED
    BY <1>1, <1>2, <1>6, <2>2 DEF MenuDelete
<1>7. CASE MenuEnable
  <2>1. /\ Tell({picked.node}, SwitchRule(picked.name, ~picked.active))
        /\ SwitchRule(picked.name, ~picked.active) \in Note
        /\ picked.node \in Nodes
    BY <1>0, <1>2, <1>7, SetEnabledIsTold, NoteIsNote DEF MenuEnable, Tell
  <2>2. Deed
    BY <1>7, <2>1, TellIsDeed DEF MenuEnable
  <2> QED
    BY <1>1, <1>2, <1>7, <2>2 DEF MenuEnable
<1>8. ASSUME NEW r, MenuChange(r), PickedRow \in Rule => r \in Rule
      PROVE  Chosen /\ Used /\ Deed
  <2>1. /\ r \in Rule /\ picked.node \in Nodes /\ picked.name \in Names
        /\ Add({picked.node}, picked.name, r)
        /\ Send({picked.node}, ChangeRule(picked.name, r)) /\ shown' = shown
    BY <1>0, <1>2, <1>8 DEF MenuChange
  <2> QED
    BY <1>8, <2>1, AddIsDeed DEF MenuChange
<1>9. ASSUME NEW a \in Actions, PickedRow \in Rule
      PROVE  [PickedRow EXCEPT !.action = a] \in Rule
  BY <1>9 DEF Rule
<1>10. ASSUME NEW d \in Durations, PickedRow \in Rule
       PROVE  [PickedRow EXCEPT !.duration = d] \in Rule
  BY <1>10 DEF Rule
<1>11. ASSUME NEW dst \in Nodes, MenuApplyTo(dst)
       PROVE  Chosen /\ Used /\ Deed
  <2>1. /\ PickedRow \in Rule /\ picked.name \in Names
        /\ Add({dst}, picked.name, PickedRow)
        /\ Send({dst}, ChangeRule(picked.name, PickedRow)) /\ shown' = shown
    BY <1>0, <1>2, <1>11 DEF MenuApplyTo
  <2> QED
    BY <1>11, <2>1, AddIsDeed DEF MenuApplyTo
<1>12. CASE MenuDuplicate
  <2>1. PICK c \in Names : /\ Add({picked.node}, c, PickedRow)
                           /\ Send({picked.node}, ChangeRule(c, PickedRow))
    BY <1>12 DEF MenuDuplicate
  <2>2. /\ PickedRow \in Rule /\ picked.node \in Nodes
        /\ Chosen /\ Used /\ shown' = shown
    BY <1>0, <1>2, <1>12 DEF MenuDuplicate
  <2>3. Deed
    BY <2>1, <2>2, AddIsDeed
  <2> QED
    BY <1>1, <1>2, <2>2, <2>3
<1>13. ASSUME NEW targets \in {{n} : n \in Nodes} \cup {nodes}, NEW x \in UserNames,
              NEW r \in Entered, DialogApply(targets, x, r)
       PROVE  Used /\ Deed /\ UNCHANGED gui
  <2>1. targets \in SUBSET Nodes /\ x \in Names /\ r \in Rule
    <3>1. nodes \subseteq Nodes
      BY DEF TypeOK
    <3>2. targets \in SUBSET Nodes
      BY <3>1
    <3> QED
      BY <3>2, ValuesAssumption DEF UserNames
  <2> QED
    BY <1>13, <2>1, AddIsDeed DEF DialogApply, gui
<1> QED
  <2>1. ASSUME NEW n \in Nodes, NEW x \in UserNames, PickRow(n, x) \/ ToggleRule(n, x)
        PROVE  /\ UNCHANGED <<nodes, connected, dns, subscribes>>
               /\ picked' \in Pick \cup {NoPick}
               /\ events' \in 0 .. MaxEvents
               /\ UNCHANGED <<shown, books, wire>> \/ Deed
    BY <1>1, <1>3, <1>4, <2>1 DEF TypeOK
  <2>2. ASSUME Chosen, Used, Deed
        PROVE  /\ UNCHANGED <<nodes, connected, dns, subscribes>>
               /\ picked' \in Pick \cup {NoPick}
               /\ events' \in 0 .. MaxEvents
               /\ UNCHANGED <<shown, books, wire>> \/ Deed
    BY <1>1, <1>2, <2>2
  <2>3. ASSUME Used, Deed, UNCHANGED gui
        PROVE  /\ UNCHANGED <<nodes, connected, dns, subscribes>>
               /\ picked' \in Pick \cup {NoPick}
               /\ events' \in 0 .. MaxEvents
               /\ UNCHANGED <<shown, books, wire>> \/ Deed
    BY <1>1, <2>3 DEF gui, TypeOK
  <2> QED
    BY <1>5, <1>6, <1>7, <1>8, <1>9, <1>10, <1>11, <1>12, <1>13, <2>1, <2>2, <2>3 DEF User
-----------------------------------------------------------------------------
\* The rows of the rules tab are made from any book.
LEMMA RowsOfType ==
  ASSUME NEW book
  PROVE  RowsOf(book) \in [Nodes -> [Names -> {"none", "True", "False"}]]
BY DEF RowsOf

LEMMA DeedType ==
  ASSUME TypeOK, Deed
  PROVE  /\ memory' \in Book /\ table' \in Book
         /\ shown' \in [Nodes -> [Names -> {"none", "True", "False"}]]
         /\ outbox' \in [Nodes -> Note \cup {NoNote}]
         /\ behind' \in [Nodes -> SUBSET Names]
         /\ UNCHANGED <<session, answers, daemon>>
<1>1. PICK targets \in SUBSET Nodes, note \in Note :
        /\ Tell(targets, note)
        /\ RefreshRules \/ shown' = shown
  BY Zenon DEF Deed
<1>2. memory \in Book /\ table \in Book
  BY DEF TypeOK
<1>3. memory' \in Book /\ table' \in Book
  BY <1>1, <1>2, ToldType DEF Tell
<1>4. shown' \in [Nodes -> [Names -> {"none", "True", "False"}]]
  BY <1>1, RowsOfType DEF RefreshRules, TypeOK
<1> QED
  BY <1>1, <1>3, <1>4, SendType DEF Tell

LEMMA HeadType ==
  ASSUME NEW S, NEW q \in Seq(S), q # <<>>
  PROVE  Head(q) \in S /\ Tail(q) \in Seq(S)
OBVIOUS

\* The answer to a Subscribe request, with or without the rule for the resolver.
LEMMA OnSubscribedEffect ==
  ASSUME TypeOK, OnSubscribed, NEW n, n = Head(subscribes).node,
         NEW theirs, theirs = Head(subscribes).rules
  PROVE  /\ n \in Nodes /\ theirs \in Rules
         /\ nodes' = nodes \cup {n}
         /\ connected' = TRUE /\ RefreshRules
         /\ subscribes' = Tail(subscribes)
         /\ \/ /\ ~MakesDnsRule(n) /\ UNCHANGED <<dns, wire>>
               /\ memory' = [memory EXCEPT ![n] = Merged(@, theirs)]
               /\ table' = [table EXCEPT ![n] = Merged(@, theirs)]
            \/ /\ MakesDnsRule(n) /\ dns' = {n}
               /\ Send({n}, ChangeRule(InternalName, DnsRule))
               /\ memory' = [memory EXCEPT ![n] = [Merged(@, theirs) EXCEPT ![InternalName] = DnsRule]]
               /\ table' = [table EXCEPT ![n] = [Merged(@, theirs) EXCEPT ![InternalName] = DnsRule]]
<1>1. Head(subscribes) \in [node: Nodes, rules: [Names -> Rule \cup {NoRule}]]
  <2>1. subscribes # <<>>
    BY DEF OnSubscribed
  <2>2. subscribes \in Seq([node: Nodes, rules: [Names -> Rule \cup {NoRule}]])
    BY DEF TypeOK
  <2> QED
    BY <2>1, <2>2, HeadType
<1>2. n \in Nodes /\ theirs \in Rules
  BY <1>1 DEF Rules
<1>3. /\ nodes' = nodes \cup {n}
      /\ connected' = TRUE /\ RefreshRules
      /\ subscribes' = Tail(subscribes)
      /\ memory' = [memory EXCEPT ![n] = WithDnsRule(Merged(@, theirs), n)]
      /\ table' = [table EXCEPT ![n] = WithDnsRule(Merged(@, theirs), n)]
      /\ MakeDnsRule(n)
  BY DEF OnSubscribed
<1> QED
  BY <1>2, <1>3 DEF WithDnsRule, MakeDnsRule

LEMMA MergedType ==
  ASSUME NEW mine \in Rules, NEW theirs \in Rules
  PROVE  Merged(mine, theirs) \in Rules
BY DEF Merged, Rules

LEMMA OnStatsUpdatedEffect ==
  ASSUME TypeOK, NEW m \in Nodes, NEW refresh \in BOOLEAN, OnStatsUpdated(m, refresh)
  PROVE  /\ UNCHANGED <<picked, nodes, connected, subscribes, events>>
         /\ RefreshRules \/ shown' = shown
         /\ \/ UNCHANGED <<books, dns, wire>>
            \/ \E n \in Nodes :
                 /\ dns' = {n}
                 /\ Tell({n}, ChangeRule(InternalName, DnsRule))
<1>1. /\ UNCHANGED <<picked, nodes, connected, subscribes, events>>
      /\ RefreshRules \/ shown' = shown
      /\ RetryDnsRule
  BY DEF OnStatsUpdated
<1>2. CASE ~(dns = {} /\ connected /\ nodes # {})
  BY <1>1, <1>2 DEF RetryDnsRule
<1>3. CASE dns = {} /\ connected /\ nodes # {}
  <2>1. PICK n \in nodes :
          /\ memory' = [memory EXCEPT ![n] = WithDnsRule(@, n)]
          /\ table' = [table EXCEPT ![n] = WithDnsRule(@, n)]
          /\ MakeDnsRule(n)
    BY <1>1, <1>3 DEF RetryDnsRule
  <2>2. n \in Nodes /\ memory \in Book /\ table \in Book
    BY DEF TypeOK
  <2>3. CASE MakesDnsRule(n)
    <3>1. /\ memory' = [memory EXCEPT ![n] = Applied(@, ChangeRule(InternalName, DnsRule))]
          /\ table' = [table EXCEPT ![n] = Applied(@, ChangeRule(InternalName, DnsRule))]
      <4>1. /\ WithDnsRule(memory[n], n) = Applied(memory[n], ChangeRule(InternalName, DnsRule))
            /\ WithDnsRule(table[n], n) = Applied(table[n], ChangeRule(InternalName, DnsRule))
        BY <2>2, <2>3, WithDnsRuleIsTold
      <4> QED
        BY <2>1, <4>1
    <3>2. dns' = {n} /\ Send({n}, ChangeRule(InternalName, DnsRule))
      BY <2>1, <2>3 DEF MakeDnsRule
    <3>3. Tell({n}, ChangeRule(InternalName, DnsRule))
      BY <2>2, <3>1, <3>2 DEF Tell, Told, Book
    <3> QED
      BY <1>1, <2>2, <3>2, <3>3
  <2>4. CASE ~MakesDnsRule(n)
    <3>1. UNCHANGED <<memory, table>>
      BY <2>1, <2>2, <2>4 DEF WithDnsRule, Book
    <3> QED
      BY <1>1, <2>1, <2>4, <3>1 DEF MakeDnsRule, books
  <2> QED
    BY <2>3, <2>4
<1> QED
  BY <1>2, <1>3
-----------------------------------------------------------------------------
\* The first state, with a rule of an earlier session or without.
LEMMA InitType ==
  ASSUME Init
  PROVE  TypeOK
<1>1. Nowhere \in Book
  BY DEF Nowhere, None, Book
<1>2. \A n \in Nodes, x \in Names, r \in Rule : [Nowhere EXCEPT ![n][x] = r] \in Book
  BY DEF Nowhere, None, Book
<1>3. PICK n \in Nodes, x \in UserNames, r \in Entered, atDaemon, inTable \in BOOLEAN :
        /\ daemon = IF atDaemon THEN [Nowhere EXCEPT ![n][x] = r] ELSE Nowhere
        /\ table = IF inTable THEN [Nowhere EXCEPT ![n][x] = r] ELSE Nowhere
  BY DEF Init
<1>4. x \in Names /\ r \in Rule
  BY ValuesAssumption DEF UserNames
<1>5. memory \in Book /\ table \in Book /\ daemon \in Book
  BY <1>1, <1>2, <1>3, <1>4 DEF Init
<1>6. /\ shown \in [Nodes -> [Names -> {"none", "True", "False"}]]
      /\ picked \in Pick \cup {NoPick}
      /\ nodes \subseteq Nodes /\ connected \in BOOLEAN /\ dns \subseteq Nodes
  BY DEF Init
<1>7. subscribes \in Seq([node: Nodes, rules: [Names -> Rule \cup {NoRule}]])
  BY DEF Init
<1>8. /\ session \in [Nodes -> {"off", "subscribed", "open"}]
      /\ outbox \in [Nodes -> Note \cup {NoNote}]
      /\ answers \in [Nodes -> SUBSET [name: Names, rule: Rule]]
      /\ behind \in [Nodes -> SUBSET Names]
      /\ events \in 0 .. MaxEvents
  BY BoundsAssumption DEF Init
<1> QED
  BY <1>5, <1>6, <1>7, <1>8 DEF TypeOK

\* Every handler and every step of a daemon keeps the ranges of the variables.
THEOREM TypeCorrect == Spec => []TypeOK
<1>1. Init => TypeOK
  BY InitType
<1>2. TypeOK /\ [Next]_vars => TypeOK'
  <2> SUFFICES ASSUME TypeOK, [Next]_vars PROVE TypeOK'
    OBVIOUS
  <2> USE DEF gui, wire, books
  <2>0. Used => events' \in 0 .. MaxEvents
    BY BoundsAssumption DEF Used, TypeOK
  <2>1. ASSUME NEW n \in Nodes, Subscribe(n) PROVE TypeOK'
    <3>1. [node |-> n, rules |-> daemon[n]] \in [node: Nodes, rules: [Names -> Rule \cup {NoRule}]]
      BY DEF TypeOK, Book
    <3>2. subscribes' \in Seq([node: Nodes, rules: [Names -> Rule \cup {NoRule}]])
      BY <2>1, <3>1 DEF Subscribe, TypeOK
    <3>3. \A a \in answers[n] : a.name \in Names
      BY DEF TypeOK
    <3>4. behind' \in [Nodes -> SUBSET Names]
      BY <2>1, <3>3 DEF Subscribe, TypeOK
    <3> QED
      BY <2>1, <3>2, <3>4 DEF Subscribe, TypeOK
  <2>2. ASSUME NEW n \in Nodes, OpenStream(n) PROVE TypeOK'
    BY <2>2 DEF OpenStream, TypeOK
  <2>3. ASSUME NEW n \in Nodes, ApplyNote(n) PROVE TypeOK'
    <3>1. daemon[n] \in Rules /\ outbox[n] \in Note
      BY <2>3 DEF ApplyNote, TypeOK, Book, Rules
    <3>2. daemon' \in Book
      BY <2>3, <3>1, AppliedEffect DEF ApplyNote, TypeOK, Book, Rules
    <3> QED
      BY <2>3, <3>2 DEF ApplyNote, TypeOK
  <2>4. ASSUME NEW n \in Nodes, NEW a \in answers[n], AdoptAnswer(n, a) PROVE TypeOK'
    <3>1. a \in [name: Names, rule: Rule]
      BY DEF TypeOK
    <3>2. daemon' \in Book
      BY <2>4, <3>1 DEF AdoptAnswer, TypeOK, Book
    <3>3. answers' \in [Nodes -> SUBSET [name: Names, rule: Rule]]
      BY <2>4 DEF AdoptAnswer, TypeOK
    <3> QED
      BY <2>4, <3>2, <3>3 DEF AdoptAnswer, TypeOK
  <2>5. ASSUME NEW n \in Nodes, NEW a \in answers[n], LoseAnswer(n, a) PROVE TypeOK'
    <3>1. a.name \in Names
      BY DEF TypeOK
    <3>2. /\ answers' \in [Nodes -> SUBSET [name: Names, rule: Rule]]
          /\ behind' \in [Nodes -> SUBSET Names]
      BY <2>5, <3>1 DEF LoseAnswer, TypeOK
    <3> QED
      BY <2>0, <2>5, <3>2 DEF LoseAnswer, TypeOK
  <2>6. ASSUME NEW n \in Nodes, NEW restarts \in BOOLEAN, Disconnect(n, restarts) PROVE TypeOK'
    <3>1. UnderWay(n) \subseteq Names
      BY DEF UnderWay, TypeOK, Note
    <3>2. behind' \in [Nodes -> SUBSET Names]
      BY <2>6, <3>1 DEF Disconnect, TypeOK
    <3>3. daemon' \in Book
      BY <2>6 DEF Disconnect, TypeOK, Book
    <3> QED
      BY <2>0, <2>6, <3>2, <3>3 DEF Disconnect, TypeOK
  <2>7. CASE User
    <3>1. /\ UNCHANGED <<nodes, connected, dns, subscribes>>
          /\ picked' \in Pick \cup {NoPick}
          /\ events' \in 0 .. MaxEvents
          /\ UNCHANGED <<shown, books, wire>> \/ Deed
      BY <2>7, UserTells
    <3>2. /\ memory' \in Book /\ table' \in Book /\ daemon' \in Book
          /\ shown' \in [Nodes -> [Names -> {"none", "True", "False"}]]
          /\ session' \in [Nodes -> {"off", "subscribed", "open"}]
          /\ outbox' \in [Nodes -> Note \cup {NoNote}]
          /\ answers' \in [Nodes -> SUBSET [name: Names, rule: Rule]]
          /\ behind' \in [Nodes -> SUBSET Names]
      <4>1. CASE UNCHANGED <<shown, books, wire>>
        BY <4>1 DEF TypeOK
      <4>2. CASE Deed
        BY <4>2, DeedType DEF TypeOK
      <4> QED
        BY <3>1, <4>1, <4>2
    <3> QED
      BY <3>1, <3>2 DEF TypeOK
  <2>8. CASE OnSubscribed
    <3> DEFINE n == Head(subscribes).node
               theirs == Head(subscribes).rules
    <3>1. /\ n \in Nodes /\ theirs \in Rules
          /\ nodes' = nodes \cup {n}
          /\ connected' = TRUE /\ RefreshRules
          /\ subscribes' = Tail(subscribes)
          /\ UNCHANGED <<picked, events>>
          /\ \/ /\ ~MakesDnsRule(n) /\ UNCHANGED <<dns, wire>>
                /\ memory' = [memory EXCEPT ![n] = Merged(@, theirs)]
                /\ table' = [table EXCEPT ![n] = Merged(@, theirs)]
             \/ /\ MakesDnsRule(n) /\ dns' = {n}
                /\ Send({n}, ChangeRule(InternalName, DnsRule))
                /\ memory' = [memory EXCEPT ![n] = [Merged(@, theirs) EXCEPT ![InternalName] = DnsRule]]
                /\ table' = [table EXCEPT ![n] = [Merged(@, theirs) EXCEPT ![InternalName] = DnsRule]]
      <4>1. UNCHANGED <<picked, events>>
        BY <2>8 DEF OnSubscribed
      <4> QED
        BY <2>8, <4>1, OnSubscribedEffect
    <3> HIDE DEF n, theirs
    <3>2. Merged(memory[n], theirs) \in Rules /\ Merged(table[n], theirs) \in Rules
      BY <3>1, MergedType DEF TypeOK, Book, Rules
    <3>3. memory' \in Book /\ table' \in Book
      <4>1. \A mine \in Rules : [mine EXCEPT ![InternalName] = DnsRule] \in Rules
        BY DnsRuleIsRule DEF Rules
      <4>2. \E mine, row \in Rules : /\ memory' = [memory EXCEPT ![n] = mine]
                                     /\ table' = [table EXCEPT ![n] = row]
        BY <3>1, <3>2, <4>1
      <4> QED
        BY <3>1, <4>2 DEF TypeOK, Book, Rules
    <3>4. /\ outbox' \in [Nodes -> Note \cup {NoNote}]
          /\ behind' \in [Nodes -> SUBSET Names]
          /\ UNCHANGED <<session, answers, daemon>>
          /\ dns' \subseteq Nodes
      <4>1. CASE UNCHANGED <<dns, wire>>
        BY <4>1 DEF TypeOK
      <4>2. CASE dns' = {n} /\ Send({n}, ChangeRule(InternalName, DnsRule))
        <5>1. {n} \in SUBSET Nodes /\ ChangeRule(InternalName, DnsRule) \in Note
          BY <3>1, NoteIsNote, DnsRuleIsRule
        <5> QED
          BY <3>1, <4>2, <5>1, SendType
      <4> QED
        BY <3>1, <4>1, <4>2
    <3>5. shown' \in [Nodes -> [Names -> {"none", "True", "False"}]]
      BY <3>1, RowsOfType DEF RefreshRules
    <3>6. subscribes' \in Seq([node: Nodes, rules: [Names -> Rule \cup {NoRule}]])
      <4>1. subscribes # <<>>
        BY <2>8 DEF OnSubscribed
      <4>2. subscribes \in Seq([node: Nodes, rules: [Names -> Rule \cup {NoRule}]])
        BY DEF TypeOK
      <4> QED
        BY <3>1, <4>1, <4>2
    <3>7. connected' \in BOOLEAN /\ nodes' \subseteq Nodes
      BY <3>1 DEF TypeOK
    <3> QED
      BY <3>1, <3>3, <3>4, <3>5, <3>6, <3>7 DEF TypeOK
  <2>9. ASSUME NEW n \in Nodes, NEW refresh \in BOOLEAN, OnStatsUpdated(n, refresh) PROVE TypeOK'
    <3>1. /\ UNCHANGED <<picked, nodes, connected, subscribes, events>>
          /\ RefreshRules \/ shown' = shown
          /\ \/ UNCHANGED <<books, dns, wire>>
             \/ \E m \in Nodes :
                  /\ dns' = {m}
                  /\ Tell({m}, ChangeRule(InternalName, DnsRule))
      BY <2>9, OnStatsUpdatedEffect
    <3>2. shown' \in [Nodes -> [Names -> {"none", "True", "False"}]]
      BY <3>1, RowsOfType DEF RefreshRules, TypeOK
    <3>3. CASE UNCHANGED <<books, dns, wire>>
      BY <3>1, <3>2, <3>3 DEF TypeOK
    <3>4. CASE \E m \in Nodes : /\ dns' = {m}
                                /\ Tell({m}, ChangeRule(InternalName, DnsRule))
      <4>1. PICK m \in Nodes : /\ dns' = {m}
                               /\ Tell({m}, ChangeRule(InternalName, DnsRule))
        BY <3>4
      <4>2. /\ {m} \in SUBSET Nodes /\ ChangeRule(InternalName, DnsRule) \in Note
            /\ memory \in Book /\ table \in Book
        BY NoteIsNote, DnsRuleIsRule DEF TypeOK
      <4>3. memory' \in Book /\ table' \in Book
        BY <4>1, <4>2, ToldType DEF Tell
      <4>4. /\ outbox' \in [Nodes -> Note \cup {NoNote}]
            /\ behind' \in [Nodes -> SUBSET Names]
            /\ UNCHANGED <<session, answers, daemon>>
        BY <4>1, <4>2, SendType DEF Tell
      <4> QED
        BY <3>1, <3>2, <4>1, <4>2, <4>3, <4>4 DEF TypeOK
    <3> QED
      BY <3>1, <3>3, <3>4
  <2>10. ASSUME NEW n \in Nodes, NEW x \in UserNames, NEW r \in Entered, Answer(n, x, r)
         PROVE TypeOK'
    <3>1. x \in Names /\ r \in Rule /\ {n} \in SUBSET Nodes
      BY ValuesAssumption DEF UserNames
    <3>2. memory' \in Book /\ table' \in Book
      <4>1. ChangeRule(x, r) \in Note /\ memory \in Book /\ table \in Book
        BY <3>1, NoteIsNote DEF TypeOK
      <4> QED
        BY <2>10, <3>1, <4>1, AddIsTold, ToldType DEF Answer
    <3>3. /\ answers' \in [Nodes -> SUBSET [name: Names, rule: Rule]]
          /\ behind' \in [Nodes -> SUBSET Names]
      BY <2>10, <3>1 DEF Answer, TypeOK
    <3> QED
      BY <2>0, <2>10, <3>2, <3>3 DEF Answer, TypeOK
  <2>11. CASE UNCHANGED vars
    BY <2>11 DEF vars, TypeOK
  <2> QED
    BY <2>1, <2>2, <2>3, <2>4, <2>5, <2>6, <2>7, <2>8, <2>9, <2>10, <2>11 DEF Next, Daemons
<1> QED
  BY <1>1, <1>2, PTL DEF Spec
-----------------------------------------------------------------------------
\* What both books are told, both have: memory and table stay the same, and rows
\* that are not made again keep a rule to show.
LEMMA TellKeepsBooks ==
  ASSUME TypeOK, NEW targets \in SUBSET Nodes, NEW note \in Note, Tell(targets, note)
  PROVE  /\ MemoryIsTable => MemoryIsTable'
         /\ note.type = "CHANGE_RULE" /\ note.rule # NoRule =>
              \A n \in Nodes, x \in Names : memory[n][x] # NoRule => memory'[n][x] # NoRule
<1> SUFFICES ASSUME NEW n \in Nodes, NEW x \in Names
             PROVE  /\ MemoryIsTable /\ memory'[n][x] # NoRule => table'[n][x] = memory'[n][x]
                    /\ note.type = "CHANGE_RULE" /\ note.rule # NoRule =>
                         (memory[n][x] # NoRule => memory'[n][x] # NoRule)
  BY DEF MemoryIsTable
<1>1. memory[n] \in Rules /\ table[n] \in Rules
  BY DEF TypeOK, Book, Rules
<1>2. /\ memory'[n] = IF n \in targets THEN Applied(memory[n], note) ELSE memory[n]
      /\ table'[n] = IF n \in targets THEN Applied(table[n], note) ELSE table[n]
  BY DEF Tell, Told
<1>3. CASE n \notin targets
  BY <1>2, <1>3 DEF MemoryIsTable
<1>4. CASE n \in targets /\ x # note.name
  <2>1. Applied(memory[n], note)[x] = memory[n][x] /\ Applied(table[n], note)[x] = table[n][x]
    BY <1>1, <1>4, AppliedElsewhere
  <2> QED
    BY <1>2, <1>4, <2>1 DEF MemoryIsTable
<1>5. CASE n \in targets /\ x = note.name
  <2>1. MemoryIsTable => (memory[n][x] # NoRule => memory[n][x] = table[n][x])
    BY DEF MemoryIsTable
  <2>2. MemoryIsTable /\ Applied(memory[n], note)[x] # NoRule =>
          Applied(memory[n], note)[x] = Applied(table[n], note)[x]
    BY <1>1, <1>5, <2>1, AppliedAgrees
  <2>3. note.type = "CHANGE_RULE" => Applied(memory[n], note)[x] = note.rule
    BY <1>1, <1>5, AppliedEffect
  <2> QED
    BY <1>2, <1>5, <2>2, <2>3
<1> QED
  BY <1>3, <1>4, <1>5

\* Fresh rows show what memory has.
LEMMA RefreshedRows ==
  ASSUME RefreshRules
  PROVE  RowsAreRules'
BY DEF RefreshRules, RowsOf, RowsAreRules

\* A record in memory has its row in the table, the same, and a row of the rules
\* tab its record, whichever handlers ran in whichever order.
THEOREM BooksSafe == Spec => []Safe
<1> DEFINE Inv == MemoryIsTable /\ RowsAreRules
<1>1. Init => Inv
  BY DEF Init, Nowhere, None, MemoryIsTable, RowsAreRules
<1>2. Inv /\ TypeOK /\ TypeOK' /\ [Next]_vars => Inv'
  <2> SUFFICES ASSUME Inv, TypeOK, TypeOK', [Next]_vars PROVE Inv'
    OBVIOUS
  <2> USE DEF gui, wire, books
  <2>1. ASSUME UNCHANGED <<memory, table, shown>> PROVE Inv'
    BY <2>1 DEF MemoryIsTable, RowsAreRules
  <2>2. CASE Daemons
    BY <2>1, <2>2 DEF Daemons, Subscribe, OpenStream, ApplyNote, AdoptAnswer, LoseAnswer, Disconnect
  <2>3. CASE User
    <3>1. UNCHANGED <<shown, books, wire>> \/ Deed
      BY <2>3, UserTells
    <3>2. CASE Deed
      <4>1. PICK targets \in SUBSET Nodes, note \in Note :
              /\ Tell(targets, note)
              /\ \/ RefreshRules
                 \/ shown' = shown /\ note.type = "CHANGE_RULE" /\ note.rule # NoRule
        BY <3>2, Zenon DEF Deed
      <4>2. MemoryIsTable'
        BY <4>1, TellKeepsBooks
      <4>3. RowsAreRules'
        <5>1. CASE RefreshRules
          BY <5>1, RefreshedRows
        <5>2. CASE shown' = shown /\ note.type = "CHANGE_RULE" /\ note.rule # NoRule
          BY <4>1, <5>2, TellKeepsBooks DEF RowsAreRules
        <5> QED
          BY <4>1, <5>1, <5>2
      <4> QED
        BY <4>2, <4>3
    <3> QED
      BY <2>1, <3>1, <3>2
  <2>4. CASE OnSubscribed
    <3> DEFINE n == Head(subscribes).node
               theirs == Head(subscribes).rules
    <3>1. /\ n \in Nodes /\ theirs \in Rules
          /\ RefreshRules
          /\ \/ /\ memory' = [memory EXCEPT ![n] = Merged(@, theirs)]
                /\ table' = [table EXCEPT ![n] = Merged(@, theirs)]
             \/ /\ memory' = [memory EXCEPT ![n] = [Merged(@, theirs) EXCEPT ![InternalName] = DnsRule]]
                /\ table' = [table EXCEPT ![n] = [Merged(@, theirs) EXCEPT ![InternalName] = DnsRule]]
      BY <2>4, OnSubscribedEffect
    <3> HIDE DEF n, theirs
    <3>2. /\ \A x \in Names : Merged(memory[n], theirs)[x] # NoRule =>
                Merged(table[n], theirs)[x] = Merged(memory[n], theirs)[x]
          /\ Merged(memory[n], theirs) \in Rules /\ Merged(table[n], theirs) \in Rules
      BY <3>1, MergedType DEF Merged, MemoryIsTable, TypeOK, Book, Rules
    <3>3. PICK mine, row \in Rules :
            /\ memory' = [memory EXCEPT ![n] = mine] /\ table' = [table EXCEPT ![n] = row]
            /\ \A x \in Names : mine[x] # NoRule => row[x] = mine[x]
      <4>1. CASE /\ memory' = [memory EXCEPT ![n] = Merged(@, theirs)]
                 /\ table' = [table EXCEPT ![n] = Merged(@, theirs)]
        BY <3>2, <4>1
      <4>2. CASE /\ memory' = [memory EXCEPT ![n] = [Merged(@, theirs) EXCEPT ![InternalName] = DnsRule]]
                 /\ table' = [table EXCEPT ![n] = [Merged(@, theirs) EXCEPT ![InternalName] = DnsRule]]
        <5> DEFINE mine == [Merged(memory[n], theirs) EXCEPT ![InternalName] = DnsRule]
                   row == [Merged(table[n], theirs) EXCEPT ![InternalName] = DnsRule]
        <5>1. /\ mine \in Rules /\ row \in Rules
              /\ \A x \in Names : mine[x] # NoRule => row[x] = mine[x]
          BY <3>2, DnsRuleIsRule DEF Rules
        <5> HIDE DEF mine, row
        <5>2. memory' = [memory EXCEPT ![n] = mine] /\ table' = [table EXCEPT ![n] = row]
          BY <4>2 DEF mine, row
        <5> QED
          BY <5>1, <5>2
      <4> QED
        BY <3>1, <4>1, <4>2
    <3>4. MemoryIsTable'
      BY <3>1, <3>3 DEF MemoryIsTable, TypeOK, Book
    <3> QED
      BY <3>1, <3>4, RefreshedRows
  <2>5. ASSUME NEW n \in Nodes, NEW refresh \in BOOLEAN, OnStatsUpdated(n, refresh) PROVE Inv'
    <3>1. /\ RefreshRules \/ shown' = shown
          /\ \/ UNCHANGED <<books, dns, wire>>
             \/ \E m \in Nodes :
                  /\ dns' = {m}
                  /\ Tell({m}, ChangeRule(InternalName, DnsRule))
      BY <2>5, OnStatsUpdatedEffect
    <3>2. CASE UNCHANGED <<books, dns, wire>>
      BY <3>1, <3>2, RefreshedRows DEF MemoryIsTable, RowsAreRules
    <3>3. ASSUME NEW m \in Nodes, Tell({m}, ChangeRule(InternalName, DnsRule)) PROVE Inv'
      <4>1. /\ {m} \in SUBSET Nodes /\ ChangeRule(InternalName, DnsRule) \in Note
            /\ ChangeRule(InternalName, DnsRule).type = "CHANGE_RULE"
            /\ ChangeRule(InternalName, DnsRule).rule # NoRule
        BY NoteIsNote, DnsRuleIsRule, ValuesAssumption DEF ChangeRule
      <4>2. /\ MemoryIsTable'
            /\ \A k \in Nodes, x \in Names : memory[k][x] # NoRule => memory'[k][x] # NoRule
        BY <3>3, <4>1, TellKeepsBooks
      <4>3. RowsAreRules'
        BY <3>1, <4>2, RefreshedRows DEF RowsAreRules
      <4> QED
        BY <4>2, <4>3
    <3> QED
      BY <3>1, <3>2, <3>3
  <2>6. ASSUME NEW n \in Nodes, NEW x \in UserNames, NEW r \in Entered, Answer(n, x, r)
        PROVE Inv'
    <3>1. Add({n}, x, r) /\ shown' = shown /\ r # NoRule /\ x \in Names
      BY <2>6, ValuesAssumption DEF Answer, UserNames
    <3> QED
      BY <3>1 DEF Add, MemoryIsTable, RowsAreRules, TypeOK, Book
  <2>7. CASE UNCHANGED vars
    BY <2>1, <2>7 DEF vars
  <2> QED
    BY <2>2, <2>3, <2>4, <2>5, <2>6, <2>7 DEF Next
<1> QED
  BY <1>1, <1>2, TypeCorrect, PTL DEF Spec, Safe
-----------------------------------------------------------------------------
\* What is said of one daemon stays true while nothing of it changes.
LEMMA Untouched ==
  ASSUME NEW n \in Nodes, NodeInv(n),
         session'[n] = session[n], outbox'[n] = outbox[n], answers'[n] = answers[n],
         daemon'[n] = daemon[n], behind'[n] = behind[n], memory'[n] = memory[n],
         n \in nodes' => n \in nodes, Queued(n) => Queued(n)',
         \A i \in 1 .. Len(subscribes') : subscribes'[i].node = n =>
           \E j \in 1 .. Len(subscribes) : subscribes[j] = subscribes'[i]
  PROVE  NodeInv(n)'
<1>1. UnderWay(n)' = UnderWay(n) /\ Ahead(n)' = Ahead(n)
  BY DEF UnderWay, Ahead
<1>2. SessionOf(n)'
  BY DEF NodeInv, SessionOf
<1>3. QueueOf(n)'
  BY <1>1 DEF NodeInv, QueueOf
<1>4. AgreedOf(n)'
  BY <1>1 DEF NodeInv, AgreedOf, Agreed
<1> QED
  BY <1>2, <1>3, <1>4 DEF NodeInv

LEMMA UntouchedQueue ==
  ASSUME UNCHANGED subscribes, NEW n
  PROVE  /\ Queued(n)' <=> Queued(n)
         /\ \A i \in 1 .. Len(subscribes') : subscribes'[i].node = n =>
              \E j \in 1 .. Len(subscribes) : subscribes[j] = subscribes'[i]
BY DEF Queued

\* An action on one daemon keeps the invariant when it keeps that daemon's part.
LEMMA OneNode ==
  ASSUME IInv, TypeOK', NEW n \in Nodes, NodeInv(n)', UNCHANGED <<nodes, subscribes>>,
         \A m \in Nodes \ {n} :
           /\ session'[m] = session[m] /\ outbox'[m] = outbox[m] /\ answers'[m] = answers[m]
           /\ daemon'[m] = daemon[m] /\ behind'[m] = behind[m] /\ memory'[m] = memory[m]
  PROVE  IInv'
<1>1. ASSUME NEW m \in Nodes PROVE NodeInv(m)'
  <2>1. CASE m = n
    BY <2>1
  <2>2. CASE m # n
    <3>1. /\ session'[m] = session[m] /\ outbox'[m] = outbox[m] /\ answers'[m] = answers[m]
          /\ daemon'[m] = daemon[m] /\ behind'[m] = behind[m] /\ memory'[m] = memory[m]
      BY <2>2
    <3>2. NodeInv(m)
      BY DEF IInv
    <3> QED
      BY <3>1, <3>2, Untouched, UntouchedQueue
  <2> QED
    BY <2>1, <2>2
<1>2. OneRequest'
  BY DEF IInv, OneRequest
<1> QED
  BY <1>1, <1>2 DEF IInv

\* A notification that memory and table follow: who missed it is behind, and who
\* takes it will have what memory has.
LEMMA TellKeepsNode ==
  ASSUME IInv, TypeOK', UNCHANGED <<nodes, subscribes>>,
         NEW targets \in SUBSET Nodes, NEW note \in Note, Tell(targets, note),
         NEW n \in targets
  PROVE  NodeInv(n)'
<1> DEFINE y == note.name
<1>0. /\ n \in Nodes /\ y \in Names /\ NodeInv(n)
      /\ memory[n] \in Rules /\ daemon[n] \in Rules
      /\ outbox[n] # NoNote => outbox[n] \in Note
      /\ note # NoNote
  BY ValuesAssumption DEF IInv, TypeOK, Book, Rules, Note
<1>1. /\ memory'[n] = Applied(memory[n], note)
      /\ outbox'[n] = IF Takes(n) THEN note ELSE outbox[n]
      /\ behind'[n] = Missed(n, note)
      /\ UNCHANGED <<session, answers, daemon>>
  BY <1>0 DEF Tell, Told, Send
<1>2. SessionOf(n)'
  BY <1>0, <1>1 DEF NodeInv, SessionOf, Takes
<1>3. ASSUME NEW x \in Names, x # y, x \notin behind'[n]
      PROVE  /\ x \notin behind[n]
             /\ x \notin UnderWay(n) => x \notin UnderWay(n)'
             /\ Agreed(n, x) => Agreed(n, x)'
  <2>1. x \notin behind[n]
    BY <1>1, <1>3 DEF Missed
  <2>2. x \notin UnderWay(n) => x \notin UnderWay(n)'
    BY <1>1, <1>3 DEF UnderWay
  <2>3. memory'[n][x] = memory[n][x]
    BY <1>0, <1>1, <1>3, AppliedElsewhere
  <2>4. Ahead(n)'[x] = Ahead(n)[x]
    <3>1. CASE Takes(n)
      <4>1. Ahead(n) = daemon[n] /\ Ahead(n)' = Applied(daemon[n], note)
        BY <1>0, <1>1, <3>1 DEF Ahead, Takes
      <4> QED
        BY <1>0, <1>3, <4>1, AppliedElsewhere
    <3>2. CASE ~Takes(n)
      BY <1>1, <3>2 DEF Ahead
    <3> QED
      BY <3>1, <3>2
  <2>5. Agreed(n, x) => Agreed(n, x)'
    BY <1>1, <1>3, <2>3, <2>4 DEF Agreed
  <2> QED
    BY <2>1, <2>2, <2>5
<1>4. CASE ~Takes(n) \/ Overtakes(n, y)
  <2>1. y \in behind'[n]
    BY <1>1, <1>4 DEF Missed
  <2>2. QueueOf(n)'
    BY <1>0, <1>1, <1>3, <2>1 DEF NodeInv, QueueOf
  <2>3. AgreedOf(n)'
    BY <1>0, <1>1, <1>3, <2>1 DEF NodeInv, AgreedOf, Queued
  <2> QED
    BY <1>2, <2>2, <2>3 DEF NodeInv
<1>5. CASE Takes(n) /\ ~Overtakes(n, y)
  <2>1. ~Queued(n) /\ \A a \in answers[n] : a.name # y
    BY <1>5 DEF Overtakes, Queued, IInv, TypeOK
  <2>2. QueueOf(n)'
    BY <2>1 DEF QueueOf, Queued
  <2>3. ASSUME n \in nodes, y \notin behind'[n] PROVE Agreed(n, y)'
    <3>1. Switches(note) => y \notin behind[n]
      BY <1>1, <1>5, <2>3 DEF Missed
    <3>2. Switches(note) => Agreed(n, y)
      BY <1>0, <2>1, <2>3, <3>1 DEF NodeInv, AgreedOf
    <3>3. Switches(note) /\ daemon[n][y] # NoRule => daemon[n][y] = memory[n][y]
      BY <1>5, <2>1, <3>2 DEF Agreed, Ahead, Takes
    <3>4. Applied(daemon[n], note)[y] # NoRule =>
            Applied(daemon[n], note)[y] = Applied(memory[n], note)[y]
      BY <1>0, <3>3, AppliedAgrees
    <3>5. Ahead(n)' = Applied(daemon[n], note)
      BY <1>0, <1>1, <1>5 DEF Ahead
    <3> QED
      BY <1>1, <2>1, <3>4, <3>5 DEF Agreed
  <2>4. AgreedOf(n)'
    BY <1>0, <1>3, <2>1, <2>3 DEF NodeInv, AgreedOf
  <2> QED
    BY <1>2, <2>2, <2>4 DEF NodeInv
<1> QED
  BY <1>4, <1>5
LEMMA TellKeeps ==
  ASSUME IInv, TypeOK', UNCHANGED <<nodes, subscribes>>,
         NEW targets \in SUBSET Nodes, NEW note \in Note, Tell(targets, note)
  PROVE  IInv'
<1>1. ASSUME NEW n \in Nodes PROVE NodeInv(n)'
  <2>1. CASE n \in targets
    BY <2>1, TellKeepsNode
  <2>2. CASE n \notin targets
    <3>1. /\ session'[n] = session[n] /\ outbox'[n] = outbox[n] /\ answers'[n] = answers[n]
          /\ daemon'[n] = daemon[n] /\ behind'[n] = behind[n] /\ memory'[n] = memory[n]
      BY <2>2 DEF Tell, Told, Send
    <3>2. NodeInv(n)
      BY DEF IInv
    <3> QED
      BY <3>1, <3>2, Untouched, UntouchedQueue
  <2> QED
    BY <2>1, <2>2
<1>2. OneRequest'
  BY DEF IInv, OneRequest
<1> QED
  BY <1>1, <1>2 DEF IInv

\* A notification's effect on a rule depends on that rule alone.
LEMMA AppliedLocal ==
  ASSUME NEW mine \in Rules, NEW theirs \in Rules, NEW note \in Note,
         NEW x \in Names, mine[x] = theirs[x]
  PROVE  Applied(mine, note)[x] = Applied(theirs, note)[x]
<1>1. CASE x = note.name
  <2> DEFINE Word(book, was) ==
               /\ note.type = "CHANGE_RULE" => book = note.rule
               /\ note.type = "DELETE_RULE" => book = NoRule
               /\ Switches(note) =>
                    book = IF was = NoRule THEN NoRule
                           ELSE [was EXCEPT !.enabled = (note.type = "ENABLE_RULE")]
  <2>1. Word(Applied(mine, note)[x], mine[x])
    BY <1>1, AppliedEffect
  <2>2. Word(Applied(theirs, note)[x], theirs[x])
    BY <1>1, AppliedEffect
  <2>3. note.type \in NotificationTypes
    BY DEF Note
  <2> QED
    BY <2>1, <2>2, <2>3 DEF Switches, NotificationTypes
<1>2. CASE x # note.name
  BY <1>2, AppliedElsewhere
<1> QED
  BY <1>1, <1>2

\* The rules of a daemon that has not been sent anything about x.
LEMMA AheadElsewhere ==
  ASSUME TypeOK, NEW n \in Nodes, NEW x \in Names, outbox[n] # NoNote => outbox[n].name # x
  PROVE  Ahead(n)[x] = daemon[n][x]
<1>1. daemon[n] \in Rules /\ (outbox[n] # NoNote => outbox[n] \in Note)
  BY DEF TypeOK, Book, Rules
<1> QED
  BY <1>1, AppliedElsewhere DEF Ahead

LEMMA NotUnderWay ==
  ASSUME NEW n, NEW x, x \notin UnderWay(n)
  PROVE  /\ \A a \in answers[n] : a.name # x
         /\ outbox[n] # NoNote => outbox[n].name # x
BY DEF UnderWay
-----------------------------------------------------------------------------
\* What the steps of a daemon do to its part of the invariant.
LEMMA OpenStreamKeeps ==
  ASSUME IInv, TypeOK', NEW n \in Nodes, OpenStream(n)
  PROVE  IInv'
<1>1. /\ session' = [session EXCEPT ![n] = "open"]
      /\ UNCHANGED <<memory, nodes, subscribes, outbox, answers, daemon, behind>>
  BY DEF OpenStream, books, gui
<1>2. NodeInv(n)'
  <2>1. SessionOf(n)'
    BY <1>1 DEF IInv, TypeOK, SessionOf
  <2>2. UnderWay(n)' = UnderWay(n) /\ Ahead(n)' = Ahead(n) /\ (Queued(n)' <=> Queued(n))
    BY <1>1 DEF UnderWay, Ahead, Queued
  <2>3. QueueOf(n)'
    BY <1>1, <2>2 DEF IInv, NodeInv, QueueOf
  <2>4. AgreedOf(n)'
    BY <1>1, <2>2 DEF IInv, NodeInv, AgreedOf, Agreed
  <2> QED
    BY <2>1, <2>3, <2>4 DEF NodeInv
<1>3. \A m \in Nodes \ {n} : session'[m] = session[m]
  BY <1>1 DEF IInv, TypeOK
<1> QED
  BY <1>1, <1>2, <1>3, OneNode

LEMMA ApplyNoteKeeps ==
  ASSUME IInv, TypeOK', NEW n \in Nodes, ApplyNote(n)
  PROVE  IInv'
<1>1. /\ outbox[n] # NoNote
      /\ daemon' = [daemon EXCEPT ![n] = Applied(@, outbox[n])]
      /\ outbox' = [outbox EXCEPT ![n] = NoNote]
      /\ UNCHANGED <<memory, nodes, subscribes, session, answers, behind>>
  BY DEF ApplyNote, books, gui
<1>2. /\ daemon'[n] = Applied(daemon[n], outbox[n]) /\ outbox'[n] = NoNote
      /\ outbox[n] \in Note /\ daemon[n] \in Rules /\ NodeInv(n)
      /\ \A m \in Nodes \ {n} : daemon'[m] = daemon[m] /\ outbox'[m] = outbox[m]
  BY <1>1 DEF IInv, TypeOK, Book, Rules
<1>3. SessionOf(n)'
  BY <1>1, <1>2 DEF NodeInv, SessionOf
<1>4. QueueOf(n)'
  <2> SUFFICES ASSUME NEW i \in 1 .. Len(subscribes), subscribes[i].node = n,
                      NEW x \in Names \ behind[n]
               PROVE  /\ x \notin UnderWay(n)'
                      /\ daemon'[n][x] # NoRule => subscribes[i].rules[x] = daemon'[n][x]
    BY <1>1 DEF QueueOf
  <2>1. x \notin UnderWay(n) /\ (daemon[n][x] # NoRule => subscribes[i].rules[x] = daemon[n][x])
    BY <1>2 DEF NodeInv, QueueOf
  <2>2. outbox[n].name # x /\ \A a \in answers[n] : a.name # x
    BY <1>1, <2>1, NotUnderWay
  <2>3. daemon'[n][x] = daemon[n][x]
    BY <1>2, <2>2, AppliedElsewhere
  <2> QED
    BY <1>1, <1>2, <2>1, <2>2, <2>3 DEF UnderWay
<1>5. Ahead(n)' = Ahead(n)
  BY <1>1, <1>2 DEF Ahead
<1>6. AgreedOf(n)'
  BY <1>1, <1>2, <1>5 DEF NodeInv, AgreedOf, Agreed, Queued
<1> QED
  BY <1>1, <1>2, <1>3, <1>4, <1>6, OneNode DEF NodeInv

LEMMA AdoptAnswerKeeps ==
  ASSUME IInv, TypeOK', NEW n \in Nodes, NEW a \in answers[n], AdoptAnswer(n, a)
  PROVE  IInv'
<1>1. /\ answers' = [answers EXCEPT ![n] = @ \ {a}]
      /\ daemon' = [daemon EXCEPT ![n][a.name] = a.rule]
      /\ UNCHANGED <<memory, nodes, subscribes, session, outbox, behind>>
  BY DEF AdoptAnswer, books, gui
<1>2. /\ a.name \in Names /\ NodeInv(n)
      /\ outbox[n] # NoNote => outbox[n] \in Note
      /\ daemon[n] \in Rules /\ daemon'[n] \in Rules
  BY DEF IInv, TypeOK, Book, Rules
<1>3. /\ answers'[n] = answers[n] \ {a}
      /\ daemon'[n] = [daemon[n] EXCEPT ![a.name] = a.rule]
      /\ \A m \in Nodes \ {n} : daemon'[m] = daemon[m] /\ answers'[m] = answers[m]
  BY <1>1 DEF IInv, TypeOK, Book
<1>4. /\ daemon'[n][a.name] = a.rule
      /\ \A x \in Names : x # a.name => daemon'[n][x] = daemon[n][x]
  BY <1>2, <1>3 DEF Rules
<1>5. SessionOf(n)'
  BY <1>1, <1>2, <1>3 DEF NodeInv, SessionOf
<1>6. QueueOf(n)'
  <2> SUFFICES ASSUME NEW i \in 1 .. Len(subscribes), subscribes[i].node = n,
                      NEW x \in Names \ behind[n]
               PROVE  /\ x \notin UnderWay(n)'
                      /\ daemon'[n][x] # NoRule => subscribes[i].rules[x] = daemon'[n][x]
    BY <1>1 DEF QueueOf
  <2>1. x \notin UnderWay(n) /\ (daemon[n][x] # NoRule => subscribes[i].rules[x] = daemon[n][x])
    BY <1>2 DEF NodeInv, QueueOf
  <2>2. a.name # x
    BY <2>1, NotUnderWay
  <2>3. x \notin UnderWay(n)'
    BY <1>1, <1>3, <2>1 DEF UnderWay
  <2> QED
    BY <1>4, <2>1, <2>2, <2>3
<1>7. AgreedOf(n)'
  <2> SUFFICES ASSUME n \in nodes, ~Queued(n), NEW x \in Names \ behind[n]
               PROVE  Agreed(n, x)'
    BY <1>1 DEF AgreedOf, Queued
  <2>1. Agreed(n, x)
    BY <1>2 DEF NodeInv, AgreedOf
  <2>2. CASE x # a.name
    <3>1. daemon'[n][x] = daemon[n][x]
      BY <1>4, <2>2
    <3>2. Ahead(n)'[x] = Ahead(n)[x]
      <4>1. CASE outbox[n] = NoNote
        BY <1>1, <3>1, <4>1 DEF Ahead
      <4>2. CASE outbox[n] # NoNote
        <5>1. Applied(daemon'[n], outbox[n])[x] = Applied(daemon[n], outbox[n])[x]
          BY <1>2, <3>1, <4>2, AppliedLocal
        <5> QED
          BY <1>1, <4>2, <5>1 DEF Ahead
      <4> QED
        BY <4>1, <4>2
    <3>3. \A b : b.name = x => (b \in answers'[n] <=> b \in answers[n])
      BY <1>3, <2>2
    <3> QED
      BY <1>1, <2>1, <3>2, <3>3 DEF Agreed
  <2>3. CASE x = a.name
    <3>1. /\ \A b \in answers[n] : b.name = x => b.rule = memory[n][x]
          /\ outbox[n] # NoNote => outbox[n].name # x
      BY <2>1, <2>3 DEF Agreed
    <3>2. Ahead(n)'[x] = daemon'[n][x]
      <4>1. CASE outbox[n] = NoNote
        BY <1>1, <4>1 DEF Ahead
      <4>2. CASE outbox[n] # NoNote
        <5>1. Applied(daemon'[n], outbox[n])[x] = daemon'[n][x]
          BY <1>2, <3>1, <4>2, AppliedElsewhere
        <5> QED
          BY <1>1, <4>2, <5>1 DEF Ahead
      <4> QED
        BY <4>1, <4>2
    <3>3. daemon'[n][x] = memory[n][x]
      BY <1>4, <2>3, <3>1
    <3> QED
      BY <1>1, <1>3, <3>1, <3>2, <3>3 DEF Agreed
  <2> QED
    BY <2>2, <2>3
<1> QED
  BY <1>1, <1>3, <1>5, <1>6, <1>7, OneNode DEF NodeInv

LEMMA LoseAnswerKeeps ==
  ASSUME IInv, TypeOK', NEW n \in Nodes, NEW a \in answers[n], LoseAnswer(n, a)
  PROVE  IInv'
<1>1. /\ answers' = [answers EXCEPT ![n] = @ \ {a}]
      /\ behind' = [behind EXCEPT ![n] = @ \cup {a.name}]
      /\ UNCHANGED <<memory, nodes, subscribes, session, outbox, daemon>>
  BY DEF LoseAnswer, books, gui
<1>2. NodeInv(n)
  BY DEF IInv
<1>3. /\ answers'[n] = answers[n] \ {a} /\ behind'[n] = behind[n] \cup {a.name}
      /\ \A m \in Nodes \ {n} : behind'[m] = behind[m] /\ answers'[m] = answers[m]
  BY <1>1 DEF IInv, TypeOK
<1>4. SessionOf(n)' /\ QueueOf(n)'
  BY <1>1, <1>2, <1>3 DEF NodeInv, SessionOf, QueueOf, UnderWay
<1>5. AgreedOf(n)'
  <2> SUFFICES ASSUME n \in nodes, ~Queued(n), NEW x \in Names \ behind'[n]
               PROVE  Agreed(n, x)'
    BY <1>1 DEF AgreedOf, Queued
  <2>1. Agreed(n, x) /\ x # a.name
    BY <1>2, <1>3 DEF NodeInv, AgreedOf
  <2>2. Ahead(n)' = Ahead(n)
    BY <1>1 DEF Ahead
  <2>3. \A b : b.name = x => (b \in answers'[n] <=> b \in answers[n])
    BY <1>3, <2>1
  <2> QED
    BY <1>1, <2>1, <2>2, <2>3 DEF Agreed
<1> QED
  BY <1>1, <1>3, <1>4, <1>5, OneNode DEF NodeInv
LEMMA DisconnectKeeps ==
  ASSUME IInv, TypeOK', NEW n \in Nodes, NEW restarts \in BOOLEAN, Disconnect(n, restarts)
  PROVE  IInv'
<1>1. /\ session' = [session EXCEPT ![n] = "off"]
      /\ outbox' = [outbox EXCEPT ![n] = NoNote] /\ answers' = [answers EXCEPT ![n] = {}]
      /\ behind' = [behind EXCEPT ![n] = @ \cup UnderWay(n)]
      /\ UNCHANGED <<memory, nodes, subscribes>>
  BY DEF Disconnect, books, gui
<1>2. NodeInv(n) /\ TypeOK
  BY DEF IInv
<1>3. /\ session'[n] = "off" /\ outbox'[n] = NoNote /\ answers'[n] = {}
      /\ behind'[n] = behind[n] \cup UnderWay(n)
      /\ \A m \in Nodes \ {n} :
           /\ session'[m] = session[m] /\ outbox'[m] = outbox[m] /\ answers'[m] = answers[m]
           /\ behind'[m] = behind[m]
  BY <1>1, <1>2 DEF TypeOK
<1>4. /\ \A x \in Names : daemon'[n][x] # NoRule => daemon'[n][x] = daemon[n][x]
      /\ \A m \in Nodes \ {n} : daemon'[m] = daemon[m]
  <2>1. CASE ~restarts
    BY <2>1 DEF Disconnect
  <2>2. CASE restarts
    <3>1. daemon' = [daemon EXCEPT ![n] = [x \in Names |->
                       IF @[x] # NoRule /\ @[x].duration # "always" THEN NoRule ELSE @[x]]]
      BY <2>2 DEF Disconnect
    <3>2. daemon'[n] = [x \in Names |->
             IF daemon[n][x] # NoRule /\ daemon[n][x].duration # "always" THEN NoRule ELSE daemon[n][x]]
      BY <1>2, <3>1 DEF TypeOK, Book
    <3> QED
      BY <1>2, <3>1, <3>2 DEF TypeOK, Book
  <2> QED
    BY <2>1, <2>2
<1>5. SessionOf(n)'
  BY <1>3 DEF SessionOf
<1>6. QueueOf(n)'
  BY <1>1, <1>2, <1>3, <1>4 DEF NodeInv, QueueOf, UnderWay
<1>7. AgreedOf(n)'
  <2> SUFFICES ASSUME n \in nodes, ~Queued(n), NEW x \in Names \ behind'[n]
               PROVE  Agreed(n, x)'
    BY <1>1 DEF AgreedOf, Queued
  <2>1. Agreed(n, x) /\ x \notin UnderWay(n)
    BY <1>2, <1>3 DEF NodeInv, AgreedOf
  <2>2. Ahead(n)[x] = daemon[n][x] /\ \A a \in answers[n] : a.name # x
    BY <1>2, <2>1, NotUnderWay, AheadElsewhere
  <2>3. Ahead(n)' = daemon'[n]
    BY <1>3 DEF Ahead
  <2> QED
    BY <1>1, <1>3, <1>4, <2>1, <2>2, <2>3 DEF Agreed
<1> QED
  BY <1>1, <1>3, <1>4, <1>5, <1>6, <1>7, OneNode DEF NodeInv

LEMMA SubscribeKeeps ==
  ASSUME IInv, TypeOK', NEW n \in Nodes, Subscribe(n)
  PROVE  IInv'
<1> DEFINE s == [node |-> n, rules |-> daemon[n]]
           last == Len(subscribes) + 1
<1>1. /\ session[n] = "off" /\ ~Queued(n)
      /\ session' = [session EXCEPT ![n] = "subscribed"]
      /\ subscribes' = Append(subscribes, s)
      /\ behind' = [behind EXCEPT ![n] = {a.name : a \in answers[n]}]
      /\ UNCHANGED <<memory, nodes, outbox, answers, daemon>>
  BY DEF Subscribe, books, Queued, IInv, TypeOK
<1>2. s.node = n /\ s.rules = daemon[n]
  OBVIOUS
<1> HIDE DEF s
<1>3. /\ Len(subscribes) \in Nat
      /\ Len(subscribes') = last /\ subscribes'[last] = s
      /\ \A i \in 1 .. Len(subscribes) : subscribes'[i] = subscribes[i]
  BY <1>1 DEF IInv, TypeOK
<1>4. NodeInv(n) /\ TypeOK
  BY DEF IInv
<1>5. outbox'[n] = NoNote /\ answers'[n] = {} /\ session'[n] = "subscribed"
  BY <1>1, <1>4 DEF NodeInv, SessionOf, TypeOK
<1>6. QueueOf(n)'
  <2> SUFFICES ASSUME NEW i \in 1 .. Len(subscribes'), subscribes'[i].node = n,
                      NEW x \in Names
               PROVE  /\ x \notin UnderWay(n)'
                      /\ subscribes'[i].rules[x] = daemon'[n][x]
    BY DEF QueueOf
  <2>1. i = last
    BY <1>1, <1>3 DEF Queued
  <2> QED
    BY <1>1, <1>2, <1>3, <1>5, <2>1 DEF UnderWay
<1>7. NodeInv(n)'
  <2>1. Queued(n)'
    BY <1>2, <1>3 DEF Queued
  <2> QED
    BY <1>5, <1>6, <2>1 DEF NodeInv, SessionOf, AgreedOf
<1>8. ASSUME NEW m \in Nodes, m # n PROVE NodeInv(m)'
  <2>1. /\ session'[m] = session[m] /\ outbox'[m] = outbox[m] /\ answers'[m] = answers[m]
        /\ daemon'[m] = daemon[m] /\ behind'[m] = behind[m] /\ memory'[m] = memory[m]
    BY <1>1, <1>4, <1>8 DEF TypeOK
  <2>2. /\ Queued(m) => Queued(m)'
        /\ \A i \in 1 .. Len(subscribes') : subscribes'[i].node = m =>
             \E j \in 1 .. Len(subscribes) : subscribes[j] = subscribes'[i]
    BY <1>2, <1>3, <1>8 DEF Queued
  <2> QED
    BY <1>1, <2>1, <2>2, Untouched DEF IInv
<1>9. OneRequest'
  BY <1>1, <1>2, <1>3 DEF IInv, OneRequest, Queued
<1> QED
  BY <1>7, <1>8, <1>9 DEF IInv

LEMMA AnswerKeeps ==
  ASSUME IInv, TypeOK', NEW n \in Nodes, NEW x \in UserNames, NEW r \in Entered, Answer(n, x, r)
  PROVE  IInv'
<1> DEFINE a == [name |-> x, rule |-> r]
<1>1. /\ session[n] # "off" /\ Add({n}, x, r)
      /\ answers' = [answers EXCEPT ![n] = @ \cup {a}]
      /\ behind' = [behind EXCEPT ![n] =
                      IF Overtakes(n, x) \/ x \in UnderWay(n) THEN @ \cup {x} ELSE @ \ {x}]
      /\ UNCHANGED <<nodes, subscribes, session, outbox, daemon>>
  BY DEF Answer, gui
<1>2. a.name = x /\ a.rule = r
  OBVIOUS
<1> HIDE DEF a
<1>3. NodeInv(n) /\ TypeOK /\ x \in Names
  BY DEF IInv, UserNames
<1>4. /\ answers'[n] = answers[n] \cup {a}
      /\ behind'[n] = IF Overtakes(n, x) \/ x \in UnderWay(n) THEN behind[n] \cup {x} ELSE behind[n] \ {x}
      /\ memory'[n][x] = r
      /\ \A y \in Names : y # x => memory'[n][y] = memory[n][y]
      /\ \A m \in Nodes \ {n} : /\ answers'[m] = answers[m] /\ behind'[m] = behind[m]
                               /\ memory'[m] = memory[m]
  BY <1>1, <1>3 DEF Add, TypeOK, Book
<1>5. SessionOf(n)'
  BY <1>1 DEF SessionOf
<1>6. QueueOf(n)'
  <2> SUFFICES ASSUME NEW i \in 1 .. Len(subscribes), subscribes[i].node = n,
                      NEW y \in Names \ behind'[n]
               PROVE  /\ y \notin UnderWay(n)'
                      /\ daemon[n][y] # NoRule => subscribes[i].rules[y] = daemon[n][y]
    BY <1>1 DEF QueueOf
  <2>1. Overtakes(n, x)
    BY <1>3 DEF Overtakes, TypeOK
  <2>2. y \notin behind[n] /\ y # x
    BY <1>4, <2>1
  <2>3. y \notin UnderWay(n) /\ (daemon[n][y] # NoRule => subscribes[i].rules[y] = daemon[n][y])
    BY <1>3, <2>2 DEF NodeInv, QueueOf
  <2> QED
    BY <1>1, <1>2, <1>4, <2>2, <2>3 DEF UnderWay
<1>7. AgreedOf(n)'
  <2> SUFFICES ASSUME n \in nodes, ~Queued(n), NEW y \in Names \ behind'[n]
               PROVE  Agreed(n, y)'
    BY <1>1 DEF AgreedOf, Queued
  <2>1. Ahead(n)' = Ahead(n)
    BY <1>1 DEF Ahead
  <2>2. CASE y # x
    <3>1. Agreed(n, y)
      BY <1>3, <1>4, <2>2 DEF NodeInv, AgreedOf
    <3>2. \A b : b.name = y => (b \in answers'[n] <=> b \in answers[n])
      BY <1>2, <1>4, <2>2
    <3> QED
      BY <1>1, <1>4, <2>1, <2>2, <3>1, <3>2 DEF Agreed
  <2>3. CASE y = x
    <3>1. ~Overtakes(n, x) /\ x \notin UnderWay(n)
      BY <1>4, <2>3
    <3>2. /\ \A b \in answers[n] : b.name # x
          /\ outbox[n] # NoNote => outbox[n].name # x
      BY <3>1, NotUnderWay
    <3> QED
      BY <1>1, <1>2, <1>4, <2>3, <3>2 DEF Agreed
  <2> QED
    BY <2>2, <2>3
<1> QED
  BY <1>1, <1>4, <1>5, <1>6, <1>7, OneNode DEF NodeInv

LEMMA OnSubscribedMerges ==
  ASSUME IInv, TypeOK', OnSubscribed,
         NEW n, NEW theirs, n = Head(subscribes).node, theirs = Head(subscribes).rules
  PROVE  IInv'
<1> DEFINE note == ChangeRule(InternalName, DnsRule)
<1>1. /\ n \in Nodes /\ theirs \in Rules
      /\ nodes' = nodes \cup {n}
      /\ subscribes' = Tail(subscribes)
      /\ \/ /\ ~MakesDnsRule(n) /\ UNCHANGED <<dns, wire>>
            /\ memory' = [memory EXCEPT ![n] = Merged(@, theirs)]
         \/ /\ Send({n}, note)
            /\ memory' = [memory EXCEPT ![n] = [Merged(@, theirs) EXCEPT ![InternalName] = DnsRule]]
  <2>1. TypeOK
    BY DEF IInv
  <2>2. /\ n \in Nodes /\ theirs \in Rules /\ nodes' = nodes \cup {n}
        /\ subscribes' = Tail(subscribes)
    BY <2>1, OnSubscribedEffect
  <2> QED
    BY <2>1, <2>2, OnSubscribedEffect, Zenon
<1>2. /\ 1 \in 1 .. Len(subscribes) /\ subscribes[1].node = n /\ subscribes[1].rules = theirs
      /\ \A i \in 1 .. Len(subscribes') :
           i + 1 \in 1 .. Len(subscribes) /\ subscribes'[i] = subscribes[i + 1]
      /\ \A i \in 1 .. Len(subscribes) :
           i # 1 => i - 1 \in 1 .. Len(subscribes') /\ subscribes'[i - 1] = subscribes[i]
  <2>1. subscribes # <<>>
    BY DEF OnSubscribed
  <2>2. subscribes \in Seq([node: Nodes, rules: [Names -> Rule \cup {NoRule}]])
    BY DEF IInv, TypeOK
  <2>3. subscribes' = Tail(subscribes)
    BY <1>1
  <2>4. Head(subscribes) = subscribes[1]
    BY <2>1, <2>2
  <2> QED
    BY <2>1, <2>2, <2>3, <2>4
<1>3. /\ note \in Note /\ note.name = InternalName /\ note # NoNote /\ InternalName \in Names
      /\ TypeOK /\ NodeInv(n)
  BY <1>1, NoteIsNote, DnsRuleIsRule, ValuesAssumption DEF ChangeRule, IInv
<1> HIDE DEF note
<1>4. OneRequest'
  <2> SUFFICES ASSUME NEW i \in 1 .. Len(subscribes'), NEW j \in 1 .. Len(subscribes'),
                      subscribes'[i].node = subscribes'[j].node
               PROVE  i = j
    BY DEF OneRequest
  <2>1. i + 1 = j + 1
    BY <1>2 DEF IInv, OneRequest
  <2> QED
    BY <2>1
<1>5. ~Queued(n)'
  <2> SUFFICES ASSUME NEW i \in 1 .. Len(subscribes'), subscribes'[i].node = n PROVE FALSE
    BY DEF Queued
  <2>1. i + 1 = 1
    BY <1>2 DEF IInv, OneRequest
  <2> QED
    BY <2>1
<1>6. /\ UNCHANGED <<session, answers, daemon>>
      /\ \A m \in Nodes \ {n} : /\ outbox'[m] = outbox[m] /\ behind'[m] = behind[m]
                               /\ memory'[m] = memory[m]
      /\ outbox'[n] = outbox[n] \/ (Takes(n) /\ outbox'[n] = note)
      /\ behind[n] \subseteq behind'[n]
  <2>1. Overtakes(n, InternalName)
    BY <1>2, <1>3 DEF Overtakes, TypeOK
  <2>2. \A m \in Nodes \ {n} : memory'[m] = memory[m]
    BY <1>1, <1>3 DEF TypeOK, Book
  <2>3. CASE UNCHANGED <<dns, wire>>
    BY <2>2, <2>3 DEF wire
  <2>4. CASE Send({n}, note)
    BY <1>1, <1>3, <2>1, <2>2, <2>4 DEF Send, Missed
  <2> QED
    BY <1>1, <2>3, <2>4
<1>7. ASSUME NEW x \in Names, x \notin behind'[n], theirs[x] # NoRule
      PROVE  memory'[n][x] = theirs[x]
  <2>1. memory[n] \in Rules
    BY <1>1, <1>3 DEF TypeOK, Book, Rules
  <2>2. Merged(memory[n], theirs)[x] = theirs[x]
    BY <1>7 DEF Merged
  <2>3. CASE memory' = [memory EXCEPT ![n] = Merged(@, theirs)]
    BY <1>1, <1>3, <2>2, <2>3 DEF TypeOK, Book
  <2>4. CASE /\ Send({n}, note)
             /\ memory' = [memory EXCEPT ![n] = [Merged(@, theirs) EXCEPT ![InternalName] = DnsRule]]
    <3>1. Overtakes(n, InternalName)
      BY <1>2, <1>3 DEF Overtakes, TypeOK
    <3>2. InternalName \in behind'[n]
      BY <1>1, <1>3, <2>4, <3>1 DEF Send, Missed
    <3>3. memory'[n] = [Merged(memory[n], theirs) EXCEPT ![InternalName] = DnsRule]
      BY <1>1, <1>3, <2>4 DEF TypeOK, Book
    <3>4. x # InternalName
      BY <1>7, <3>2
    <3> QED
      BY <1>1, <2>1, <2>2, <3>3, <3>4, MergedType DEF Rules
  <2> QED
    BY <1>1, <2>3, <2>4
<1>8. NodeInv(n)'
  <2>1. SessionOf(n)'
    BY <1>3, <1>6 DEF NodeInv, SessionOf, Takes
  <2>2. QueueOf(n)'
    BY <1>5 DEF QueueOf, Queued
  <2>3. ASSUME NEW x \in Names, x \notin behind'[n] PROVE Agreed(n, x)'
    <3>1. x \notin UnderWay(n) /\ (daemon[n][x] # NoRule => theirs[x] = daemon[n][x])
      BY <1>2, <1>3, <1>6, <2>3 DEF NodeInv, QueueOf
    <3>2. /\ \A a \in answers[n] : a.name # x
          /\ outbox[n] # NoNote => outbox[n].name # x
      BY <3>1, NotUnderWay
    <3>3. outbox'[n] = note => x # InternalName \/ outbox'[n] = outbox[n]
      <4>1. CASE UNCHANGED <<dns, wire>>
        BY <4>1 DEF wire
      <4>2. CASE Send({n}, note)
        <5>1. Overtakes(n, InternalName)
          BY <1>2, <1>3 DEF Overtakes, TypeOK
        <5>2. InternalName \in behind'[n]
          BY <1>1, <1>3, <4>2, <5>1 DEF Send, Missed
        <5> QED
          BY <2>3, <5>2
      <4> QED
        BY <1>1, <4>1, <4>2
    <3>4. outbox'[n] # NoNote => outbox'[n].name # x /\ outbox'[n] \in Note
      BY <1>1, <1>3, <1>6, <3>2, <3>3 DEF TypeOK
    <3>5. Ahead(n)'[x] = daemon[n][x]
      <4>1. daemon[n] \in Rules
        BY <1>1, <1>3 DEF TypeOK, Book, Rules
      <4>2. CASE outbox'[n] = NoNote
        BY <1>6, <4>2 DEF Ahead
      <4>3. CASE outbox'[n] # NoNote
        <5>1. Applied(daemon[n], outbox'[n])[x] = daemon[n][x]
          BY <3>4, <4>1, <4>3, AppliedElsewhere
        <5> QED
          BY <1>6, <4>3, <5>1 DEF Ahead
      <4> QED
        BY <4>2, <4>3
    <3> QED
      BY <1>6, <1>7, <2>3, <3>1, <3>2, <3>5 DEF Agreed
  <2> QED
    BY <2>1, <2>2, <2>3 DEF NodeInv, AgreedOf
<1>9. ASSUME NEW m \in Nodes, m # n PROVE NodeInv(m)'
  <2>1. /\ session'[m] = session[m] /\ outbox'[m] = outbox[m] /\ answers'[m] = answers[m]
        /\ daemon'[m] = daemon[m] /\ behind'[m] = behind[m] /\ memory'[m] = memory[m]
        /\ m \in nodes' => m \in nodes
    BY <1>1, <1>6, <1>9
  <2>2. Queued(m) => Queued(m)'
    BY <1>2, <1>9 DEF Queued
  <2>3. \A i \in 1 .. Len(subscribes') : subscribes'[i].node = m =>
          \E j \in 1 .. Len(subscribes) : subscribes[j] = subscribes'[i]
    BY <1>2
  <2> QED
    BY <2>1, <2>2, <2>3, Untouched DEF IInv
<1> QED
  BY <1>4, <1>8, <1>9 DEF IInv

LEMMA OnSubscribedKeeps ==
  ASSUME IInv, TypeOK', OnSubscribed
  PROVE  IInv'
BY OnSubscribedMerges

\* One step per action.
LEMMA Step ==
  ASSUME IInv, TypeOK', [Next]_vars
  PROVE  IInv'
<1>1. CASE Daemons
  BY <1>1, SubscribeKeeps, OpenStreamKeeps, ApplyNoteKeeps, AdoptAnswerKeeps, LoseAnswerKeeps,
     DisconnectKeeps DEF Daemons
<1>2. ASSUME UNCHANGED <<memory, nodes, subscribes, wire>> PROVE IInv'
  <2>1. \A n \in Nodes : NodeInv(n)'
    BY <1>2, Untouched, UntouchedQueue DEF IInv, wire
  <2>2. OneRequest'
    BY <1>2 DEF IInv, OneRequest
  <2> QED
    BY <2>1, <2>2 DEF IInv
<1>3. CASE User
  <2>1. UNCHANGED <<nodes, subscribes>> /\ (UNCHANGED <<books, wire>> \/ Deed)
    BY <1>3, UserTells DEF IInv
  <2>2. CASE Deed
    <3>1. PICK targets \in SUBSET Nodes, note \in Note : Tell(targets, note)
      BY <2>2, Zenon DEF Deed
    <3> QED
      BY <2>1, <3>1, TellKeeps
  <2> QED
    BY <1>2, <2>1, <2>2 DEF books
<1>4. CASE OnSubscribed
  BY <1>4, OnSubscribedKeeps
<1>5. ASSUME NEW n \in Nodes, NEW refresh \in BOOLEAN, OnStatsUpdated(n, refresh) PROVE IInv'
  <2>1. /\ UNCHANGED <<nodes, subscribes>>
        /\ \/ UNCHANGED <<books, dns, wire>>
           \/ \E m \in Nodes : Tell({m}, ChangeRule(InternalName, DnsRule))
    BY <1>5, OnStatsUpdatedEffect DEF IInv
  <2>2. ASSUME NEW m \in Nodes, Tell({m}, ChangeRule(InternalName, DnsRule)) PROVE IInv'
    <3>1. {m} \in SUBSET Nodes /\ ChangeRule(InternalName, DnsRule) \in Note
      BY NoteIsNote, DnsRuleIsRule
    <3> QED
      BY <2>1, <2>2, <3>1, TellKeeps
  <2> QED
    BY <1>2, <2>1, <2>2 DEF books
<1>6. ASSUME NEW n \in Nodes, NEW x \in UserNames, NEW r \in Entered, Answer(n, x, r) PROVE IInv'
  BY <1>6, AnswerKeeps
<1>7. CASE UNCHANGED vars
  BY <1>2, <1>7 DEF vars, books, gui
<1> QED
  BY <1>1, <1>3, <1>4, <1>5, <1>6, <1>7 DEF Next

\* A rule in force at a known daemon is the rule the UI has, unless its last change
\* is under way, was dropped, or met an older word on another call: whatever the
\* user, the prompts and the daemons do, in whichever order the three calls arrive.
THEOREM RulesKnown == Spec => []RulesInForceAreKnown
<1>1. Init => IInv
  <2> SUFFICES ASSUME Init PROVE IInv
    OBVIOUS
  <2>1. TypeOK
    BY InitType
  <2>2. OneRequest /\ \A n \in Nodes : NodeInv(n)
    BY DEF Init, OneRequest, NodeInv, SessionOf, QueueOf, AgreedOf
  <2> QED
    BY <2>1, <2>2 DEF IInv
<1>2. IInv /\ TypeOK' /\ [Next]_vars => IInv'
  BY Step
<1>3. IInv => RulesInForceAreKnown
  <2> SUFFICES ASSUME IInv, NEW n \in Nodes, NEW x \in Names, Settled(n, x), daemon[n][x] # NoRule
               PROVE  memory[n][x] = daemon[n][x]
    BY DEF RulesInForceAreKnown
  <2>1. n \in nodes /\ x \notin UnderWay(n) /\ x \notin behind[n] /\ ~Queued(n)
    BY DEF Settled, Queued, IInv, TypeOK
  <2>2. Agreed(n, x)
    BY <2>1 DEF IInv, NodeInv, AgreedOf
  <2>3. /\ \A a \in answers[n] : a.name # x
        /\ outbox[n] # NoNote => outbox[n].name # x
    BY <2>1, NotUnderWay
  <2>4. Ahead(n)[x] = daemon[n][x]
    BY <2>3, AheadElsewhere DEF IInv
  <2> QED
    BY <2>2, <2>3, <2>4 DEF Agreed
<1> QED
  BY <1>1, <1>2, <1>3, TypeCorrect, PTL DEF Spec

\* Duplicating a rule changes no rule that has a row.
THEOREM CloneIsNew == Spec => CloneOverwritesNothing
<1>1. ASSUME TypeOK, MemoryIsTable, MenuDuplicate, NEW n \in Nodes, NEW x \in Names, table[n][x] # NoRule
      PROVE  table'[n][x] = table[n][x] /\ memory'[n][x] = memory[n][x]
  <2>1. PICK c \in Names : /\ IsFreeName(picked.node, picked.name, c)
                           /\ Add({picked.node}, c, PickedRow)
    BY <1>1 DEF MenuDuplicate
  <2>2. table[picked.node][c] = NoRule
    BY <2>1 DEF IsFreeName
  <2>3. ~(n = picked.node /\ x = c)
    BY <1>1, <2>2
  <2> QED
    BY <1>1, <2>1, <2>3 DEF Add, TypeOK, Book
<1>2. TypeOK /\ Safe =>
        [MenuDuplicate => \A n \in Nodes, x \in Names :
           table[n][x] # NoRule => table'[n][x] = table[n][x] /\ memory'[n][x] = memory[n][x]]_vars
  BY <1>1 DEF Safe
<1> QED
  BY <1>2, BooksSafe, TypeCorrect, PTL DEF CloneOverwritesNothing
=============================================================================
