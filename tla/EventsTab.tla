------------------------------ MODULE EventsTab ------------------------------
(***************************************************************************)
(* The events tab and the table it shows: rows in a TQtListStore, seen     *)
(* through the filters and the sorting of a TQtMvcTableView                *)
(* (src/src/mvc/tqtliststore.cpp, tqtmvctableview.cpp, main_window.cpp).   *)
(*                                                                         *)
(* The view keeps numbers of model rows in the order it shows them, and    *)
(* the keys it sorted by, taken only of the rows that were visible then.   *)
(* A handler of the GUI thread is one action, the signals of the model and *)
(* every rebuild of the index included.                                    *)
(***************************************************************************)
EXTENDS Naturals, Sequences, FiniteSets, SequencesExt

CONSTANTS Actions,    \* what the action column says, as the action combo has it
          Dests,      \* what the destination column says
          Number,     \* Number[d]: TQString::toDouble() of a destination
          Numeric,    \* the destinations that are numbers
          Collation,  \* Collation[d]: its place in TQString::localeAwareCompare()
          FilterTexts, Holds,   \* Holds[t]: the destinations and actions with t in them
          Limits,     \* what the limit combo offers
          ColumnsOf,  \* ColumnsOf[d]: the columns of `connections' no event shows
          InternalRule, NoHost, Named, NameOf,   \* for module ConnectionViews
          MaxRows,    \* bound: events that are stored
          MaxEvents   \* bound: what happens

Columns == {"time", "dest"}
Event == [time : 1 .. MaxRows, action : Actions, dest : Dests, internal : BOOLEAN]

ASSUME TextsAssumption ==
  /\ "" \notin FilterTexts /\ "" \notin Actions
  /\ Holds \in [FilterTexts -> SUBSET (Dests \cup Actions)]
  /\ Numeric \subseteq Dests /\ Number \in [Dests -> Nat]
  /\ Collation \in [Dests -> Nat \ {0}]
  /\ \A d \in Dests \ Numeric : Number[d] = 0
ASSUME ColumnsAssumption ==
  \A d \in Dests :
    /\ DOMAIN ColumnsOf[d] = {"node", "protocol", "src_ip", "dst_ip", "dst_port", "uid",
                             "pid", "process", "process_args", "process_cwd", "rule"}
    /\ ColumnsOf[d].rule # InternalRule
ASSUME TabBoundsAssumption ==
  Limits \subseteq Nat \ {0} /\ MaxRows \in Nat /\ MaxEvents \in Nat

VARIABLES
  stored,  \* rows of `connections', the newest first
  model,   \* TQtListStore::m_rows
  view,    \* TQtMvcTableView: m_visibleRows, the current row (0 for none), the
           \*   sorting and the filters
  cache,   \* m_sortCacheColumn, m_sortCacheAllNumeric and the keys by model row
  keyed,   \* history: the model rows whose keys the cache really has
  tab, filterText, actionChoice, limit, frozen,  \* the window's own widgets
  events

widgets == <<tab, filterText, actionChoice, limit, frozen>>
table == <<model, view, cache, keyed>>
eventsTabVars == <<stored, table, widgets, events>>

\* A key: as a number, as a text (0: the null string) and whether it is a number.
Key == [number : Nat, place : Nat, isNumber : BOOLEAN]
NoKey == [number |-> 0, place |-> 0, isNumber |-> FALSE]
KeyOf(row, column) ==
  IF column = "time"
  THEN [number |-> 0, place |-> row.time, isNumber |-> FALSE]
  ELSE [number |-> Number[row.dest], place |-> Collation[row.dest],
        isNumber |-> row.dest \in Numeric]

EventsTabTypeOK ==
  /\ stored \in Seq(Event) /\ model \in Seq(Event)
  /\ view \in [visible : Seq(Nat), current : Nat, sort : Columns \cup {"none"},
               ascending : BOOLEAN, text : FilterTexts \cup {""},
               action : Actions \cup {""}]
  /\ cache \in [column : Columns \cup {"none"}, numeric : BOOLEAN, keys : Seq(Key)]
  /\ keyed \subseteq DOMAIN model
  /\ tab \in {"events", "other"} /\ frozen \in BOOLEAN /\ limit \in Limits
  /\ filterText \in FilterTexts \cup {""} /\ actionChoice \in Actions \cup {""}
  /\ events \in 0 .. MaxEvents

EventsTabInit ==
  /\ stored = <<>> /\ model = <<>>
  /\ view = [visible |-> <<>>, current |-> 0, sort |-> "none", ascending |-> TRUE,
             text |-> "", action |-> ""]
  /\ cache = [column |-> "none", numeric |-> FALSE, keys |-> <<>>]
  /\ keyed = {}
  /\ tab = "events" /\ filterText = "" /\ actionChoice = "" /\ limit \in Limits
  /\ frozen = FALSE /\ events = 0

-----------------------------------------------------------------------------
(* TQtMvcTableView: t is a record of model, view, cache and keyed.         *)

TheTable == [model |-> model, view |-> view, cache |-> cache, keyed |-> keyed]
SetTable(t) ==
  model' = t.model /\ view' = t.view /\ cache' = t.cache /\ keyed' = t.keyed

\* The combo's filter wants the whole cell, the text a part of any cell.
Matching(row, action, text) ==
  /\ action # "" => row.action = action
  /\ text # "" => Holds[text] \cap {row.dest, row.action} # {}

Filtered_TextOnly(t) == {i \in DOMAIN t.model : Matching(t.model[i], "", t.view.text)}

Filtered(t) == {i \in DOMAIN t.model : Matching(t.model[i], t.view.action, t.view.text)}

\* The members of S, each once, in the order `before', a set of pairs; in any
\* order if none fits it.
Arranged(S, before) ==
  LET some == Bijection(1 .. Cardinality(S), S)
      fit == {f \in some : \A d, e \in DOMAIN f : d < e => <<f[d], f[e]>> \in before}
  IN CHOOSE f \in (IF fit = {} THEN some ELSE fit) : TRUE

Ascending(S) == Arranged(S, {p \in S \X S : p[1] < p[2]})

\* A cache of the column sorted by is taken for whole; otherwise the keys of
\* the rows in `rows' are put over what the cache held.
CacheFor(t, rows) ==
  IF t.cache.column = t.view.sort THEN t.cache
  ELSE LET old(i) == IF i \in DOMAIN t.cache.keys THEN t.cache.keys[i] ELSE NoKey
           keys == [i \in DOMAIN t.model |->
                      IF i \in rows THEN KeyOf(t.model[i], t.view.sort) ELSE old(i)]
       IN [column |-> t.view.sort, keys |-> keys,
           numeric |-> \A i \in rows : keys[i].isNumber]

Less(c, ascending, a, b) ==
  LET x == c.keys[a]
      y == c.keys[b]
      asNumbers == c.numeric \/ (x.isNumber /\ y.isNumber)
      below(p, q) == IF asNumbers THEN p.number < q.number ELSE p.place < q.place
  IN IF ascending THEN below(x, y) ELSE below(y, x)

\* Rows that compare equal keep the order they came in, that of the model.
Before(c, ascending, a, b) ==
  \/ Less(c, ascending, a, b)
  \/ ~Less(c, ascending, b, a) /\ a < b

\* std::stable_sort(), which promises no order when the comparator is no strict
\* weak ordering.
Sorted(c, ascending, rows) ==
  Arranged(rows, {p \in rows \X rows : Before(c, ascending, p[1], p[2])})

\* TQTable::setNumRows(): a current row beyond the last becomes the last.
Within(current, count) == IF current > count THEN count ELSE current

Rebuilt(t) ==
  LET rows == Filtered(t)
      sorting == t.view.sort # "none" /\ Cardinality(rows) > 1
      c == IF sorting THEN CacheFor(t, rows) ELSE t.cache
      order == IF sorting THEN Sorted(c, t.view.ascending, rows) ELSE Ascending(rows)
  IN [t EXCEPT !.view.visible = order, !.view.current = Within(@, Len(order)),
               !.cache = c,
               !.keyed = IF sorting /\ t.cache.column # t.view.sort
                         THEN rows ELSE @]

Invalidated(t) ==
  [t EXCEPT !.cache = [@ EXCEPT !.column = "none", !.keys = <<>>], !.keyed = {}]

SetColumnFilter(t, a) == Rebuilt([t EXCEPT !.view.action = a])
SetFilterText(t, x) == Rebuilt([t EXCEPT !.view.text = x])

OnModelReset_KeepsKeys(t, rows) ==
  Rebuilt([t EXCEPT !.model = rows,
                    !.cache.keys = [i \in DOMAIN rows |->
                                      IF i \in DOMAIN @ THEN @[i] ELSE NoKey]])

\* endBatch() after clear() and a row at a time: one modelReset().
OnModelReset(t, rows) == Rebuilt(Invalidated([t EXCEPT !.model = rows]))

OnHeaderClicked(t, column) ==
  Rebuilt(IF t.view.sort = column THEN [t EXCEPT !.view.ascending = ~@]
          ELSE [t EXCEPT !.view.sort = column, !.view.ascending = TRUE])

SelectedModelRow(v) == IF v.current = 0 THEN 0 ELSE v.visible[v.current]

\* A row the filters hide leaves the current row where it is.
SelectModelRow(t, i) ==
  LET at == {d \in DOMAIN t.view.visible : t.view.visible[d] = i}
  IN IF at = {} THEN t ELSE [t EXCEPT !.view.current = CHOOSE d \in at : TRUE]

-----------------------------------------------------------------------------
(* MainWindow.                                                             *)

Step == events < MaxEvents /\ events' = events + 1

Smaller(a, b) == IF a < b THEN a ELSE b

\* Database::select(): the rows by time; the limit it is given is ignored.
Select == stored

\* The loop adds rows up to the limit, none of them of the UI's own rule.
Fetched(lim) ==
  LET own == {i \in DOMAIN Select : ~Select[i].internal}
      first == Ascending({i \in own : Cardinality({j \in own : j < i}) < lim})
  IN [d \in DOMAIN first |-> Select[first[d]]]

ApplyEventsFilter(t) == SetFilterText(SetColumnFilter(t, actionChoice), filterText)

Reselected_ByNumber(t, before) ==
  LET i == SelectedModelRow(before.view)
  IN IF i \in DOMAIN t.model THEN SelectModelRow(t, i) ELSE t

\* The row selected before is looked for by what it says, then by its number.
Reselected(t, before) ==
  LET i == SelectedModelRow(before.view)
      same == {j \in DOMAIN t.model : i # 0 /\ t.model[j] = before.model[i]}
  IN IF same # {} THEN SelectModelRow(t, CHOOSE j \in same : TRUE)
     ELSE IF i \in DOMAIN t.model THEN SelectModelRow(t, i) ELSE t

FullRefreshEvents(lim) ==
  SetTable(Reselected(ApplyEventsFilter(OnModelReset(TheTable, Fetched(lim))), TheTable))

\* A report of a daemon stores an event.
Store(a, d, internal) ==
  /\ Step /\ Len(stored) < MaxRows
  /\ stored' = <<[time |-> IF stored = <<>> THEN 1 ELSE stored[1].time + 1,
                  action |-> a, dest |-> d, internal |-> internal]>> \o stored
  /\ stored'[1].time <= MaxRows
  /\ UNCHANGED <<table, widgets>>

\* The purge takes the oldest rows, the Clean button every row.
Purge ==
  /\ Step /\ stored # <<>>
  /\ stored' = Front(stored)
  /\ UNCHANGED <<table, widgets>>

\* onStatsUpdated() with the tab in front.
OnStatsUpdated ==
  /\ Step /\ tab = "events" /\ ~frozen
  /\ FullRefreshEvents(limit)
  /\ UNCHANGED <<stored, widgets>>

OnTabChanged(to) ==
  /\ Step /\ tab # to
  /\ tab' = to
  /\ IF to = "events" THEN FullRefreshEvents(limit) ELSE UNCHANGED table
  /\ UNCHANGED <<stored, filterText, actionChoice, limit, frozen>>

OnLimitComboChanged(lim) ==
  /\ Step /\ limit # lim
  /\ limit' = lim
  /\ IF tab = "events" THEN FullRefreshEvents(lim) ELSE UNCHANGED table
  /\ UNCHANGED <<stored, tab, filterText, actionChoice, frozen>>

OnFreezeLogsToggled ==
  /\ Step /\ tab = "events"
  /\ frozen' = ~frozen
  /\ IF frozen THEN FullRefreshEvents(limit) ELSE UNCHANGED table
  /\ UNCHANGED <<stored, tab, filterText, actionChoice, limit>>

OnFilterTextChanged(x) ==
  /\ Step /\ filterText # x
  /\ filterText' = x
  /\ IF tab = "events" THEN SetTable(SetFilterText(TheTable, x)) ELSE UNCHANGED table
  /\ UNCHANGED <<stored, tab, actionChoice, limit, frozen>>

\* The action combo is hidden while another tab is in front.
OnActionComboChanged(a) ==
  /\ Step /\ tab = "events" /\ actionChoice # a
  /\ actionChoice' = a
  /\ SetTable(SetColumnFilter(TheTable, a))
  /\ UNCHANGED <<stored, tab, filterText, limit, frozen>>

ClickHeader(column) ==
  /\ Step /\ tab = "events"
  /\ SetTable(OnHeaderClicked(TheTable, column))
  /\ UNCHANGED <<stored, widgets>>

ClickRow(d) ==
  /\ Step /\ tab = "events" /\ d # view.current
  /\ SetTable([TheTable EXCEPT !.view.current = d])
  /\ UNCHANGED <<stored, widgets>>

-----------------------------------------------------------------------------
(* onSaveClicked() and the details of the other tabs read the table itself. *)

\* The rows of the file: it tests the action combo, which has no "reject" here,
\* and the text by itself, on all rows, whatever the limit and the pause.
Saved ==
  {r \in ToSet(Select) :
     /\ ~r.internal
     /\ actionChoice \in {"allow", "deny"} => r.action = actionChoice
     /\ filterText # "" => Holds[filterText] \cap {r.dest, r.action} # {}}

\* A row of `connections'.
Stored(r) ==
  [column \in DOMAIN ColumnsOf[r.dest] \cup {"time", "action", "dst_host"} |->
     CASE column = "time" -> r.time
       [] column = "action" -> r.action
       [] column = "dst_host" -> r.dest
       [] column = "rule" /\ r.internal -> InternalRule
       [] OTHER -> ColumnsOf[r.dest][column]]

Views == INSTANCE ConnectionViews WITH table <- {Stored(r) : r \in ToSet(stored)}

-----------------------------------------------------------------------------
EventsTabNext ==
  \/ \E a \in Actions, d \in Dests, internal \in BOOLEAN : Store(a, d, internal)
  \/ Purge
  \/ OnStatsUpdated
  \/ \E to \in {"events", "other"} : OnTabChanged(to)
  \/ \E lim \in Limits : OnLimitComboChanged(lim)
  \/ OnFreezeLogsToggled
  \/ \E x \in FilterTexts \cup {""} : OnFilterTextChanged(x)
  \/ \E a \in Actions \cup {""} : OnActionComboChanged(a)
  \/ \E column \in Columns : ClickHeader(column)
  \/ \E d \in DOMAIN view.visible : ClickRow(d)

EventsTabSpec == EventsTabInit /\ [][EventsTabNext]_eventsTabVars

-----------------------------------------------------------------------------
(* Properties.                                                             *)

\* While the events tab is in front its table shows exactly the rows it holds
\* that match the filter line and the action combo, each once, whatever was
\* typed while other tabs were in front, and however the rows are sorted.
ShownAreMatching ==
  tab = "events" =>
    /\ Len(view.visible) = Cardinality(ToSet(view.visible))
    /\ ToSet(view.visible) =
         {i \in DOMAIN model : Matching(model[i], actionChoice, filterText)}

\* The state has its types, what is shown is what matches, and no row is
\* selected or shown that is not there, on any tab.
EventsTabSafe ==
  /\ EventsTabTypeOK
  /\ ShownAreMatching
  /\ view.current <= Len(view.visible)
  /\ ToSet(view.visible) \subseteq DOMAIN model

\* The rows are in the order of the column sorted by as far as the view knows
\* the keys: after a refresh, a click on a header or a narrower filter.  (A
\* wider filter brings rows back whose keys were never taken.)
ShownAreSorted ==
  view.sort # "none" /\ ToSet(view.visible) \subseteq keyed =>
    \A d \in 1 .. Len(view.visible) - 1 :
      LET a == model[view.visible[d]]
          b == model[view.visible[d + 1]]
          x == KeyOf(IF view.ascending THEN a ELSE b, view.sort)
          y == KeyOf(IF view.ascending THEN b ELSE a, view.sort)
      IN IF x.isNumber /\ y.isNumber THEN x.number <= y.number ELSE x.place <= y.place

\* How two destinations compare, and that all of them do so as a strict weak
\* ordering: the texts between two numbers, if any, agree with the numbers.
Below(d, e) ==
  IF {d, e} \subseteq Numeric THEN Number[d] < Number[e] ELSE Collation[d] < Collation[e]
Consistent ==
  \A d, e, f \in Dests : ~Below(d, e) /\ ~Below(e, f) => ~Below(d, f)

\* What the tab shows can be found elsewhere.  Once it is up to date every row it
\* shows is in the file that Save writes (main_window.cpp:3990-4050), and an event
\* that is not beyond the limit is in the details of its host, program, ... as
\* what it was: the seven queries group, limit and hide rows each in its own way
\* (main_window.cpp:1608-3246).  They read nothing but the table, so it is enough
\* to look at the states in which nothing but storing has happened yet.
EventsAreFound ==
  /\ tab = "events" /\ model = Fetched(limit) =>
       {model[i] : i \in ToSet(view.visible)} \subseteq Saved
  /\ events = Len(stored) => \A i \in 1 .. Smaller(limit, Len(stored)) :
       ~stored[i].internal => Views!FoundInDetails(Stored(stored[i]), limit)

\* A refresh with new rows above, old ones gone, other filters or an order of
\* the user's keeps the selected event selected if it is still shown.
SelectionKept ==
  [][model' # model /\ view.current # 0 =>
       LET chosen == model[SelectedModelRow(view)]
       IN (\E i \in ToSet(view'.visible) : model'[i] = chosen) =>
            model'[SelectedModelRow(view')] = chosen]_eventsTabVars
=============================================================================
