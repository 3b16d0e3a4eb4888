----------------------------- MODULE Statistics -----------------------------
(***************************************************************************)
(* How the daemons' statistics get into the database                       *)
(* (src/src/ui_controller.cpp, src/src/database.cpp).                      *)
(*                                                                         *)
(* A daemon logs events, counts them and pings with both: the last events  *)
(* and the counters since it started.  The GUI thread handles one ping at  *)
(* a time; populateStats() is one action, in which any statement may fail. *)
(* An event is known by its place in its daemon's log (its unixnano).      *)
(***************************************************************************)
EXTENDS Naturals, Sequences, FiniteSets

CONSTANTS Peers,       \* addresses of the daemons
          Conns,       \* connections: the columns of the UNIQUE constraint but node and arguments
          ArgsOf,      \* ArgsOf[c]: the process arguments the daemon reports
          Kinds,       \* the tables of details: hosts, procs, addrs, ports, users
          WhatOf,      \* WhatOf[c][k]: the row of table k that connection c counts for
          NoArgs, NoCount,
          MaxLog,      \* bound: events all daemons log together
          MaxPings,    \* bound: pings the GUI thread has not handled
          MaxMishaps   \* bound: failures, restarts, prompted connections, clicks

Details == {<<k, WhatOf[c][k]>> : k \in Kinds, c \in Conns}     \* table and key
Args == {NoArgs} \cup {ArgsOf[c] : c \in Conns}

ASSUME DetailsAssumption ==
  /\ \A c \in Conns : DOMAIN WhatOf[c] = Kinds
  /\ NoCount \notin Nat
ASSUME LimitsAssumption == MaxLog \in Nat /\ MaxPings \in Nat \ {0} /\ MaxMishaps \in Nat

Row == [node : Peers, conn : Conns, args : Args]
Tables == [nodes : [Peers -> Nat \cup {NoCount}],
           connections : SUBSET Row,
           hits : [Details -> Nat]]     \* 0: no row
Ping == [node : Peers, from : Nat, upto : Nat, base : Nat]

VARIABLES
  log,     \* the connections each daemon logged, over all its runs
  base,    \* how many of them it had logged before its present run
  window,  \* the first event its next ping may carry
  pings,   \* PingStats events that wait for the GUI thread
  seen,    \* m_lastStats: the events of the last ping
  items,   \* m_lastItems: the counters as last seen; 0: none
  dbtype,  \* database/type: "memory" or "file"
  db,      \* the tables as the UI's own connection reads them
  disk,    \* the tables as they are committed
  open,    \* a transaction is open between two handlers
  taken,   \* history: the events populateStats() inserted since the UI started
  lost,    \* history: rows and counters that failed or were removed
  mishaps

daemons == <<log, base, window>>
caches == <<seen, items>>
store == <<dbtype, db, disk, open>>
history == <<taken, lost>>
vars == <<daemons, pings, caches, store, history, mishaps>>

TypeOK ==
  /\ log \in [Peers -> Seq(Conns)]
  /\ base \in [Peers -> Nat] /\ window \in [Peers -> Nat]
  /\ pings \in Seq(Ping)
  /\ seen \in [Peers -> SUBSET Nat]
  /\ items \in [Peers -> [Details -> Nat]]
  /\ dbtype \in {"memory", "file"} /\ db \in Tables /\ disk \in Tables /\ open \in BOOLEAN
  /\ taken \in [Peers -> SUBSET Nat]
  /\ lost \in [rows : SUBSET Row, hits : SUBSET Details]
  /\ mishaps \in 0 .. MaxMishaps

NoTables ==
  [nodes |-> [n \in Peers |-> NoCount],
   connections |-> {},
   hits |-> [d \in Details |-> 0]]
NoItems == [n \in Peers |-> [d \in Details |-> 0]]
NoEvents == [n \in Peers |-> {}]
NothingLost == [rows |-> {}, hits |-> {}]

\* main() opens the database.  RestartUI leads to one that is not empty.
Init ==
  /\ log = [n \in Peers |-> <<>>]
  /\ base = [n \in Peers |-> 0] /\ window = [n \in Peers |-> 1]
  /\ pings = <<>>
  /\ seen = NoEvents /\ items = NoItems
  /\ dbtype \in {"memory", "file"} /\ db = NoTables /\ disk = NoTables /\ open = FALSE
  /\ taken = NoEvents /\ lost = NothingLost
  /\ mishaps = 0

Mishap == mishaps < MaxMishaps /\ mishaps' = mishaps + 1
NoMishap == UNCHANGED mishaps

-----------------------------------------------------------------------------
(* The daemons (external).                                                 *)

Log(n, c) ==
  /\ Cardinality(UNION {{m} \X DOMAIN log[m] : m \in Peers}) < MaxLog
  /\ log' = [log EXCEPT ![n] = Append(@, c)]
  /\ UNCHANGED <<base, window, pings, caches, store, history, mishaps>>

\* A ping carries the last events, none of them older than what the ping
\* before it could carry; whether events are sent again is left open.  A ping
\* that is lost is one that was never sent.
SendPing(n) ==
  /\ Len(pings) < MaxPings
  /\ \E i \in window[n] .. Len(log[n]) + 1 :
       /\ window' = [window EXCEPT ![n] = i]
       /\ pings' = Append(pings, [node |-> n, from |-> i, upto |-> Len(log[n]), base |-> base[n]])
  /\ UNCHANGED <<log, base, caches, store, history, mishaps>>

RestartDaemon(n) ==
  /\ Mishap
  /\ base' = [base EXCEPT ![n] = Len(log[n])]
  /\ window' = [window EXCEPT ![n] = Len(log[n]) + 1]
  /\ UNCHANGED <<log, pings, caches, store, history>>

-----------------------------------------------------------------------------
(* populateStats().                                                        *)

Events(p) == p.from .. p.upto

Fresh_StopsAtSeen(p) == {i \in Events(p) : \A j \in p.from .. i : j \notin seen[p.node]}

\* The events that are not in the dedup list of their address.
Fresh(p) == Events(p) \ seen[p.node]

EventRow(n, i) == [node |-> n, conn |-> log[n][i], args |-> ArgsOf[log[n][i]]]

\* by_host, by_executable, ...: absent if 0.
Count(p, d) == Cardinality({i \in p.base + 1 .. p.upto : WhatOf[log[p.node][i]][d[1]] = d[2]})

Changed(p) == {d \in Details : Count(p, d) \notin {0, items[p.node][d]}}

NeedRefresh_EventsOnly(p) == Fresh(p) # {}
NeedRefresh(p) == Fresh(p) # {} \/ Changed(p) # {}

\* Which statements succeed; insertBatch() gives up at its first failure.
Statements(p) == [node : BOOLEAN, events : SUBSET Fresh(p), hits : SUBSET Changed(p)]

AllDone_ForgetsDetails(p, done) == done.node /\ done.events = Fresh(p)
AllDone(p, done) == done.node /\ done.events = Fresh(p) /\ done.hits = Changed(p)

\* INSERT OR REPLACE for the node and the details, OR IGNORE for the events.
Written(t, p, done) ==
  [nodes |-> IF done.node THEN [t.nodes EXCEPT ![p.node] = p.upto - p.base] ELSE t.nodes,
   connections |-> t.connections \cup {EventRow(p.node, i) : i \in done.events},
   hits |-> [d \in Details |-> IF d \in done.hits THEN Count(p, d) ELSE t.hits[d]]]

\* purgeOldConnectionsIfNeeded(): which rows go depends on their age and on
\* the size of the database, so any may.
Purgeable == IF dbtype = "memory" THEN SUBSET db.connections ELSE {{}}

Commit(after) == ~open /\ db' = after /\ disk' = after /\ open' = FALSE
CommitFails(after) ==
  ~open /\ dbtype = "file" /\ db' = after /\ disk' = disk /\ open' = TRUE

\* With journal_mode=OFF what a ROLLBACK leaves is undefined: any part of the
\* batch, and `after' is one.
Rollback(before, after) ==
  /\ ~open
  /\ db' = IF dbtype = "file" THEN before ELSE after
  /\ disk' = db' /\ open' = FALSE

\* BEGIN failed, since a transaction is open already: nobody will end it.
LeaveOpen(after) == open /\ db' = after /\ UNCHANGED <<disk, open>>

Nothing == [node |-> FALSE, events |-> {}, hits |-> {}]

RowsOf(p, es) == {EventRow(p.node, i) : i \in es}

\* What the tables cannot be expected to hold: rows that were purged, and what
\* of the batch was not written or was rolled back.
Losses(p, old, done) ==
  lost' = [rows |-> (lost.rows \cup old \cup RowsOf(p, Fresh(p) \ done.events))
                      \ RowsOf(p, done.events),
           hits |-> (lost.hits \cup Changed(p)) \ done.hits]

Remembered_FreshOnly(p) == Fresh(p)
Remembered(p) == Events(p)

\* A file is rolled back whole whichever statement failed, as if none had been
\* made: one choice of `done' stands for all.
PopulateStats(p) ==
  /\ items' = LET changed == Changed(p)
              IN [items EXCEPT ![p.node] = [d \in Details |->
                    IF d \in changed THEN Count(p, d) ELSE @[d]]]
  /\ seen' = [seen EXCEPT ![p.node] = Remembered(p)]
  /\ taken' = [taken EXCEPT ![p.node] = @ \cup Fresh(p)]
  /\ \E old \in Purgeable, done \in Statements(p) :
       LET before == [db EXCEPT !.connections = @ \ old]
           after == Written(before, p, done)
           whole == AllDone(p, done)
       IN \/ whole /\ Commit(after) /\ Losses(p, old, done)
             /\ IF old = {} THEN NoMishap ELSE Mishap
          \/ whole /\ CommitFails(after) /\ Losses(p, old, done) /\ Mishap
          \/ Mishap /\ ~whole /\ (dbtype = "file" => done = Nothing)
             /\ Rollback(before, after) /\ Losses(p, old, done)
          \/ LeaveOpen(after) /\ Losses(p, old, done)
             /\ IF whole /\ old = {} THEN NoMishap ELSE Mishap
  /\ UNCHANGED dbtype

OnPing ==
  /\ pings # <<>> /\ PopulateStats(Head(pings))
  /\ pings' = Tail(pings)
  /\ UNCHANGED daemons

-----------------------------------------------------------------------------
(* What else writes to these tables.                                       *)

\* A statement of its own is committed at once, unless a transaction is open.
Execute(tables) ==
  /\ db' = tables
  /\ disk' = IF open THEN disk ELSE tables
  /\ UNCHANGED <<dbtype, open>>

\* customEvent() logs the connection that was prompted for, without arguments;
\* a plain INSERT fails if the row is there.
LogPrompted(n, c) ==
  LET row == [node |-> n, conn |-> c, args |-> NoArgs]
  IN /\ Mishap
     /\ Execute([db EXCEPT !.connections = @ \cup {row}])
     /\ lost' = [lost EXCEPT !.rows = @ \ {row}]
     /\ UNCHANGED <<daemons, pings, caches, taken>>

\* The UI ends and starts again: SQLite undoes a transaction that is open.
RestartUI ==
  /\ Mishap
  /\ db' = IF dbtype = "file" THEN disk ELSE NoTables
  /\ disk' = db' /\ open' = FALSE
  /\ pings' = <<>> /\ seen' = NoEvents /\ items' = NoItems
  /\ taken' = NoEvents /\ lost' = NothingLost
  /\ UNCHANGED <<daemons, dbtype>>

Daemons == \E n \in Peers : SendPing(n) \/ RestartDaemon(n) \/ \E c \in Conns : Log(n, c)
Prompts == \E n \in Peers, c \in Conns : LogPrompted(n, c)

-----------------------------------------------------------------------------
(* Properties.                                                             *)

\* A ping was handled; the other step that takes one, a restart, clears the caches.
BatchHandled ==
  pings # <<>> /\ pings' = Tail(pings) /\ <<seen', items'>> # <<NoEvents, NoItems>>

\* An event that the dedup list holds, and that will therefore be skipped when
\* the daemon sends it again, has its row in the table: nothing but a failure
\* or a removal can have kept it out (ui_controller.cpp:530, 682).
SeenIsStored ==
  \A n \in Peers : \A i \in seen[n] : EventRow(n, i) \in db.connections \cup lost.rows

\* The dedup list holds one batch only, and that is enough: a ping, however many
\* of the old events it repeats, never makes populateStats() insert one twice, so
\* that what the user cleaned or the purge removed does not come back.
EventTakenOnce ==
  pings # <<>> => Fresh(Head(pings)) \cap taken[Head(pings).node] = {}

\* A counter that the UI believes to be in its table is: the row, which all
\* daemons share, holds what one of them last said, also after a daemon that
\* starts again counts from zero (ui_controller.cpp:580-597).
HitsAreReported ==
  \A d \in Details :
    LET said == {items[n][d] : n \in Peers} \ {0}
    IN said # {} => db.hits[d] \in said \/ d \in lost.hits

\* What the two caches say about the tables is so.
CachesAgree == SeenIsStored /\ HitsAreReported

\* With a database file a batch is committed as a whole or not at all: no step
\* commits its events without its counters or the other way round.
BatchIsAtomic ==
  [][BatchHandled /\ dbtype = "file" /\ disk' # disk
       => LET p == Head(pings)
          IN /\ \A i \in Fresh(p) : EventRow(p.node, i) \in disk'.connections
             /\ \A d \in Changed(p) : disk'.hits[d] = Count(p, d)
             /\ disk'.nodes[p.node] = p.upto - p.base]_vars
=============================================================================
