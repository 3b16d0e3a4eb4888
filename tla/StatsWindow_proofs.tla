-------------------------- MODULE StatsWindow_proofs --------------------------
(***************************************************************************)
(* Proofs about Statistics and StatsWindow: for every set of daemons,      *)
(* connections and tables, and any number of pings and failures.           *)
(***************************************************************************)
EXTENDS StatsWindow, FiniteSetTheorems, SequenceTheorems, TLAPS

\* A daemon's window moves over its log; what the UI remembers was logged.
LogInv ==
  \A n \in Peers :
    /\ base[n] <= Len(log[n]) /\ 1 <= window[n] /\ window[n] <= Len(log[n]) + 1
    /\ seen[n] \subseteq 1 .. Len(log[n])

\* A ping that waits speaks of events that were logged, none of them after its window.
PingFits(p) ==
  /\ 1 <= p.from /\ p.from <= window[p.node]
  /\ p.base <= p.upto /\ p.upto <= Len(log[p.node])
PingsInv == \A j \in 1 .. Len(pings) : PingFits(pings[j])

\* The pings of one daemon are handled in the order of its log.
OrderInv ==
  \A i, j \in 1 .. Len(pings) :
    i < j /\ pings[i].node = pings[j].node =>
      pings[i].from <= pings[j].from /\ pings[i].upto <= pings[j].upto

\* Of the events taken, those that a ping may repeat are in the dedup list, although
\* it holds one batch only; this goes for the pings that wait and for the next one.
Covers(n, from, upto) ==
  \A i \in taken[n] : i <= upto /\ (from <= i => i \in seen[n])
TakenInv ==
  /\ \A n \in Peers : Covers(n, window[n], Len(log[n]))
  /\ \A j \in 1 .. Len(pings) : Covers(pings[j].node, pings[j].from, pings[j].upto)

\* Between transactions what is read is what is committed.
StoreInv == ~open => disk = db

StatInv ==
  /\ TypeOK /\ LogInv /\ PingsInv /\ OrderInv /\ TakenInv /\ StoreInv
  /\ SeenIsStored /\ HitsAreReported
IInv == StatInv /\ WindowTypeOK
-----------------------------------------------------------------------------
(* What a ping, and handling it, means.                                     *)

LEMMA HeadPing ==
  ASSUME TypeOK, PingsInv, pings # <<>>
  PROVE  /\ Len(pings) \in Nat /\ 1 \in 1 .. Len(pings)
         /\ Head(pings) = pings[1] /\ Head(pings) \in Ping /\ PingFits(Head(pings))
         /\ Tail(pings) \in Seq(Ping) /\ Len(Tail(pings)) = Len(pings) - 1
         /\ \A j \in 1 .. Len(Tail(pings)) :
              Tail(pings)[j] = pings[j + 1] /\ j + 1 \in 1 .. Len(pings)
<1>1. pings \in Seq(Ping)
  BY DEF TypeOK
<1>2. /\ Len(pings) \in Nat /\ 1 \in 1 .. Len(pings) /\ Head(pings) = pings[1]
      /\ Head(pings) \in Ping
  BY <1>1
<1>3. PingFits(Head(pings))
  BY <1>2 DEF PingsInv
<1>4. /\ Tail(pings) \in Seq(Ping) /\ Len(Tail(pings)) = Len(pings) - 1
      /\ \A j \in 1 .. Len(Tail(pings)) : Tail(pings)[j] = pings[j + 1]
  BY <1>1
<1>5. \A j \in 1 .. Len(Tail(pings)) : j + 1 \in 1 .. Len(pings)
  BY <1>2, <1>4
<1> QED
  BY <1>2, <1>3, <1>4, <1>5

LEMMA PingFields ==
  ASSUME NEW p \in Ping
  PROVE  p.node \in Peers /\ p.from \in Nat /\ p.upto \in Nat /\ p.base \in Nat
BY DEF Ping

LEMMA LogTypes ==
  ASSUME TypeOK, NEW n \in Peers
  PROVE  /\ log[n] \in Seq(Conns) /\ Len(log[n]) \in Nat
         /\ base[n] \in Nat /\ window[n] \in Nat
         /\ seen[n] \in SUBSET Nat /\ taken[n] \in SUBSET Nat
BY DEF TypeOK

LEMMA RowType ==
  ASSUME TypeOK, NEW n \in Peers, NEW i \in 1 .. Len(log[n])
  PROVE  EventRow(n, i) \in Row
<1>1. log[n][i] \in Conns
  BY LogTypes
<1>2. ArgsOf[log[n][i]] \in Args
  BY <1>1 DEF Args
<1> QED
  BY <1>1, <1>2 DEF EventRow, Row

LEMMA EventsLogged ==
  ASSUME TypeOK, NEW p \in Ping, PingFits(p)
  PROVE  /\ Events(p) \subseteq 1 .. Len(log[p.node]) /\ Events(p) \subseteq Nat
         /\ Fresh(p) \subseteq Events(p)
         /\ \A i : i \in Events(p) <=> i \in Nat /\ p.from <= i /\ i <= p.upto
BY PingFields, LogTypes DEF PingFits, Events, Fresh

LEMMA CountType ==
  ASSUME NEW p \in Ping, NEW d
  PROVE  Count(p, d) \in Nat
<1> DEFINE S == {i \in p.base + 1 .. p.upto : WhatOf[log[p.node][i]][d[1]] = d[2]}
<1>1. IsFiniteSet(p.base + 1 .. p.upto)
  <2>1. p.base + 1 \in Int /\ p.upto \in Int
    BY PingFields
  <2> QED
    BY <2>1, FS_Interval
<1>2. IsFiniteSet(S)
  BY <1>1, FS_Subset
<1>3. Cardinality(S) \in Nat
  BY <1>2, FS_CardinalityType
<1> QED
  BY <1>3 DEF Count

\* INSERT OR IGNORE, INSERT OR REPLACE.
LEMMA WrittenIs ==
  ASSUME TypeOK, NEW p \in Ping, PingFits(p), NEW t \in Tables, NEW done \in Statements(p)
  PROVE  /\ Written(t, p, done) \in Tables
         /\ Written(t, p, done).connections = t.connections \cup RowsOf(p, done.events)
         /\ \A d \in Details :
              Written(t, p, done).hits[d] = IF d \in done.hits THEN Count(p, d) ELSE t.hits[d]
         /\ Written(t, p, done).nodes
              = IF done.node THEN [t.nodes EXCEPT ![p.node] = p.upto - p.base] ELSE t.nodes
<1>1. /\ done.events \subseteq Fresh(p) /\ done.hits \subseteq Changed(p)
      /\ t.nodes \in [Peers -> Nat \cup {NoCount}] /\ t.connections \subseteq Row
      /\ t.hits \in [Details -> Nat]
  BY DEF Statements, Tables
<1>2. RowsOf(p, done.events) \subseteq Row
  BY <1>1, EventsLogged, RowType, PingFields DEF RowsOf
<1>3. p.upto - p.base \in Nat
  BY PingFields DEF PingFits
<1>4. (IF done.node THEN [t.nodes EXCEPT ![p.node] = p.upto - p.base] ELSE t.nodes)
        \in [Peers -> Nat \cup {NoCount}]
  BY <1>1, <1>3
<1>5. [d \in Details |-> IF d \in done.hits THEN Count(p, d) ELSE t.hits[d]] \in [Details -> Nat]
  BY <1>1, CountType
<1>6. t.connections \cup RowsOf(p, done.events) \in SUBSET Row
  BY <1>1, <1>2
<1>7. Written(t, p, done) =
        [nodes |-> IF done.node THEN [t.nodes EXCEPT ![p.node] = p.upto - p.base] ELSE t.nodes,
         connections |-> t.connections \cup RowsOf(p, done.events),
         hits |-> [d \in Details |-> IF d \in done.hits THEN Count(p, d) ELSE t.hits[d]]]
  BY DEF Written, RowsOf
<1> QED
  BY <1>4, <1>5, <1>6, <1>7 DEF Tables

\* However populateStats() ends: what it did not write, or what was purged, is
\* accounted as lost.
LEMMA Outcome ==
  ASSUME TypeOK, PingsInv, StoreInv, NEW p \in Ping, PingFits(p), PopulateStats(p)
  PROVE  \E old \in SUBSET db.connections, done \in Statements(p) :
           /\ db' \in Tables /\ disk' \in Tables /\ open' \in BOOLEAN
           /\ ~open' => disk' = db'
           /\ RowsOf(p, done.events) \subseteq db'.connections
           /\ db.connections \ old \subseteq db'.connections
           /\ db'.connections \subseteq db.connections \cup RowsOf(p, done.events)
           /\ \A d \in Details :
                db'.hits[d] = IF d \in done.hits THEN Count(p, d) ELSE db.hits[d]
           /\ Losses(p, old, done)
           /\ mishaps' \in 0 .. MaxMishaps
<1>1. PICK old \in Purgeable, done \in Statements(p) :
        LET before == [db EXCEPT !.connections = @ \ old]
            after == Written(before, p, done)
            whole == AllDone(p, done)
        IN \/ whole /\ Commit(after) /\ Losses(p, old, done)
              /\ IF old = {} THEN NoMishap ELSE Mishap
           \/ whole /\ CommitFails(after) /\ Losses(p, old, done) /\ Mishap
           \/ Mishap /\ ~whole /\ (dbtype = "file" => done = Nothing)
              /\ Rollback(before, after) /\ Losses(p, old, done)
           \/ LeaveOpen(after) /\ Losses(p, old, done)
              /\ IF whole /\ old = {} THEN NoMishap ELSE Mishap
  BY DEF PopulateStats
<1>2. PICK before : before = [db EXCEPT !.connections = @ \ old]
  OBVIOUS
<1>3. PICK after : after = Written(before, p, done)
  OBVIOUS
<1>4. /\ Losses(p, old, done) /\ (NoMishap \/ Mishap)
      /\ \/ Commit(after) \/ CommitFails(after) \/ LeaveOpen(after)
         \/ Rollback(before, after) /\ (dbtype = "file" => done = Nothing)
  BY <1>1, <1>2, <1>3
<1>5. db \in Tables /\ disk \in Tables /\ open \in BOOLEAN /\ old \in SUBSET db.connections
      /\ (dbtype = "file" => old = {})
  BY DEF TypeOK, Purgeable
<1>6. before \in Tables /\ before.connections = db.connections \ old /\ before.hits = db.hits
  BY <1>2, <1>5 DEF Tables
<1>7. /\ after \in Tables
      /\ after.connections = (db.connections \ old) \cup RowsOf(p, done.events)
      /\ \A d \in Details :
           after.hits[d] = IF d \in done.hits THEN Count(p, d) ELSE db.hits[d]
  <2>1. ASSUME NEW t \in Tables
        PROVE  /\ Written(t, p, done) \in Tables
               /\ Written(t, p, done).connections = t.connections \cup RowsOf(p, done.events)
               /\ \A d \in Details :
                    Written(t, p, done).hits[d] = IF d \in done.hits THEN Count(p, d) ELSE t.hits[d]
    BY WrittenIs, ZenonT(30)
  <2> QED
    BY <1>3, <1>6, <2>1
<1>8. mishaps' \in 0 .. MaxMishaps
  BY <1>4, LimitsAssumption DEF NoMishap, Mishap, TypeOK
<1>9. CASE Commit(after) \/ CommitFails(after) \/ LeaveOpen(after)
  <2>1. db' = after /\ disk' \in Tables /\ open' \in BOOLEAN /\ (~open' => disk' = db')
    BY <1>5, <1>7, <1>9 DEF Commit, CommitFails, LeaveOpen
  <2>2. /\ RowsOf(p, done.events) \subseteq db'.connections
        /\ db.connections \ old \subseteq db'.connections
        /\ db'.connections \subseteq db.connections \cup RowsOf(p, done.events)
    BY <1>7, <2>1
  <2> QED
    BY <1>4, <1>5, <1>7, <1>8, <2>1, <2>2
<1>10. CASE Rollback(before, after) /\ (dbtype = "file" => done = Nothing)
  <2>1. /\ db' = (IF dbtype = "file" THEN before ELSE after)
        /\ disk' = db' /\ open' = FALSE
    BY <1>10 DEF Rollback
  <2>2. db' \in Tables
    BY <1>6, <1>7, <2>1
  <2>3. CASE dbtype = "file"
    <3>1. done.events = {} /\ done.hits = {} /\ RowsOf(p, done.events) = {}
      BY <1>10, <2>3 DEF Nothing, RowsOf
    <3> QED
      BY <1>4, <1>5, <1>6, <1>8, <2>1, <2>2, <2>3, <3>1
  <2>4. CASE dbtype # "file"
    <3>1. /\ RowsOf(p, done.events) \subseteq db'.connections
          /\ db.connections \ old \subseteq db'.connections
          /\ db'.connections \subseteq db.connections \cup RowsOf(p, done.events)
      BY <1>7, <2>1, <2>4
    <3> QED
      BY <1>4, <1>5, <1>7, <1>8, <2>1, <2>2, <2>4, <3>1
  <2> QED
    BY <2>3, <2>4
<1> QED
  BY <1>4, <1>9, <1>10
-----------------------------------------------------------------------------
(* Each action keeps the invariant of the statistics.                       *)

LEMMA InitKeeps ==
  ASSUME Init
  PROVE  StatInv
<1>1. NoTables \in Tables
  BY DEF NoTables, Tables
<1>2. TypeOK
  <2>1. log \in [Peers -> Seq(Conns)] /\ pings \in Seq(Ping)
    BY DEF Init
  <2>2. lost \in [rows : SUBSET Row, hits : SUBSET Details] /\ mishaps \in 0 .. MaxMishaps
    BY LimitsAssumption DEF Init, NothingLost
  <2>3. /\ base \in [Peers -> Nat] /\ window \in [Peers -> Nat]
        /\ seen \in [Peers -> SUBSET Nat] /\ items \in [Peers -> [Details -> Nat]]
        /\ taken \in [Peers -> SUBSET Nat]
    BY DEF Init, NoEvents, NoItems
  <2> QED
    BY <1>1, <2>1, <2>2, <2>3 DEF Init, TypeOK
<1>3. LogInv /\ PingsInv /\ OrderInv /\ StoreInv
  BY DEF Init, LogInv, PingsInv, OrderInv, StoreInv, NoEvents
<1>4. TakenInv /\ SeenIsStored
  BY DEF Init, TakenInv, Covers, SeenIsStored, NoEvents
<1>5. HitsAreReported
  BY DEF Init, HitsAreReported, NoItems
<1> QED
  BY <1>2, <1>3, <1>4, <1>5 DEF StatInv

LEMMA OnPingKeeps ==
  ASSUME StatInv, OnPing
  PROVE  StatInv'
<1>1. PICK p : p = Head(pings)
  OBVIOUS
<1>2. /\ TypeOK /\ LogInv /\ PingsInv /\ OrderInv /\ TakenInv /\ StoreInv
      /\ SeenIsStored /\ HitsAreReported
  BY DEF StatInv
<1>3. /\ pings # <<>> /\ pings' = Tail(pings) /\ PopulateStats(p)
      /\ UNCHANGED <<log, base, window, dbtype>>
  BY <1>1 DEF OnPing, PopulateStats, daemons
<1>4. /\ Len(pings) \in Nat /\ 1 \in 1 .. Len(pings) /\ p = pings[1] /\ p \in Ping /\ PingFits(p)
      /\ pings' \in Seq(Ping) /\ Len(pings') = Len(pings) - 1
      /\ \A j \in 1 .. Len(pings') : pings'[j] = pings[j + 1] /\ j + 1 \in 1 .. Len(pings)
  BY <1>1, <1>2, <1>3, HeadPing
<1>5. /\ Events(p) \subseteq 1 .. Len(log[p.node]) /\ Events(p) \subseteq Nat
      /\ Fresh(p) \subseteq Events(p)
      /\ \A i : i \in Events(p) <=> i \in Nat /\ p.from <= i /\ i <= p.upto
  BY <1>2, <1>4, EventsLogged
<1>6. PICK n \in Peers : n = p.node
  BY <1>4, PingFields
<1>7. /\ seen' = [seen EXCEPT ![n] = Events(p)]
      /\ taken' = [taken EXCEPT ![n] = @ \cup Fresh(p)]
      /\ items' = [items EXCEPT ![n] = [d \in Details |->
                     IF d \in Changed(p) THEN Count(p, d) ELSE @[d]]]
  BY <1>3, <1>6 DEF PopulateStats, Remembered
<1>8. /\ seen' \in [Peers -> SUBSET Nat] /\ seen'[n] = Events(p)
      /\ taken' \in [Peers -> SUBSET Nat] /\ taken'[n] = taken[n] \cup Fresh(p)
      /\ \A m \in Peers \ {n} : seen'[m] = seen[m] /\ taken'[m] = taken[m]
  BY <1>2, <1>5, <1>7 DEF TypeOK
<1>9. /\ items' \in [Peers -> [Details -> Nat]]
      /\ \A m \in Peers, d \in Details :
           items'[m][d] = IF m = n /\ d \in Changed(p) THEN Count(p, d) ELSE items[m][d]
  <2>1. items[n] \in [Details -> Nat] /\ items \in [Peers -> [Details -> Nat]]
    BY <1>2 DEF TypeOK
  <2>2. [d \in Details |-> IF d \in Changed(p) THEN Count(p, d) ELSE items[n][d]]
          \in [Details -> Nat]
    BY <1>4, <2>1, CountType
  <2> QED
    BY <1>7, <2>1, <2>2
<1>10. PICK old \in SUBSET db.connections, done \in Statements(p) :
           /\ db' \in Tables /\ disk' \in Tables /\ open' \in BOOLEAN
           /\ ~open' => disk' = db'
           /\ RowsOf(p, done.events) \subseteq db'.connections
           /\ db.connections \ old \subseteq db'.connections
           /\ db'.connections \subseteq db.connections \cup RowsOf(p, done.events)
           /\ \A d \in Details :
                db'.hits[d] = IF d \in done.hits THEN Count(p, d) ELSE db.hits[d]
           /\ Losses(p, old, done)
           /\ mishaps' \in 0 .. MaxMishaps
  BY <1>2, <1>3, <1>4, Outcome
<1>11. done.events \subseteq Fresh(p) /\ done.hits \subseteq Changed(p) /\ Changed(p) \subseteq Details
  BY DEF Statements, Changed
<1>12. lost' = [rows |-> (lost.rows \cup old \cup RowsOf(p, Fresh(p) \ done.events))
                           \ RowsOf(p, done.events),
                hits |-> (lost.hits \cup Changed(p)) \ done.hits]
  BY <1>10 DEF Losses
<1>13. TypeOK'
  <2>1. old \subseteq Row
    BY <1>2, <1>10 DEF TypeOK, Tables
  <2>2. RowsOf(p, Fresh(p) \ done.events) \subseteq Row
    BY <1>2, <1>5, <1>6, RowType DEF RowsOf
  <2>3. lost' \in [rows : SUBSET Row, hits : SUBSET Details]
    BY <1>2, <1>11, <1>12, <2>1, <2>2 DEF TypeOK
  <2> QED
    BY <1>2, <1>3, <1>4, <1>8, <1>9, <1>10, <2>3 DEF TypeOK
<1>14. LogInv'
  BY <1>2, <1>3, <1>5, <1>6, <1>8 DEF LogInv
<1>15. PingsInv'
  BY <1>2, <1>3, <1>4 DEF PingsInv, PingFits
<1>16. OrderInv'
  <2>1. SUFFICES ASSUME NEW i \in 1 .. Len(pings'), NEW j \in 1 .. Len(pings'), i < j,
                        pings'[i].node = pings'[j].node
                 PROVE  pings'[i].from <= pings'[j].from /\ pings'[i].upto <= pings'[j].upto
    BY DEF OrderInv
  <2>2. i + 1 < j + 1
    BY <2>1
  <2> QED
    BY <1>2, <1>4, <2>1, <2>2 DEF OrderInv
<1>17. TakenInv'
  <2> DEFINE CoversThen(m, from, upto) ==
               \A i \in taken'[m] : i <= upto /\ (from <= i => i \in seen'[m])
  <2>1. \A i \in taken[n] : i \in Nat /\ i <= p.upto /\ (p.from <= i => i \in seen[n])
    BY <1>2, <1>4, <1>6, LogTypes DEF TakenInv, Covers
  <2>2. ASSUME NEW from \in Nat, NEW upto \in Nat, p.from <= from, p.upto <= upto
        PROVE  CoversThen(n, from, upto)
    <3>1. SUFFICES ASSUME NEW i \in taken'[n]
                   PROVE  i <= upto /\ (from <= i => i \in seen'[n])
      OBVIOUS
    <3>2. i \in Nat /\ i <= p.upto
      BY <1>5, <1>8, <2>1
    <3>3. i <= upto
      BY <1>4, <2>2, <3>2, PingFields
    <3>4. from <= i => i \in Events(p)
      BY <1>4, <1>5, <2>2, <3>2, PingFields
    <3> QED
      BY <1>8, <3>3, <3>4
  <2>3. ASSUME NEW m \in Peers \ {n}, NEW from, NEW upto, Covers(m, from, upto)
        PROVE  CoversThen(m, from, upto)
    BY <1>8, <2>3 DEF Covers
  <2>4. \A m \in Peers : Covers(m, window[m], Len(log[m]))'
    <3>1. p.from <= window[n] /\ p.upto <= Len(log[n]) /\ window[n] \in Nat /\ Len(log[n]) \in Nat
      BY <1>2, <1>4, <1>6, LogTypes DEF PingFits
    <3>2. CoversThen(n, window[n], Len(log[n]))
      BY <2>2, <3>1
    <3>3. \A m \in Peers : Covers(m, window[m], Len(log[m]))
      BY <1>2 DEF TakenInv
    <3>4. \A m \in Peers : CoversThen(m, window[m], Len(log[m]))
      BY <2>3, <3>2, <3>3
    <3> QED
      BY <1>3, <3>4 DEF Covers
  <2>5. ASSUME NEW j \in 1 .. Len(pings')
        PROVE  CoversThen(pings'[j].node, pings'[j].from, pings'[j].upto)
    <3>1. PICK q \in Ping : q = pings'[j]
      BY <1>4
    <3>2. q = pings[j + 1] /\ j + 1 \in 1 .. Len(pings) /\ 1 < j + 1
      BY <1>4, <3>1
    <3>3. Covers(q.node, q.from, q.upto)
      BY <1>2, <3>2 DEF TakenInv
    <3>4. CASE q.node = n
      <4>1. p.from <= q.from /\ p.upto <= q.upto
        BY <1>2, <1>4, <1>6, <3>2, <3>4 DEF OrderInv
      <4> QED
        BY <2>2, <3>1, <3>4, <4>1, PingFields
    <3>5. CASE q.node # n
      BY <2>3, <3>1, <3>3, <3>5, PingFields
    <3> QED
      BY <3>4, <3>5
  <2>6. \A j \in 1 .. Len(pings)' : Covers(pings[j].node, pings[j].from, pings[j].upto)'
    BY <2>5 DEF Covers
  <2> QED
    BY <2>4, <2>6 DEF TakenInv
<1>18. StoreInv'
  BY <1>10 DEF StoreInv
<1>19. SeenIsStored'
  <2>1. ASSUME NEW m \in Peers, NEW i \in seen'[m]
        PROVE  EventRow(m, i)' \in (db.connections)' \cup (lost.rows)'
    <3>1. EventRow(m, i)' = EventRow(m, i)
      BY <1>3 DEF EventRow
    <3>2. PICK r : r = EventRow(m, i)
      OBVIOUS
    <3>3. CASE r \in db.connections \cup lost.rows
      BY <1>10, <1>12, <3>1, <3>2, <3>3
    <3>4. CASE m = n /\ i \in Fresh(p)
      <4>1. r \in RowsOf(p, done.events) \/ r \in RowsOf(p, Fresh(p) \ done.events)
        BY <1>6, <3>2, <3>4 DEF RowsOf
      <4> QED
        BY <1>10, <1>12, <3>1, <3>2, <4>1
    <3>5. r \in db.connections \cup lost.rows \/ (m = n /\ i \in Fresh(p))
      <4>1. i \in seen[m] \/ (m = n /\ i \in Events(p) \ seen[n])
        BY <1>8, <2>1
      <4> QED
        BY <1>2, <1>6, <3>2, <4>1 DEF SeenIsStored, Fresh
    <3> QED
      BY <3>3, <3>4, <3>5
  <2> QED
    BY <2>1 DEF SeenIsStored
<1>20. HitsAreReported'
  <2>1. ASSUME NEW d \in Details, {items'[m][d] : m \in Peers} \ {0} # {}
        PROVE  db'.hits[d] \in {items'[m][d] : m \in Peers} \ {0} \/ d \in lost'.hits
    <3>1. CASE d \in done.hits
      <4>1. db'.hits[d] = Count(p, d) /\ items'[n][d] = Count(p, d) /\ Count(p, d) # 0
        BY <1>9, <1>10, <1>11, <2>1, <3>1 DEF Changed
      <4> QED
        BY <4>1
    <3>2. CASE d \in Changed(p) /\ d \notin done.hits
      BY <1>12, <3>2
    <3>3. CASE d \notin Changed(p)
      <4>1. d \notin done.hits /\ db'.hits[d] = db.hits[d] /\ (d \in lost.hits => d \in lost'.hits)
        BY <1>10, <1>11, <1>12, <2>1, <3>3
      <4>2. {items'[m][d] : m \in Peers} = {items[m][d] : m \in Peers}
        BY <1>9, <2>1, <3>3
      <4> QED
        BY <1>2, <2>1, <4>1, <4>2 DEF HitsAreReported
    <3> QED
      BY <3>1, <3>2, <3>3
  <2> QED
    BY <2>1 DEF HitsAreReported
<1> QED
  BY <1>13, <1>14, <1>15, <1>16, <1>17, <1>18, <1>19, <1>20 DEF StatInv

LEMMA LogKeeps ==
  ASSUME StatInv, NEW n \in Peers, NEW c \in Conns, Log(n, c)
  PROVE  StatInv'
<1>1. /\ log' = [log EXCEPT ![n] = Append(@, c)]
      /\ UNCHANGED <<base, window, pings, caches, store, history, mishaps>>
  BY DEF Log
<1>2. /\ TypeOK /\ LogInv /\ PingsInv /\ OrderInv /\ TakenInv /\ StoreInv
      /\ SeenIsStored /\ HitsAreReported
  BY DEF StatInv
<1>3. /\ log' \in [Peers -> Seq(Conns)]
      /\ \A m \in Peers :
           /\ Len(log[m]) \in Nat /\ Len(log'[m]) \in Nat /\ Len(log[m]) <= Len(log'[m])
           /\ \A i \in 1 .. Len(log[m]) : log'[m][i] = log[m][i]
  <2>1. log \in [Peers -> Seq(Conns)]
    BY <1>2 DEF TypeOK
  <2>2. Append(log[n], c) \in Seq(Conns) /\ Len(Append(log[n], c)) = Len(log[n]) + 1
        /\ \A i \in 1 .. Len(log[n]) : Append(log[n], c)[i] = log[n][i]
    BY <2>1
  <2>3. \A m \in Peers : log'[m] = IF m = n THEN Append(log[n], c) ELSE log[m]
    BY <1>1, <2>1
  <2>4. log' \in [Peers -> Seq(Conns)]
    BY <1>1, <2>1, <2>2
  <2> QED
    BY <2>1, <2>2, <2>3, <2>4
<1>4. TypeOK'
  BY <1>1, <1>2, <1>3 DEF TypeOK, caches, store, history
<1>5. LogInv'
  BY <1>1, <1>2, <1>3, LogTypes DEF LogInv, caches
<1>6. PingsInv' /\ OrderInv'
  <2>1. \A j \in 1 .. Len(pings) : pings[j] \in Ping
    BY <1>2 DEF TypeOK
  <2>2. ASSUME NEW p \in Ping, PingFits(p)
        PROVE  PingFits(p)'
    BY <1>1, <1>3, <2>2, PingFields DEF PingFits
  <2> QED
    BY <1>1, <1>2, <2>1, <2>2 DEF PingsInv, OrderInv
<1>7. TakenInv'
  <2>1. \A m \in Peers : Covers(m, window[m], Len(log[m]))'
    <3>1. \A m \in Peers : \A i \in taken[m] : i \in Nat
      BY <1>2, LogTypes
    <3> QED
      BY <1>1, <1>2, <1>3, <3>1 DEF TakenInv, Covers, caches, history
  <2> QED
    BY <1>1, <1>2, <2>1 DEF TakenInv, Covers, caches, history
<1>8. SeenIsStored'
  <2>1. ASSUME NEW m \in Peers, NEW i \in seen[m]
        PROVE  EventRow(m, i)' = EventRow(m, i)
    BY <1>2, <1>3 DEF LogInv, EventRow
  <2> QED
    BY <1>1, <1>2, <2>1 DEF SeenIsStored, caches, store, history
<1>9. StoreInv' /\ HitsAreReported'
  BY <1>1, <1>2 DEF StoreInv, HitsAreReported, caches, store, history
<1> QED
  BY <1>4, <1>5, <1>6, <1>7, <1>8, <1>9 DEF StatInv

\* A daemon that leaves its tables alone and only moves its window forward.
LEMMA WindowMoves ==
  ASSUME StatInv, window' \in [Peers -> Nat], base' \in [Peers -> Nat],
         \A n \in Peers : /\ window[n] <= window'[n] /\ window'[n] <= Len(log[n]) + 1
                         /\ base'[n] <= Len(log[n]),
         mishaps' \in 0 .. MaxMishaps,
         UNCHANGED <<log, caches, store, history>>
  PROVE  /\ LogInv' /\ StoreInv' /\ SeenIsStored' /\ HitsAreReported'
         /\ pings' \in Seq(Ping) => TypeOK'
         /\ \A n \in Peers : Covers(n, window'[n], Len(log[n])) /\ Covers(n, window[n], Len(log[n]))'
         /\ \A p \in Ping : PingFits(p) => PingFits(p)'
<1>1. /\ TypeOK /\ LogInv /\ TakenInv /\ StoreInv /\ SeenIsStored /\ HitsAreReported
  BY DEF StatInv
<1>2. \A n \in Peers : window[n] \in Nat /\ window'[n] \in Nat
  BY <1>1, LogTypes
<1>3. LogInv' /\ StoreInv'
  BY <1>1, <1>2 DEF LogInv, StoreInv, caches, store
<1>4. SeenIsStored' /\ HitsAreReported'
  BY <1>1 DEF SeenIsStored, HitsAreReported, EventRow, caches, store, history
<1>5. pings' \in Seq(Ping) => TypeOK'
  BY <1>1 DEF TypeOK, caches, store, history
<1>6. \A n \in Peers : Covers(n, window'[n], Len(log[n]))
  <2>1. \A n \in Peers : \A i \in taken[n] : i \in Nat
    BY <1>1, LogTypes
  <2>2. \A n \in Peers : Covers(n, window[n], Len(log[n]))
    BY <1>1 DEF TakenInv
  <2>3. \A n \in Peers : \A i \in Nat : window'[n] <= i => window[n] <= i
    BY <1>2
  <2> QED
    BY <2>1, <2>2, <2>3 DEF Covers
<1>7. \A n \in Peers : Covers(n, window[n], Len(log[n]))'
  BY <1>6 DEF Covers, caches, history
<1>8. \A p \in Ping : PingFits(p) => PingFits(p)'
  BY <1>2, PingFields DEF PingFits
<1> QED
  BY <1>3, <1>4, <1>5, <1>6, <1>7, <1>8

LEMMA SendPingKeeps ==
  ASSUME StatInv, NEW n \in Peers, SendPing(n)
  PROVE  StatInv'
<1>1. PICK k \in window[n] .. Len(log[n]) + 1 :
        /\ window' = [window EXCEPT ![n] = k]
        /\ pings' = Append(pings, [node |-> n, from |-> k, upto |-> Len(log[n]), base |-> base[n]])
  BY DEF SendPing
<1>2. UNCHANGED <<log, base, caches, store, history, mishaps>>
  BY DEF SendPing
<1>3. /\ TypeOK /\ LogInv /\ PingsInv /\ OrderInv /\ TakenInv
  BY DEF StatInv
<1>4. /\ k \in Nat /\ window[n] <= k /\ window' \in [Peers -> Nat] /\ window'[n] = k
      /\ \A m \in Peers : /\ window[m] \in Nat /\ window[m] <= window'[m]
                         /\ window'[m] <= Len(log[m]) + 1
  <2>1. k \in Nat /\ window[n] <= k /\ k <= Len(log[n]) + 1
    BY <1>1, <1>3, LogTypes
  <2>2. window' \in [Peers -> Nat] /\ \A m \in Peers : window'[m] = IF m = n THEN k ELSE window[m]
    BY <1>1, <1>3, <2>1 DEF TypeOK
  <2>3. \A m \in Peers : window[m] \in Nat /\ window[m] <= Len(log[m]) + 1
    BY <1>3, LogTypes DEF LogInv
  <2>4. \A m \in Peers : window[m] <= window'[m] /\ window'[m] <= Len(log[m]) + 1
    <3>1. ASSUME NEW m \in Peers, m # n
          PROVE  window[m] <= window'[m] /\ window'[m] <= Len(log[m]) + 1
      BY <2>2, <2>3, <3>1
    <3>2. window[n] <= window'[n] /\ window'[n] <= Len(log[n]) + 1
      BY <2>1, <2>2
    <3> QED
      BY <3>1, <3>2
  <2> QED
    BY <2>1, <2>2, <2>3, <2>4
<1>5. PICK q : q = [node |-> n, from |-> k, upto |-> Len(log[n]), base |-> base[n]]
  OBVIOUS
<1>6. /\ q \in Ping /\ q.node = n /\ q.from = k /\ q.upto = Len(log[n]) /\ q.base = base[n]
  BY <1>3, <1>4, <1>5, LogTypes DEF Ping
<1>7. /\ LogInv' /\ StoreInv' /\ SeenIsStored' /\ HitsAreReported'
      /\ pings' \in Seq(Ping) => TypeOK'
      /\ \A m \in Peers : Covers(m, window'[m], Len(log[m])) /\ Covers(m, window[m], Len(log[m]))'
      /\ \A p \in Ping : PingFits(p) => PingFits(p)'
  <2>1. base' \in [Peers -> Nat] /\ mishaps' \in 0 .. MaxMishaps
        /\ \A m \in Peers : base'[m] <= Len(log[m])
    BY <1>2, <1>3 DEF TypeOK, LogInv
  <2> QED
    BY <1>2, <1>4, <2>1, WindowMoves
<1>8. /\ pings \in Seq(Ping) /\ pings' \in Seq(Ping) /\ Len(pings) \in Nat
      /\ Len(pings') = Len(pings) + 1 /\ pings'[Len(pings')] = q
      /\ \A j \in 1 .. Len(pings) : pings'[j] = pings[j] /\ pings[j] \in Ping
  BY <1>1, <1>3, <1>5, <1>6 DEF TypeOK
<1>9. \A j \in 1 .. Len(pings') : j \in 1 .. Len(pings) \/ j = Len(pings')
  BY <1>8
<1>10. PingsInv'
  <2>1. PingFits(q)'
    BY <1>2, <1>3, <1>4, <1>6, LogTypes DEF PingFits, LogInv
  <2>2. ASSUME NEW j \in 1 .. Len(pings)'
        PROVE  PingFits(pings[j])'
    <3>1. CASE j \in 1 .. Len(pings)
      <4>1. PICK p \in Ping : p = pings[j]
        BY <1>8, <3>1
      <4>2. PingFits(p)' /\ pings'[j] = p
        BY <1>3, <1>7, <1>8, <3>1, <4>1 DEF PingsInv
      <4> QED
        BY <4>2 DEF PingFits
    <3>2. CASE j = Len(pings')
      BY <1>8, <2>1, <3>2 DEF PingFits
    <3> QED
      BY <1>9, <3>1, <3>2
  <2> QED
    BY <2>2 DEF PingsInv
<1>11. OrderInv'
  <2>1. SUFFICES ASSUME NEW i \in 1 .. Len(pings'), NEW j \in 1 .. Len(pings'), i < j,
                        pings'[i].node = pings'[j].node
                 PROVE  pings'[i].from <= pings'[j].from /\ pings'[i].upto <= pings'[j].upto
    BY DEF OrderInv
  <2>2. i \in 1 .. Len(pings)
    BY <1>8, <2>1
  <2>3. CASE j \in 1 .. Len(pings)
    BY <1>3, <1>8, <2>1, <2>2, <2>3 DEF OrderInv
  <2>4. CASE j = Len(pings')
    <3>1. PICK p \in Ping : p = pings[i]
      BY <1>8, <2>2
    <3>2. PingFits(p) /\ p.node = n /\ p = pings'[i]
      BY <1>3, <1>6, <1>8, <2>1, <2>2, <2>4, <3>1 DEF PingsInv
    <3>3. p.from <= k /\ p.upto <= Len(log[n])
      BY <1>4, <3>2, PingFields DEF PingFits
    <3> QED
      BY <1>6, <1>8, <2>4, <3>2, <3>3
  <2> QED
    BY <1>9, <2>3, <2>4
<1>12. TakenInv'
  <2>1. ASSUME NEW j \in 1 .. Len(pings')
        PROVE  Covers(pings'[j].node, pings'[j].from, pings'[j].upto)
    <3>1. CASE j \in 1 .. Len(pings)
      BY <1>3, <1>8, <3>1 DEF TakenInv
    <3>2. CASE j = Len(pings')
      BY <1>4, <1>6, <1>7, <1>8, <3>2
    <3> QED
      BY <1>9, <3>1, <3>2
  <2>2. \A j \in 1 .. Len(pings)' : Covers(pings[j].node, pings[j].from, pings[j].upto)'
    BY <1>2, <2>1 DEF Covers, caches, history
  <2> QED
    BY <1>7, <2>2 DEF TakenInv
<1> QED
  BY <1>7, <1>8, <1>10, <1>11, <1>12 DEF StatInv

LEMMA RestartDaemonKeeps ==
  ASSUME StatInv, NEW n \in Peers, RestartDaemon(n)
  PROVE  StatInv'
<1>1. /\ base' = [base EXCEPT ![n] = Len(log[n])]
      /\ window' = [window EXCEPT ![n] = Len(log[n]) + 1]
      /\ mishaps' = mishaps + 1 /\ mishaps < MaxMishaps
      /\ UNCHANGED <<log, pings, caches, store, history>>
  BY DEF RestartDaemon, Mishap
<1>2. /\ TypeOK /\ LogInv /\ PingsInv /\ OrderInv /\ TakenInv /\ mishaps' \in 0 .. MaxMishaps
  BY <1>1, LimitsAssumption DEF StatInv, TypeOK
<1>3. /\ base' \in [Peers -> Nat] /\ base'[n] = Len(log[n])
      /\ \A m \in Peers : base'[m] <= Len(log[m])
  BY <1>1, <1>2, LogTypes DEF TypeOK, LogInv
<1>4. PICK q \in Nat : q = Len(log[n])
  BY <1>2, LogTypes
<1>5. /\ window' \in [Peers -> Nat]
      /\ \A m \in Peers : window[m] <= window'[m] /\ window'[m] <= Len(log[m]) + 1
  BY <1>1, <1>2, <1>4, LogTypes DEF TypeOK, LogInv
<1>6. /\ LogInv' /\ StoreInv' /\ SeenIsStored' /\ HitsAreReported'
      /\ pings' \in Seq(Ping) => TypeOK'
      /\ \A m \in Peers : Covers(m, window[m], Len(log[m]))'
      /\ \A p \in Ping : PingFits(p) => PingFits(p)'
  BY <1>1, <1>2, <1>3, <1>5, WindowMoves
<1>7. pings \in Seq(Ping) /\ pings' = pings
  BY <1>1, <1>2 DEF TypeOK
<1>8. PingsInv' /\ OrderInv' /\ TakenInv'
  <2>1. \A j \in 1 .. Len(pings) : PingFits(pings[j])'
    BY <1>2, <1>6, <1>7 DEF PingsInv
  <2> QED
    BY <1>1, <1>2, <1>6, <2>1 DEF PingsInv, OrderInv, TakenInv, Covers, caches, history
<1> QED
  BY <1>6, <1>7, <1>8 DEF StatInv

\* A statement of its own keeps the accounts if what it removes is lost.
LEMMA ExecuteKeeps ==
  ASSUME StatInv, NEW t \in Tables, Execute(t),
         lost' \in [rows : SUBSET Row, hits : SUBSET Details], mishaps' \in 0 .. MaxMishaps,
         UNCHANGED <<daemons, pings, caches, taken>>,
         db.connections \cup lost.rows \subseteq t.connections \cup lost'.rows,
         \A d \in Details :
           \/ t.hits[d] = db.hits[d] /\ (d \in lost.hits => d \in lost'.hits)
           \/ d \in lost'.hits
  PROVE  StatInv'
<1>1. /\ db' = t /\ disk' = (IF open THEN disk ELSE t) /\ UNCHANGED <<dbtype, open>>
      /\ UNCHANGED <<log, base, window, seen, items, pings, taken>>
  BY DEF Execute, daemons, caches
<1>2. /\ TypeOK /\ LogInv /\ PingsInv /\ OrderInv /\ TakenInv /\ SeenIsStored /\ HitsAreReported
  BY DEF StatInv
<1>3. TypeOK' /\ StoreInv'
  BY <1>1, <1>2 DEF TypeOK, StoreInv
<1>4. LogInv' /\ PingsInv' /\ OrderInv' /\ TakenInv'
  BY <1>1, <1>2 DEF LogInv, PingsInv, PingFits, OrderInv, TakenInv, Covers
<1>5. SeenIsStored'
  <2>1. ASSUME NEW n \in Peers, NEW i \in seen[n]
        PROVE  EventRow(n, i)' \in t.connections \cup lost'.rows
    <3>1. EventRow(n, i)' = EventRow(n, i)
      BY <1>1 DEF EventRow
    <3>2. EventRow(n, i) \in db.connections \cup lost.rows
      BY <1>2 DEF SeenIsStored
    <3> QED
      BY <3>1, <3>2
  <2> QED
    BY <1>1, <2>1 DEF SeenIsStored
<1>6. HitsAreReported'
  <2>1. ASSUME NEW d \in Details, {items[n][d] : n \in Peers} \ {0} # {}
        PROVE  t.hits[d] \in {items[n][d] : n \in Peers} \ {0} \/ d \in lost'.hits
    BY <1>2, <2>1 DEF HitsAreReported
  <2> QED
    BY <1>1, <2>1 DEF HitsAreReported
<1> QED
  BY <1>3, <1>4, <1>5, <1>6 DEF StatInv

LEMMA LogPromptedKeeps ==
  ASSUME StatInv, NEW n \in Peers, NEW c \in Conns, LogPrompted(n, c)
  PROVE  StatInv'
<1>1. PICK row : row = [node |-> n, conn |-> c, args |-> NoArgs]
  OBVIOUS
<1>2. PICK t : t = [db EXCEPT !.connections = @ \cup {row}]
  OBVIOUS
<1>3. /\ Execute(t) /\ lost' = [lost EXCEPT !.rows = @ \ {row}] /\ Mishap
      /\ UNCHANGED <<daemons, pings, caches, taken>>
  BY <1>1, <1>2 DEF LogPrompted
<1>4. row \in Row /\ TypeOK
  BY <1>1 DEF Row, Args, StatInv
<1>5. /\ t \in Tables /\ t.connections = db.connections \cup {row} /\ t.hits = db.hits
  BY <1>2, <1>4 DEF TypeOK, Tables
<1>6. /\ lost' \in [rows : SUBSET Row, hits : SUBSET Details]
      /\ lost'.rows = lost.rows \ {row} /\ lost'.hits = lost.hits
  BY <1>3, <1>4 DEF TypeOK
<1>7. mishaps' \in 0 .. MaxMishaps
  BY <1>3, <1>4, LimitsAssumption DEF TypeOK, Mishap
<1>8. /\ db.connections \cup lost.rows \subseteq t.connections \cup lost'.rows
      /\ \A d \in Details : t.hits[d] = db.hits[d] /\ (d \in lost.hits => d \in lost'.hits)
  BY <1>5, <1>6
<1> QED
  BY <1>3, <1>5, <1>6, <1>7, <1>8, ExecuteKeeps

LEMMA RestartUIKeeps ==
  ASSUME StatInv, RestartUI
  PROVE  StatInv'
<1>1. /\ db' = (IF dbtype = "file" THEN disk ELSE NoTables)
      /\ disk' = db' /\ open' = FALSE
      /\ pings' = <<>> /\ seen' = NoEvents /\ items' = NoItems
      /\ taken' = NoEvents /\ lost' = NothingLost /\ Mishap
      /\ UNCHANGED <<log, base, window, dbtype>>
  BY DEF RestartUI, daemons
<1>2. /\ TypeOK /\ LogInv
  BY DEF StatInv
<1>3. TypeOK'
  <2>1. db' \in Tables /\ disk' \in Tables
    BY <1>1, <1>2 DEF TypeOK, NoTables, Tables
  <2>2. lost' \in [rows : SUBSET Row, hits : SUBSET Details] /\ mishaps' \in 0 .. MaxMishaps
    BY <1>1, <1>2, LimitsAssumption DEF NothingLost, Mishap, TypeOK
  <2>3. /\ seen' \in [Peers -> SUBSET Nat] /\ items' \in [Peers -> [Details -> Nat]]
        /\ taken' \in [Peers -> SUBSET Nat] /\ pings' \in Seq(Ping)
    BY <1>1 DEF NoEvents, NoItems
  <2> QED
    BY <1>1, <1>2, <2>1, <2>2, <2>3 DEF TypeOK
<1>4. LogInv' /\ PingsInv' /\ OrderInv' /\ StoreInv'
  BY <1>1, <1>2 DEF LogInv, PingsInv, OrderInv, StoreInv, NoEvents
<1>5. TakenInv' /\ SeenIsStored'
  BY <1>1 DEF TakenInv, Covers, SeenIsStored, NoEvents
<1>6. HitsAreReported'
  BY <1>1 DEF HitsAreReported, NoItems
<1> QED
  BY <1>3, <1>4, <1>5, <1>6 DEF StatInv

\* The Clean button.
LEMMA CleanedIs ==
  ASSUME NEW t \in Tables, NEW kind, NEW what
  PROVE  /\ Cleaned(t, kind, what) \in Tables
         /\ Cleaned(t, kind, what).connections \subseteq t.connections
<1>1. /\ t.nodes \in [Peers -> Nat \cup {NoCount}] /\ t.connections \subseteq Row
      /\ t.hits \in [Details -> Nat] /\ NoTables.nodes \in [Peers -> Nat \cup {NoCount}]
  BY DEF Tables, NoTables
<1>2. CASE kind = "events"
  <2>1. Cleaned(t, kind, what) = [t EXCEPT !.connections = {}]
    BY <1>2 DEF Cleaned
  <2> QED
    BY <2>1 DEF Tables
<1>3. CASE kind = "nodes" /\ what = Overview
  <2>1. Cleaned(t, kind, what) = [t EXCEPT !.nodes = NoTables.nodes]
    BY <1>3 DEF Cleaned
  <2> QED
    BY <1>1, <2>1 DEF Tables
<1>4. CASE ~(kind = "events") /\ ~(kind = "nodes" /\ what = Overview)
  <2>1. PICK h : h = [d \in Details |->
                        IF d[1] = kind /\ what \in {Overview, d[2]} THEN 0 ELSE t.hits[d]]
    OBVIOUS
  <2>2. PICK rows : rows = {r \in t.connections : what # Overview => ~Matches(r, kind, what)}
    OBVIOUS
  <2>3. Cleaned(t, kind, what) = [nodes |-> t.nodes, connections |-> rows, hits |-> h]
    BY <1>4, <2>1, <2>2 DEF Cleaned
  <2>4. h \in [Details -> Nat] /\ rows \subseteq t.connections
    BY <1>1, <2>1, <2>2
  <2> QED
    BY <1>1, <2>3, <2>4 DEF Tables
<1> QED
  BY <1>2, <1>3, <1>4

LEMMA CleanKeeps ==
  ASSUME StatInv, Clean
  PROVE  StatInv'
<1>1. PICK t : t = Cleaned(db, tab, detail[tab])
  OBVIOUS
<1>2. /\ Execute(t) /\ Mishap /\ UNCHANGED <<daemons, pings, caches, taken>>
      /\ lost' = [rows |-> lost.rows \cup (db.connections \ db'.connections),
                  hits |-> lost.hits \cup {d \in Details : db.hits[d] # db'.hits[d]}]
  BY <1>1 DEF Clean, UserStep
<1>3. TypeOK
  BY DEF StatInv
<1>4. t \in Tables /\ db' = t
  BY <1>1, <1>2, <1>3, CleanedIs DEF TypeOK, Execute
<1>5. lost' \in [rows : SUBSET Row, hits : SUBSET Details]
  BY <1>2, <1>3 DEF TypeOK, Tables
<1>6. mishaps' \in 0 .. MaxMishaps
  BY <1>2, <1>3, LimitsAssumption DEF TypeOK, Mishap
<1>7. /\ db.connections \cup lost.rows \subseteq t.connections \cup lost'.rows
      /\ \A d \in Details :
           \/ t.hits[d] = db.hits[d] /\ (d \in lost.hits => d \in lost'.hits)
           \/ d \in lost'.hits
  BY <1>2, <1>4
<1> QED
  BY <1>2, <1>4, <1>5, <1>6, <1>7, ExecuteKeeps

LEMMA NoWriteKeeps ==
  ASSUME StatInv, NoWrite, NoMishap \/ Mishap
  PROVE  StatInv'
<1>1. UNCHANGED <<log, base, window, pings, seen, items, taken, dbtype, db, disk, open, lost>>
  BY DEF NoWrite, UserStep, daemons, caches, store
<1>2. TypeOK /\ LogInv /\ PingsInv /\ OrderInv /\ TakenInv /\ StoreInv /\ SeenIsStored
      /\ HitsAreReported
  BY DEF StatInv
<1>3. TypeOK'
  BY <1>1, <1>2, LimitsAssumption DEF TypeOK, NoMishap, Mishap
<1>4. LogInv' /\ PingsInv' /\ OrderInv' /\ TakenInv' /\ StoreInv'
  BY <1>1, <1>2 DEF LogInv, PingsInv, PingFits, OrderInv, TakenInv, Covers, StoreInv
<1>5. SeenIsStored' /\ HitsAreReported'
  BY <1>1, <1>2 DEF SeenIsStored, EventRow, HitsAreReported
<1> QED
  BY <1>3, <1>4, <1>5 DEF StatInv
-----------------------------------------------------------------------------
(* The window.                                                              *)

LEMMA LoadedType ==
  ASSUME NEW t \in Tables, NEW kind \in Tabs, NEW what
  PROVE  Loaded(t, kind, what) \subseteq ScreenRow
<1>1. /\ t.nodes \in [Peers -> Nat \cup {NoCount}] /\ t.connections \subseteq Row
      /\ t.hits \in [Details -> Nat]
  BY DEF Tables
<1>2. Visible(t) \subseteq ScreenRow
  BY <1>1 DEF Visible, ScreenRow
<1>3. NodeRows(t) \subseteq ScreenRow
  <2>1. \A m \in Peers : t.nodes[m] # NoCount =>
           [addr |-> m, cons |-> t.nodes[m]] \in [addr : Peers, cons : Nat]
    BY <1>1
  <2> QED
    BY <2>1 DEF NodeRows, ScreenRow
<1>4. HitRows(t, kind) \subseteq ScreenRow
  <2>1. \A d \in Details : [what |-> d[2], hits |-> t.hits[d]] \in [what : Whats, hits : Nat]
    BY <1>1 DEF Whats
  <2> QED
    BY <2>1 DEF HitRows, ScreenRow
<1>5. \/ Loaded(t, kind, what) = Visible(t)
      \/ Loaded(t, kind, what) = NodeRows(t)
      \/ Loaded(t, kind, what) = HitRows(t, kind)
      \/ Loaded(t, kind, what) \subseteq Visible(t)
  <2>1. CASE kind = "events"
    BY <2>1, WindowAssumption DEF Loaded
  <2>2. CASE kind = "nodes" /\ what = Overview
    BY <2>2, WindowAssumption DEF Loaded
  <2>3. CASE kind \in Kinds /\ what = Overview
    BY <2>3, WindowAssumption DEF Loaded
  <2>4. CASE ~(kind = "events") /\ ~(kind = "nodes" /\ what = Overview)
             /\ ~(kind \in Kinds /\ what = Overview)
    BY <2>4 DEF Loaded
  <2> QED
    BY <2>1, <2>2, <2>3, <2>4
<1> QED
  BY <1>2, <1>3, <1>4, <1>5

LEMMA LoadKeeps ==
  ASSUME db' \in Tables, tab' \in Tabs, ruleRows' \subseteq Row, Load
  PROVE  screen' \subseteq ScreenRow
<1>1. CASE tab' = "rules"
  BY <1>1 DEF Load, ScreenRow
<1>2. CASE tab' # "rules"
  <2>1. PICK t \in Tables : t = db'
    OBVIOUS
  <2>2. PICK kind \in Tabs : kind = tab'
    OBVIOUS
  <2>3. PICK what : what = detail'[tab']
    OBVIOUS
  <2>4. screen' = Loaded(t, kind, what)
    BY <1>2, <2>1, <2>2, <2>3 DEF Load
  <2> QED
    BY <2>4, LoadedType
<1> QED
  BY <1>1, <1>2

DetailOK(d) ==
  /\ DOMAIN d = Tabs /\ d["rules"] \in UserRules \cup {Overview}
  /\ \A t \in Tabs \ {"rules"} : d[t] \in Whats \cup Peers \cup {Overview}

LEMMA DetailMoves ==
  ASSUME DetailOK(detail), NEW t \in Tabs, NEW what,
         t = "rules" => what \in UserRules \cup {Overview},
         t # "rules" => what \in Whats \cup Peers \cup {Overview},
         detail' = [detail EXCEPT ![t] = what]
  PROVE  DetailOK(detail)'
<1>1. "rules" \in Tabs
  BY DEF Tabs
<1> QED
  BY <1>1 DEF DetailOK

LEMMA UserKeeps ==
  ASSUME IInv, User
  PROVE  IInv'
<1>1. /\ StatInv /\ db \in Tables /\ tab \in Tabs /\ frozen \in BOOLEAN /\ DetailOK(detail)
      /\ ruleRows \subseteq Row /\ screen \subseteq ScreenRow
  BY DEF IInv, WindowTypeOK, TypeOK, DetailOK
<1>2. SUFFICES /\ StatInv' /\ tab' \in Tabs /\ frozen' \in BOOLEAN /\ DetailOK(detail)'
               /\ ruleRows' \subseteq Row /\ (Load \/ Keep)
  <2>1. ASSUME StatInv', tab' \in Tabs, ruleRows' \subseteq Row, Load \/ Keep
        PROVE  screen' \subseteq ScreenRow
    BY <1>1, <2>1, LoadKeeps DEF Keep, StatInv, TypeOK
  <2> QED
    BY <2>1 DEF IInv, WindowTypeOK, StatInv, DetailOK
<1>3. ASSUME NEW t \in Tabs, ChangeTab(t)
      PROVE  /\ StatInv' /\ tab' \in Tabs /\ frozen' \in BOOLEAN /\ DetailOK(detail)'
             /\ ruleRows' \subseteq Row /\ (Load \/ Keep)
  BY <1>1, <1>3, NoWriteKeeps DEF ChangeTab, DetailOK
<1>4. ASSUME NEW t \in Tabs, FollowEvent(t)
      PROVE  /\ StatInv' /\ tab' \in Tabs /\ frozen' \in BOOLEAN /\ DetailOK(detail)'
             /\ ruleRows' \subseteq Row /\ (Load \/ Keep)
  <2>1. detail' = [detail EXCEPT ![t] = Overview]
    BY <1>4 DEF FollowEvent
  <2>2. DetailOK(detail)'
    BY <1>1, <2>1, DetailMoves
  <2> QED
    BY <1>1, <1>4, <2>2, NoWriteKeeps DEF FollowEvent, CloseRule
<1>5. ASSUME NEW what, OpenDetail(what), ruleRows' \subseteq Row,
             tab = "rules" => what \in UserRules \cup {Overview},
             tab # "rules" => what \in Whats \cup Peers \cup {Overview}
      PROVE  /\ StatInv' /\ tab' \in Tabs /\ frozen' \in BOOLEAN /\ DetailOK(detail)'
             /\ ruleRows' \subseteq Row /\ (Load \/ Keep)
  <2>1. detail' = [detail EXCEPT ![tab] = what]
    BY <1>5 DEF OpenDetail
  <2>2. DetailOK(detail)'
    BY <1>1, <1>5, <2>1, DetailMoves
  <2> QED
    BY <1>1, <1>5, <2>2, NoWriteKeeps DEF OpenDetail
<1>6. ASSUME NEW addr \in Peers, OpenNode(addr)
      PROVE  /\ StatInv' /\ tab' \in Tabs /\ frozen' \in BOOLEAN /\ DetailOK(detail)'
             /\ ruleRows' \subseteq Row /\ (Load \/ Keep)
  BY <1>1, <1>5, <1>6 DEF OpenNode, AtOverview
<1>7. ASSUME NEW what \in Whats, OpenRow(what)
      PROVE  /\ StatInv' /\ tab' \in Tabs /\ frozen' \in BOOLEAN /\ DetailOK(detail)'
             /\ ruleRows' \subseteq Row /\ (Load \/ Keep)
  <2>1. tab # "rules"
    BY <1>7, WindowAssumption DEF OpenRow
  <2> QED
    BY <1>1, <1>5, <1>7, <2>1 DEF OpenRow
<1>8. ASSUME NEW what \in UserRules, OpenRule(what)
      PROVE  /\ StatInv' /\ tab' \in Tabs /\ frozen' \in BOOLEAN /\ DetailOK(detail)'
             /\ ruleRows' \subseteq Row /\ (Load \/ Keep)
  <2>1. RuleConnections(db, what) \subseteq Row
    BY <1>1 DEF RuleConnections, Tables
  <2> QED
    BY <1>1, <1>5, <1>8, <2>1 DEF OpenRule, AtOverview
<1>9. ASSUME Back
      PROVE  /\ StatInv' /\ tab' \in Tabs /\ frozen' \in BOOLEAN /\ DetailOK(detail)'
             /\ ruleRows' \subseteq Row /\ (Load \/ Keep)
  <2>1. detail' = [detail EXCEPT ![tab] = Overview]
    BY <1>9 DEF Back
  <2>2. DetailOK(detail)'
    BY <1>1, <2>1, DetailMoves
  <2> QED
    BY <1>1, <1>9, <2>2, NoWriteKeeps DEF Back, CloseRule
<1>10. ASSUME ToggleFreeze
       PROVE  /\ StatInv' /\ tab' \in Tabs /\ frozen' \in BOOLEAN /\ DetailOK(detail)'
              /\ ruleRows' \subseteq Row /\ (Load \/ Keep)
  BY <1>1, <1>10, NoWriteKeeps DEF ToggleFreeze, DetailOK
<1>11. ASSUME Clean
       PROVE  /\ StatInv' /\ tab' \in Tabs /\ frozen' \in BOOLEAN /\ DetailOK(detail)'
              /\ ruleRows' \subseteq Row /\ (Load \/ Keep)
  <2>1. StatInv'
    BY <1>1, <1>11, CleanKeeps
  <2> QED
    BY <1>1, <1>11, <2>1 DEF Clean, DetailOK
<1> QED
  BY <1>3, <1>4, <1>6, <1>7, <1>8, <1>9, <1>10, <1>11 DEF User

LEMMA NextKeeps ==
  ASSUME IInv, [WindowNext]_<<vars, window_vars>>
  PROVE  IInv'
<1>1. /\ StatInv /\ db \in Tables /\ tab \in Tabs /\ frozen \in BOOLEAN /\ DetailOK(detail)
      /\ ruleRows \subseteq Row /\ screen \subseteq ScreenRow
  BY DEF IInv, WindowTypeOK, TypeOK, DetailOK
<1>2. ASSUME StatInv', tab' = tab, detail' = detail, frozen' = frozen, ruleRows' = ruleRows,
             Load \/ Keep
      PROVE  IInv'
  <2>1. screen' \subseteq ScreenRow
    BY <1>1, <1>2, LoadKeeps DEF Keep, StatInv, TypeOK
  <2> QED
    BY <1>1, <1>2, <2>1 DEF IInv, WindowTypeOK, StatInv, DetailOK
<1>3. CASE StatsArrive
  <2>1. StatInv'
    BY <1>1, <1>3, OnPingKeeps DEF StatsArrive
  <2>2. Load \/ Keep
    BY <1>3 DEF StatsArrive, OnStatsUpdated
  <2> QED
    BY <1>2, <1>3, <2>1, <2>2 DEF StatsArrive
<1>4. ASSUME UNCHANGED vars
      PROVE  StatInv'
  BY <1>1, <1>4, NoWriteKeeps
     DEF vars, NoWrite, UserStep, NoMishap, daemons, caches, store, history
<1>5. CASE OnNodesUpdated
  BY <1>2, <1>4, <1>5 DEF OnNodesUpdated
<1>6. CASE InBackground
  <2>1. ASSUME Daemons PROVE StatInv'
    BY <1>1, <2>1, LogKeeps, SendPingKeeps, RestartDaemonKeeps DEF Daemons
  <2>2. ASSUME Prompts PROVE StatInv'
    BY <1>1, <2>2, LogPromptedKeeps DEF Prompts
  <2>3. StatInv'
    BY <1>6, <2>1, <2>2 DEF InBackground
  <2> QED
    BY <1>2, <1>6, <2>3 DEF InBackground, window_vars, Keep
<1>7. CASE Restart
  <2>1. StatInv'
    BY <1>1, <1>7, RestartUIKeeps DEF Restart
  <2>2. /\ tab' = "events" /\ frozen' = FALSE /\ detail' = [t \in Tabs |-> Overview]
        /\ ruleRows' = {} /\ screen' = {}
    BY <1>7 DEF Restart
  <2>3. "events" \in Tabs /\ "rules" \in Tabs
    BY DEF Tabs
  <2> QED
    BY <2>1, <2>2, <2>3 DEF IInv, WindowTypeOK, StatInv
<1>8. CASE User
  BY <1>8, UserKeeps
<1>9. CASE UNCHANGED <<vars, window_vars>>
  BY <1>2, <1>4, <1>9 DEF window_vars, Keep
<1> QED
  BY <1>3, <1>5, <1>6, <1>7, <1>8, <1>9 DEF WindowNext

\* Nothing but the handling of a ping takes one and leaves the caches.
LEMMA OnlyStatsArrive ==
  ASSUME IInv, [WindowNext]_<<vars, window_vars>>, BatchHandled
  PROVE  StatsArrive
<1>1. pings \in Seq(Ping) /\ pings # <<>> /\ pings' = Tail(pings)
      /\ Len(pings) \in Nat /\ Len(pings') = Len(pings) - 1
  <2>1. pings \in Seq(Ping)
    BY DEF IInv, StatInv, TypeOK
  <2> QED
    BY <2>1 DEF BatchHandled
<1>2. pings' # pings
  <2>1. \A n \in Nat : n - 1 # n
    OBVIOUS
  <2> QED
    BY <1>1, <2>1
<1>3. ~OnNodesUpdated /\ ~User /\ ~UNCHANGED <<vars, window_vars>>
  BY <1>2 DEF OnNodesUpdated, User, ChangeTab, FollowEvent, OpenNode, OpenRow, OpenRule, OpenDetail,
              Back, ToggleFreeze, Clean, NoWrite, UserStep, vars
<1>4. ~Restart
  BY DEF Restart, RestartUI, BatchHandled
<1>5. ~InBackground
  <2>1. ASSUME NEW n \in Peers, SendPing(n)
        PROVE  FALSE
    <3>1. PICK q : pings' = Append(pings, q)
      BY <2>1 DEF SendPing
    <3>2. Len(pings') = Len(pings) + 1
      <4>1. pings \in Seq(Ping \cup {q}) /\ q \in Ping \cup {q}
        BY <1>1
      <4> QED
        BY <3>1, <4>1, AppendProperties
    <3> QED
      BY <1>1, <3>2
  <2>2. \A n \in Peers : ~RestartDaemon(n) /\ \A c \in Conns : ~Log(n, c) /\ ~LogPrompted(n, c)
    BY <1>2 DEF RestartDaemon, Log, LogPrompted
  <2> QED
    BY <2>1, <2>2 DEF InBackground, Daemons, Prompts
<1> QED
  BY <1>3, <1>4, <1>5 DEF WindowNext
-----------------------------------------------------------------------------
(* The theorems.                                                            *)

\* The invariant of every execution: pings, dedup list, counters and the two copies of
\* the tables fit together, whichever statements fail.
THEOREM Invariance == WindowSpec => []IInv
<1>1. WindowInit => IInv
  <2>1. ASSUME WindowInit
        PROVE  IInv
    <3>1. StatInv
      BY <2>1, InitKeeps DEF WindowInit
    <3>2. "events" \in Tabs /\ "rules" \in Tabs
      BY DEF Tabs
    <3> QED
      BY <2>1, <3>1, <3>2 DEF WindowInit, IInv, WindowTypeOK, StatInv
  <2> QED
    BY <2>1
<1>2. IInv /\ [WindowNext]_<<vars, window_vars>> => IInv'
  BY NextKeeps
<1> QED
  BY <1>1, <1>2, PTL DEF WindowSpec

\* The dedup list holds one batch only, yet no ping, however many events it repeats,
\* makes populateStats() insert one twice (ui_controller.cpp:530-560).
THEOREM TakenOnce == WindowSpec => []Safe
<1>1. IInv => Safe
  <2>1. ASSUME IInv, pings # <<>>
        PROVE  Fresh(Head(pings)) \cap taken[Head(pings).node] = {}
    <3>1. TypeOK /\ PingsInv /\ TakenInv
      BY <2>1 DEF IInv, StatInv
    <3>2. PICK p \in Ping : p = Head(pings) /\ p = pings[1] /\ 1 \in 1 .. Len(pings) /\ PingFits(p)
      BY <2>1, <3>1, HeadPing
    <3>3. Covers(p.node, p.from, p.upto)
      BY <3>1, <3>2 DEF TakenInv
    <3>4. \A i \in Fresh(p) : p.from <= i /\ i \notin seen[p.node]
      BY <3>1, <3>2, EventsLogged DEF Fresh
    <3> QED
      BY <3>2, <3>3, <3>4 DEF Covers
  <2> QED
    BY <2>1 DEF IInv, Safe, EventTakenOnce
<1> QED
  BY <1>1, Invariance, PTL

\* What the two caches of the controller hold back is in the tables, or is known to
\* have failed or to have been removed (ui_controller.cpp:530, 580-597, 682).
THEOREM CachesFit == WindowSpec => []CachesAgree
<1>1. IInv => CachesAgree
  BY DEF IInv, StatInv, CachesAgree
<1> QED
  BY <1>1, Invariance, PTL

\* A database file gets a batch as a whole or not at all, whichever statement fails
\* and whoever left a transaction open (database.cpp, insertBatch()).
THEOREM BatchAtomic == WindowSpec => BatchIsAtomic
<1>1. ASSUME IInv, [WindowNext]_<<vars, window_vars>>,
             BatchHandled, dbtype = "file", disk' # disk, NEW p, p = Head(pings)
      PROVE  /\ \A i \in Fresh(p) : EventRow(p.node, i) \in disk'.connections
             /\ \A d \in Changed(p) : disk'.hits[d] = Count(p, d)
             /\ disk'.nodes[p.node] = p.upto - p.base
  <2>1. PopulateStats(p)
    BY <1>1, OnlyStatsArrive DEF StatsArrive, OnPing
  <2>2. TypeOK /\ PingsInv /\ StoreInv /\ pings # <<>>
    BY <1>1 DEF IInv, StatInv, BatchHandled
  <2>3. p \in Ping /\ PingFits(p) /\ db \in Tables
    BY <1>1, <2>2, HeadPing DEF TypeOK
  <2>4. PICK done \in Statements(p) :
          \/ AllDone(p, done) /\ Commit(Written(db, p, done))
          \/ CommitFails(Written(db, p, done))
          \/ Rollback(db, Written(db, p, done))
          \/ LeaveOpen(Written(db, p, done))
    <3>1. Purgeable = {{}} /\ [db EXCEPT !.connections = @ \ {}] = db
      BY <1>1, <2>3 DEF Purgeable, Tables
    <3> QED
      BY <2>1, <3>1 DEF PopulateStats
  <2>5. PICK after : after = Written(db, p, done)
    OBVIOUS
  <2>6. AllDone(p, done) /\ disk' = after
    BY <1>1, <2>2, <2>4, <2>5 DEF Commit, CommitFails, Rollback, LeaveOpen, StoreInv
  <2>7. done.node /\ done.events = Fresh(p) /\ done.hits = Changed(p)
    BY <2>6 DEF AllDone
  <2>8. /\ after.connections = db.connections \cup RowsOf(p, done.events)
        /\ \A d \in Details : after.hits[d] = IF d \in done.hits THEN Count(p, d) ELSE db.hits[d]
        /\ after.nodes = IF done.node THEN [db.nodes EXCEPT ![p.node] = p.upto - p.base] ELSE db.nodes
    BY <2>2, <2>3, <2>5, WrittenIs
  <2>9. after.nodes[p.node] = p.upto - p.base
    BY <2>3, <2>7, <2>8, PingFields DEF Tables
  <2> QED
    BY <2>6, <2>7, <2>8, <2>9 DEF RowsOf, Changed
<1>2. IInv /\ [WindowNext]_<<vars, window_vars>> =>
        [BatchHandled /\ dbtype = "file" /\ disk' # disk
           => LET p == Head(pings)
              IN /\ \A i \in Fresh(p) : EventRow(p.node, i) \in disk'.connections
                 /\ \A d \in Changed(p) : disk'.hits[d] = Count(p, d)
                 /\ disk'.nodes[p.node] = p.upto - p.base]_vars
  BY <1>1
<1> QED
  BY <1>2, Invariance, PTL DEF WindowSpec, BatchIsAtomic

\* A view that follows shows what a batch brought: needRefresh, which deduplication
\* decides, never hides a change (ui_controller.cpp:533, 597; main_window.cpp:3851-3876).
THEOREM FollowsBatches == WindowSpec => ScreenFollows
<1>1. ASSUME IInv, [WindowNext]_<<vars, window_vars>>, BatchHandled, Follows
      PROVE  \/ Loaded(db', tab, detail[tab]) \subseteq Loaded(db, tab, detail[tab])
             \/ screen' = Loaded(db', tab, detail[tab])
  <2>1. StatsArrive
    BY <1>1, OnlyStatsArrive
  <2>2. PICK p : p = Head(pings) /\ PopulateStats(p) /\ OnStatsUpdated(NeedRefresh(p))
    BY <2>1 DEF StatsArrive, OnPing
  <2>3. /\ tab' = tab /\ detail' = detail /\ tab # "rules" /\ tab \in Tabs
        /\ ~(tab = "events" /\ frozen)
        /\ IF detail[tab] = Overview THEN tab # "nodes" ELSE tab \in FollowsInDetail
    BY <1>1, <2>1 DEF StatsArrive, Follows, IInv, WindowTypeOK
  <2>4. CASE Load
    BY <2>3, <2>4 DEF Load
  <2>5. CASE ~Load
    <3>1. Fresh(p) = {} /\ Changed(p) = {}
      BY <2>2, <2>3, <2>5 DEF OnStatsUpdated, NeedRefresh
    <3>2. TypeOK /\ PingsInv /\ StoreInv /\ pings # <<>>
      BY <1>1 DEF IInv, StatInv, BatchHandled
    <3>3. p \in Ping /\ PingFits(p)
      BY <2>2, <3>2, HeadPing
    <3>4. PICK done \in Statements(p) :
            /\ db' \in Tables
            /\ db'.connections \subseteq db.connections \cup RowsOf(p, done.events)
            /\ \A d \in Details :
                 db'.hits[d] = IF d \in done.hits THEN Count(p, d) ELSE db.hits[d]
      BY <2>2, <3>2, <3>3, Outcome
    <3>5. db'.connections \subseteq db.connections /\ \A d \in Details : db'.hits[d] = db.hits[d]
      BY <3>1, <3>4 DEF Statements, RowsOf
    <3>6. PICK t : t = db'
      OBVIOUS
    <3>7. Visible(t) \subseteq Visible(db) /\ HitRows(t, tab) = HitRows(db, tab)
      BY <3>5, <3>6 DEF Visible, HitRows
    <3>8. CASE tab = "events"
      BY <3>6, <3>7, <3>8, WindowAssumption DEF Loaded
    <3>9. CASE tab \in Kinds /\ detail[tab] = Overview
      BY <3>6, <3>7, <3>9, WindowAssumption DEF Loaded
    <3>10. CASE detail[tab] # Overview /\ tab # "events"
      BY <3>6, <3>7, <3>10 DEF Loaded
    <3> QED
      BY <2>3, <3>8, <3>9, <3>10 DEF Tabs
  <2> QED
    BY <2>4, <2>5
<1>2. IInv /\ [WindowNext]_<<vars, window_vars>> =>
        [BatchHandled /\ Follows =>
           LET now == Loaded(db', tab, detail[tab])
           IN now \subseteq Loaded(db, tab, detail[tab]) \/ screen' = now]_<<vars, window_vars>>
  BY <1>1
<1> QED
  BY <1>2, Invariance, PTL DEF WindowSpec, ScreenFollows
=============================================================================
