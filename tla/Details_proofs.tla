--------------------------- MODULE Details_proofs ---------------------------
(***************************************************************************)
(* Proofs about the two components behind the details that the windows     *)
(* show of a connection: Resolver, which finds names for addresses (its    *)
(* definitions carry its name, so that both can be extended), for every    *)
(* set of addresses and a queue of any length; and ProcMonitor, the        *)
(* process details dialog, for every set of daemons and processes, any     *)
(* number of clicks and reports and any time.                              *)
(***************************************************************************)
EXTENDS Resolver, ProcMonitor, TLAPS

\* request() and enqueue() are about one address.
GuiInv == gui = "idle" <=> asks = NoAddr

ResolverIInv == ResolverTypeOK /\ GuiInv /\ ResolvedOnce /\ ResolvingIsInWork

-----------------------------------------------------------------------------
(* Queues without duplicates.                                              *)

LEMMA AppendFresh ==
  ASSUME NEW s \in Seq(Addrs), NEW a \in Addrs, IsInjective(s), a \notin ToSet(s)
  PROVE  /\ Append(s, a) \in Seq(Addrs)
         /\ IsInjective(Append(s, a))
         /\ ToSet(Append(s, a)) = ToSet(s) \cup {a}
         /\ \A i \in 1 .. Len(Append(s, a)) :
              Append(s, a)[i] = IF i \in 1 .. Len(s) THEN s[i] ELSE a
<1> DEFINE t == Append(s, a)
<1>1. /\ t \in Seq(Addrs) /\ DOMAIN s = 1 .. Len(s) /\ DOMAIN t = 1 .. Len(s) + 1
      /\ Len(s) \in Nat /\ Len(t) = Len(s) + 1
      /\ \A i \in 1 .. Len(s) : t[i] = s[i]
      /\ t[Len(s) + 1] = a
  OBVIOUS
<1> HIDE DEF t
<1>2. \A i \in 1 .. Len(s) : s[i] # a
  BY <1>1 DEF ToSet
<1>3. IsInjective(t)
  BY <1>1, <1>2 DEF IsInjective
<1>4. ToSet(t) = ToSet(s) \cup {a}
  <2>1. \A i \in 1 .. Len(s) + 1 : i \in 1 .. Len(s) \/ i = Len(s) + 1
    BY <1>1
  <2>2. Len(s) + 1 \in 1 .. Len(s) + 1 /\ \A i \in 1 .. Len(s) : i \in 1 .. Len(s) + 1
    BY <1>1
  <2> QED
    BY <1>1, <2>1, <2>2 DEF ToSet
<1>5. \A i \in 1 .. Len(t) : t[i] = IF i \in 1 .. Len(s) THEN s[i] ELSE a
  BY <1>1
<1> QED
  BY <1>1, <1>3, <1>4, <1>5 DEF t

LEMMA TailOfFresh ==
  ASSUME NEW s \in Seq(Addrs), s # <<>>, IsInjective(s)
  PROVE  /\ Head(s) \in Addrs /\ Tail(s) \in Seq(Addrs)
         /\ IsInjective(Tail(s))
         /\ ToSet(Tail(s)) = ToSet(s) \ {Head(s)}
         /\ Head(s) \in ToSet(s)
<1> DEFINE t == Tail(s)
           a == Head(s)
<1>1. /\ t \in Seq(Addrs) /\ DOMAIN s = 1 .. Len(s) /\ DOMAIN t = 1 .. Len(s) - 1
      /\ Len(s) \in Nat /\ Len(s) > 0 /\ a = s[1] /\ a \in Addrs
      /\ \A i \in 1 .. Len(s) - 1 : t[i] = s[i + 1]
  OBVIOUS
<1> HIDE DEF t, a
<1>2. \A i \in 1 .. Len(s) : s[i] = a => i = 1
  BY <1>1 DEF IsInjective
<1>3. IsInjective(t)
  <2> SUFFICES ASSUME NEW i \in 1 .. Len(s) - 1, NEW j \in 1 .. Len(s) - 1, t[i] = t[j]
               PROVE  i = j
    BY <1>1 DEF IsInjective
  <2>1. i + 1 = j + 1
    BY <1>1 DEF IsInjective
  <2> QED
    BY <2>1
<1>4. ToSet(t) = ToSet(s) \ {a}
  <2>1. ASSUME NEW x \in ToSet(t) PROVE x \in ToSet(s) \ {a}
    <3>1. PICK i \in 1 .. Len(s) - 1 : x = t[i]
      BY <1>1, <2>1 DEF ToSet
    <3>2. i + 1 \in 1 .. Len(s) /\ i + 1 # 1 /\ x = s[i + 1]
      BY <1>1, <3>1
    <3> QED
      BY <1>1, <1>2, <3>2 DEF ToSet
  <2>2. ASSUME NEW x \in ToSet(s), x # a PROVE x \in ToSet(t)
    <3>1. PICK i \in 1 .. Len(s) : x = s[i]
      BY <1>1, <2>2 DEF ToSet
    <3>2. i - 1 \in 1 .. Len(s) - 1 /\ x = t[i - 1]
      BY <1>1, <2>2, <3>1
    <3> QED
      BY <1>1, <3>2 DEF ToSet
  <2> QED
    BY <2>1, <2>2
<1>5. a \in ToSet(s)
  BY <1>1 DEF ToSet
<1> QED
  BY <1>1, <1>3, <1>4, <1>5 DEF t, a

\* The second half of ResolvedOnce as a set says it.
LEMMA NotInHand ==
  ASSUME queue \in Seq(Addrs)
  PROVE  (\A i \in 1 .. Len(queue) : ~InHand(queue[i])) <=> \A a \in ToSet(queue) : ~InHand(a)
BY DEF ToSet
-----------------------------------------------------------------------------
\* cleanupLocked() leaves what is being resolved alone.
LEMMA CleanupKeeps ==
  ASSUME ResolverTypeOK, Cleanup
  PROVE  /\ cache' \in [Addrs -> Known]
         /\ stale' \subseteq {a \in Addrs : cache'[a] # "absent"}
         /\ \A a \in Addrs : cache'[a] = "resolving" <=> cache[a] = "resolving"
         /\ \A a \in Addrs : cache'[a] = Clean[a]
BY DEF ResolverTypeOK, Cleanup, Clean, Expired, Known

\* Steps that put nothing into work, take nothing out, and mark nothing.
LEMMA SameWork ==
  ASSUME ResolverIInv, queue' = queue,
         \A a \in Addrs : InHand(a)' <=> InHand(a),
         \A a \in Addrs : cache'[a] = "resolving" <=> cache[a] = "resolving"
  PROVE  ResolvedOnce' /\ ResolvingIsInWork'
<1>1. ResolvingIsInWork'
  BY DEF ResolverIInv, ResolvingIsInWork
<1>2. \A i \in 1 .. Len(queue) : queue[i] \in Addrs
  BY DEF ResolverIInv, ResolverTypeOK
<1>3. ResolvedOnce'
  BY <1>2 DEF ResolverIInv, ResolvedOnce
<1> QED
  BY <1>1, <1>3

LEMMA ResolverStep ==
  ASSUME ResolverIInv, [ResolverNext]_resolverVars
  PROVE  ResolverIInv'
<1> USE AddrsAssumption
<1>1. ASSUME NEW a \in Addrs, Age(a) PROVE ResolverIInv'
  <2>1. ResolverTypeOK' /\ GuiInv'
    BY <1>1 DEF Age, ResolverIInv, ResolverTypeOK, GuiInv, guiVars, workerVars
  <2>2. ResolvedOnce' /\ ResolvingIsInWork'
    BY <1>1, SameWork DEF Age, InHand, workerVars
  <2> QED
    BY <2>1, <2>2 DEF ResolverIInv
<1>2. ASSUME Cleanup, UNCHANGED <<queue, workerVars, posted>>,
             \/ UNCHANGED guiVars
             \/ gui' = "enqueue" /\ asks' \in Addrs
      PROVE  ResolverIInv'
  <2>1. /\ cache' \in [Addrs -> Known]
        /\ stale' \subseteq {a \in Addrs : cache'[a] # "absent"}
        /\ \A a \in Addrs : cache'[a] = "resolving" <=> cache[a] = "resolving"
    BY <1>2, CleanupKeeps DEF ResolverIInv
  <2>2. ResolverTypeOK' /\ GuiInv'
    BY <1>2, <2>1 DEF ResolverIInv, ResolverTypeOK, GuiInv, guiVars, workerVars
  <2>3. ResolvedOnce' /\ ResolvingIsInWork'
    BY <1>2, <2>1, SameWork DEF InHand, workerVars
  <2> QED
    BY <2>2, <2>3 DEF ResolverIInv
<1>3. CASE Lookup
  BY <1>2, <1>3 DEF Lookup
<1>4. ASSUME NEW a \in Addrs, Request(a) PROVE ResolverIInv'
  BY <1>2, <1>4 DEF Request
<1>5. CASE Enqueue
  <2>1. asks \in Addrs /\ queue \in Seq(Addrs)
    BY <1>5 DEF Enqueue, ResolverIInv, ResolverTypeOK, GuiInv
  <2>2. CASE cache[asks] = "resolving"
    <3>1. ResolverTypeOK' /\ GuiInv'
      BY <1>5, <2>2 DEF Enqueue, ResolverIInv, ResolverTypeOK, GuiInv, workerVars
    <3>2. ResolvedOnce' /\ ResolvingIsInWork'
      BY <1>5, <2>2, SameWork DEF Enqueue, InHand, workerVars
    <3> QED
      BY <3>1, <3>2 DEF ResolverIInv
  <2>3. CASE cache[asks] # "resolving"
    <3>1. /\ cache' = [cache EXCEPT ![asks] = "resolving"]
          /\ stale' = stale \ {asks}
          /\ queue' = Append(queue, asks)
          /\ gui' = "check" /\ asks' = asks
          /\ UNCHANGED <<workerVars, posted>>
      BY <1>5, <2>3 DEF Enqueue
    <3>2. asks \notin ToSet(queue) /\ ~InHand(asks) /\ IsInjective(queue)
      BY <2>1, <2>3 DEF ResolverIInv, ResolvingIsInWork, ResolvedOnce
    <3>3. queue' \in Seq(Addrs) /\ IsInjective(queue') /\ ToSet(queue') = ToSet(queue) \cup {asks}
      BY <2>1, <3>1, <3>2, AppendFresh
    <3>4. \A a \in Addrs : InHand(a)' <=> InHand(a)
      BY <3>1 DEF InHand, workerVars
    <3>5. ResolverTypeOK' /\ GuiInv'
      <4>1. /\ cache' \in [Addrs -> Known]
            /\ stale' \subseteq {a \in Addrs : cache'[a] # "absent"}
        BY <2>1, <3>1 DEF ResolverIInv, ResolverTypeOK, Known
      <4> QED
        BY <2>1, <3>1, <3>3, <4>1 DEF ResolverIInv, ResolverTypeOK, GuiInv, workerVars
    <3>6. ResolvedOnce'
      <4>1. \A a \in ToSet(queue) : ~InHand(a)
        BY <2>1, NotInHand DEF ResolverIInv, ResolvedOnce
      <4>2. \A a \in ToSet(queue) : a \in Addrs
        BY <2>1 DEF ToSet
      <4>3. \A a \in ToSet(queue') : ~InHand(a)'
        BY <2>1, <3>2, <3>3, <3>4, <4>1, <4>2
      <4>4. \A i \in 1 .. Len(queue') : queue'[i] \in ToSet(queue')
        BY <3>3 DEF ToSet
      <4> QED
        BY <3>3, <4>3, <4>4 DEF ResolvedOnce
    <3>7. ResolvingIsInWork'
      BY <2>1, <3>1, <3>3, <3>4 DEF ResolverIInv, ResolverTypeOK, ResolvingIsInWork
    <3> QED
      BY <3>5, <3>6, <3>7 DEF ResolverIInv
  <2> QED
    BY <2>2, <2>3
<1>6. CASE StartWorker
  <2>1. ResolverTypeOK' /\ GuiInv'
    BY <1>6 DEF StartWorker, ResolverIInv, ResolverTypeOK, GuiInv
  <2>2. \A a \in Addrs : InHand(a)' <=> InHand(a)
    BY <1>6 DEF StartWorker, InHand
  <2>3. ResolvedOnce' /\ ResolvingIsInWork'
    BY <1>6, <2>2, SameWork DEF StartWorker
  <2> QED
    BY <2>1, <2>3 DEF ResolverIInv
<1>7. ASSUME NEW a \in Addrs, ShowName(a) PROVE ResolverIInv'
  <2>1. ResolverTypeOK' /\ GuiInv'
    BY <1>7 DEF ShowName, ResolverIInv, ResolverTypeOK, GuiInv, guiVars, workerVars
  <2>2. ResolvedOnce' /\ ResolvingIsInWork'
    BY <1>7, SameWork DEF ShowName, InHand, workerVars
  <2> QED
    BY <2>1, <2>2 DEF ResolverIInv
<1>8. CASE Take
  <2>1. CASE queue = <<>>
    <3>1. ResolverTypeOK' /\ GuiInv'
      BY <1>8, <2>1 DEF Take, ResolverIInv, ResolverTypeOK, GuiInv, guiVars
    <3>2. \A a \in Addrs : InHand(a)' <=> InHand(a)
      BY <1>8, <2>1 DEF Take, InHand
    <3>3. ResolvedOnce' /\ ResolvingIsInWork'
      BY <1>8, <2>1, <3>2, SameWork DEF Take
    <3> QED
      BY <3>1, <3>3 DEF ResolverIInv
  <2>2. CASE queue # <<>>
    <3>1. /\ worker = "take" /\ worker' = "resolve"
          /\ work' = Head(queue) /\ queue' = Tail(queue)
          /\ UNCHANGED <<cache, stale, guiVars, posted>>
      BY <1>8, <2>2 DEF Take
    <3>2. /\ Head(queue) \in Addrs /\ Tail(queue) \in Seq(Addrs) /\ IsInjective(Tail(queue))
          /\ ToSet(Tail(queue)) = ToSet(queue) \ {Head(queue)} /\ Head(queue) \in ToSet(queue)
      BY <2>2, TailOfFresh DEF ResolverIInv, ResolverTypeOK, ResolvedOnce
    <3>3. \A a \in Addrs : ~InHand(a) /\ (InHand(a)' <=> a = Head(queue))
      BY <3>1 DEF InHand
    <3>4. ResolverTypeOK' /\ GuiInv'
      BY <3>1, <3>2 DEF ResolverIInv, ResolverTypeOK, GuiInv, guiVars
    <3>5. ResolvedOnce'
      <4>0. queue' \in Seq(Addrs)
        BY <3>1, <3>2
      <4>1. \A i \in 1 .. Len(queue') : queue'[i] \in ToSet(queue') /\ queue'[i] \in Addrs
        BY <4>0 DEF ToSet
      <4> QED
        BY <3>1, <3>2, <3>3, <4>1 DEF ResolvedOnce
    <3>6. ResolvingIsInWork'
      BY <3>1, <3>2, <3>3 DEF ResolverIInv, ResolvingIsInWork
    <3> QED
      BY <3>4, <3>5, <3>6 DEF ResolverIInv
  <2> QED
    BY <2>1, <2>2
<1>9. CASE Finish
  <2>1. work \in Addrs /\ InHand(work) /\ cache[work] = "resolving"
    <3>1. work \in Addrs /\ InHand(work)
      BY <1>9 DEF Finish, ResolverIInv, ResolverTypeOK, InHand
    <3> QED
      BY <3>1 DEF ResolverIInv, ResolvingIsInWork
  <2>2. /\ cache' = [cache EXCEPT ![work] = "resolved"] /\ stale' = stale \ {work}
        /\ worker = "finish" /\ worker' = "post"
        /\ UNCHANGED <<queue, guiVars, work, posted>>
    BY <1>9, <2>1 DEF Finish
  <2>3. ResolverTypeOK' /\ GuiInv'
    <3>1. /\ cache' \in [Addrs -> Known]
          /\ stale' \subseteq {a \in Addrs : cache'[a] # "absent"}
      BY <2>1, <2>2 DEF ResolverIInv, ResolverTypeOK, Known
    <3> QED
      BY <2>1, <2>2, <3>1 DEF ResolverIInv, ResolverTypeOK, GuiInv, guiVars
  <2>4. \A a \in Addrs : ~InHand(a)' /\ (InHand(a) <=> a = work)
    BY <2>2 DEF InHand
  <2>5. \A i \in 1 .. Len(queue) : queue[i] \in Addrs
    BY DEF ResolverIInv, ResolverTypeOK
  <2>6. ResolvedOnce'
    BY <2>2, <2>4, <2>5 DEF ResolverIInv, ResolvedOnce
  <2>7. work \notin ToSet(queue)
    BY <2>1, NotInHand DEF ResolverIInv, ResolverTypeOK, ResolvedOnce
  <2>8. ResolvingIsInWork'
    BY <2>1, <2>2, <2>4, <2>7 DEF ResolverIInv, ResolverTypeOK, ResolvingIsInWork
  <2> QED
    BY <2>3, <2>6, <2>8 DEF ResolverIInv
<1>10. CASE Leave \/ Resolve \/ Post \/ Pause
  <2>1. ResolverTypeOK' /\ GuiInv'
    BY <1>10 DEF Leave, Resolve, Post, Pause, ResolverIInv, ResolverTypeOK, GuiInv, guiVars
  <2>2. /\ \A a \in Addrs : InHand(a)' <=> InHand(a)
        /\ UNCHANGED <<cache, queue>>
    BY <1>10 DEF Leave, Resolve, Post, Pause, InHand
  <2>3. ResolvedOnce' /\ ResolvingIsInWork'
    BY <2>2, SameWork
  <2> QED
    BY <2>1, <2>3 DEF ResolverIInv
<1>11. CASE UNCHANGED resolverVars
  <2>1. ResolverTypeOK' /\ GuiInv'
    BY <1>11 DEF resolverVars, ResolverIInv, ResolverTypeOK, GuiInv, guiVars, workerVars
  <2>2. ResolvedOnce' /\ ResolvingIsInWork'
    BY <1>11, SameWork DEF resolverVars, InHand, workerVars
  <2> QED
    BY <2>1, <2>2 DEF ResolverIInv
<1> QED
  BY <1>1, <1>3, <1>4, <1>5, <1>6, <1>7, <1>8, <1>9, <1>10, <1>11
  DEF ResolverNext, Clock, ResolverUser, Gui, Worker

\* An address is in work once, and its entry is marked resolving exactly as long:
\* no cleaning of the cache, no repeated request and no return of the worker makes
\* it resolved twice or leaves a mark that nobody will clear.
THEOREM ResolvedSafely == ResolverSpec => []ResolverSafe
<1>1. ResolverInit => ResolverIInv
  <2> SUFFICES ASSUME ResolverInit PROVE ResolverIInv
    OBVIOUS
  <2>1. ResolverTypeOK /\ GuiInv
    BY AddrsAssumption DEF ResolverInit, ResolverTypeOK, GuiInv, Known
  <2>2. ResolvedOnce /\ ResolvingIsInWork
    BY DEF ResolverInit, ResolvedOnce, ResolvingIsInWork, IsInjective, ToSet, InHand
  <2> QED
    BY <2>1, <2>2 DEF ResolverIInv
<1>2. ResolverIInv /\ [ResolverNext]_resolverVars => ResolverIInv'
  BY ResolverStep
<1>3. ResolverIInv => ResolverSafe
  BY DEF ResolverIInv, ResolverSafe
<1> QED
  BY <1>1, <1>2, <1>3, PTL DEF ResolverSpec

-----------------------------------------------------------------------------
(* ProcMonitor.                                                            *)

\* A daemon's word on process p under the number i is somewhere between the
\* dialog d and the pages: on its way out, in a watch, or on its way back.
InFlight(d, n, i, p) ==
  \/ \E k \in DOMAIN d.outbox[n] :
       /\ d.outbox[n][k].id = i /\ d.outbox[n][k].pid = p
       /\ d.outbox[n][k].type = "MONITOR_PROCESS"
  \/ watched[n][p] # NoData /\ watched[n][p] = i
  \/ \E k \in DOMAIN replies[n] :
       /\ replies[n][k].id = i /\ replies[n][k].data # NoData
       /\ replies[n][k].data.pid = p

AskedFor(d, n, p) == p \in DOMAIN d.pids /\ d.pids[p] = n

\* What is in flight was asked for no later than last, and under a number that
\* the dialog takes reports for, or could yet use again, for one of its own
\* processes only.
OnlyAsked(d, last) ==
  \A n \in Nodes, p \in Pids, i \in Ids :
    InFlight(d, n, i, p) =>
      /\ d.pids # <<>> /\ i <= last
      /\ d.sent[i] # "none" \/ i = last => AskedFor(d, n, p)

\* The last notification about its process that is on the way to n.
IsLast(d, n, k) ==
  \A j \in DOMAIN d.outbox[n] : j > k => d.outbox[n][j].pid # d.outbox[n][k].pid

Queued(d, n, p) == \E k \in DOMAIN d.outbox[n] : d.outbox[n][k].pid = p

\* Of a process the dialog does not monitor, the last word on its way is a stop,
\* and with no word on its way there is no watch.
Released(d, n, p) ==
  /\ watched[n][p] # NoData => Queued(d, n, p)
  /\ \A k \in DOMAIN d.outbox[n] :
       d.outbox[n][k].pid = p /\ IsLast(d, n, k) => d.outbox[n][k].type # "MONITOR_PROCESS"

Watching(d) ==
  \A n \in Nodes, p \in Pids :
    p \notin d.missed[n] => Released(d, n, p) \/ (d.pid = p /\ d.node = n)

\* The fields of the dialog fit one another.
Coherent(d) ==
  /\ d \in Dialog
  /\ d.shown = NoData => \A g \in Parts : d.filled[g] = NoData
  /\ \A g \in {d.page} \cup Labels :
       d.filled[g] = d.shown \/ (d.shown # NoData /\ g \in d.shown.lacks)
  /\ \A g \in Parts :
       d.filled[g] # NoData => AskedFor(d, d.filled[g].node, d.filled[g].pid)
  /\ d.pid # NoPid => d.node \in Nodes
  /\ d.choice # NoPid => d.choice \in DOMAIN d.pids
  /\ d.shown # NoData => AskedFor(d, d.shown.node, d.shown.pid)

\* Reports name the daemon they come from.
OwnReports ==
  \A n \in Nodes : \A k \in DOMAIN replies[n] :
    replies[n][k].data # NoData => replies[n][k].data.node = n

IInv ==
  /\ TypeOK /\ OwnReports
  /\ Coherent(ui) /\ ui.lastNid <= now
  /\ OnlyAsked(ui, ui.lastNid) /\ Watching(ui)

-----------------------------------------------------------------------------
(* What sending and registering do to the fields.                          *)

\* A dialog's record is the one with these fields.
LEMMA DialogFields ==
  ASSUME NEW d \in Dialog
  PROVE  /\ d.visible \in BOOLEAN /\ d.pids \in Selections \cup {<<>>}
         /\ d.choice \in Pids \cup {NoPid} /\ d.pid \in Pids \cup {NoPid}
         /\ d.node \in Nodes \cup {NoNode} /\ d.running \in BOOLEAN
         /\ d.lastNid \in Ids /\ d.sent \in [Ids -> Types \cup {"none"}]
         /\ d.shown \in Data \cup {NoData} /\ d.page \in Pages
         /\ d.filled \in [Parts -> Data \cup {NoData}]
         /\ d.busy \in [Nodes -> BOOLEAN] /\ d.outbox \in [Nodes -> Seq(Note)]
         /\ d.missed \in [Nodes -> SUBSET Pids]
BY DEF Dialog

LEMMA SendIs ==
  ASSUME NEW d \in Dialog, d.pid \in Pids, d.node \in Nodes,
         NEW type \in Types, now \in Ids
  PROVE  /\ Send(d, type) \in Dialog
         /\ \/ /\ Send(d, type).outbox =
                    [d.outbox EXCEPT ![d.node] = Append(@, [id |-> now, type |-> type, pid |-> d.pid])]
               /\ Send(d, type).missed = [d.missed EXCEPT ![d.node] = @ \ {d.pid}]
            \/ /\ Send(d, type).outbox = d.outbox
               /\ Send(d, type).missed = [d.missed EXCEPT ![d.node] = @ \cup {d.pid}]
         /\ Send(d, type).visible = d.visible /\ Send(d, type).pids = d.pids
         /\ Send(d, type).choice = d.choice /\ Send(d, type).pid = d.pid
         /\ Send(d, type).node = d.node /\ Send(d, type).running = d.running
         /\ Send(d, type).lastNid = d.lastNid /\ Send(d, type).sent = d.sent
         /\ Send(d, type).shown = d.shown /\ Send(d, type).page = d.page
         /\ Send(d, type).filled = d.filled
<1> DEFINE note == [id |-> now, type |-> type, pid |-> d.pid]
<1>1. note \in Note
  BY DEF Note
<1>2. Append(d.outbox[d.node], note) \in Seq(Note)
  BY <1>1, DialogFields
<1> HIDE DEF note
<1>3. CASE d.node \in connected /\ ~d.busy[d.node]
  <2>1. Send(d, type) = [d EXCEPT !.busy[d.node] = TRUE,
                                  !.outbox[d.node] = Append(@, note),
                                  !.missed[d.node] = @ \ {d.pid}]
    BY <1>3 DEF Send, note
  <2>2. /\ [d.busy EXCEPT ![d.node] = TRUE] \in [Nodes -> BOOLEAN]
        /\ [d.outbox EXCEPT ![d.node] = Append(@, note)] \in [Nodes -> Seq(Note)]
        /\ [d.missed EXCEPT ![d.node] = @ \ {d.pid}] \in [Nodes -> SUBSET Pids]
    BY <1>2, DialogFields
  <2> QED
    BY <2>1, <2>2, ZenonT(30) DEF Dialog, note
<1>4. CASE ~(d.node \in connected /\ ~d.busy[d.node])
  <2>1. Send(d, type) = [d EXCEPT !.missed[d.node] = @ \cup {d.pid}]
    BY <1>4 DEF Send
  <2>2. [d.missed EXCEPT ![d.node] = @ \cup {d.pid}] \in [Nodes -> SUBSET Pids]
    BY DialogFields
  <2> QED
    BY <2>1, <2>2, ZenonT(30) DEF Dialog
<1> QED
  BY <1>3, <1>4

LEMMA StopIs ==
  ASSUME NEW d \in Dialog, d.pid # NoPid, d.node \in Nodes, now \in Ids
  PROVE  /\ Stop(d) \in Dialog
         /\ \/ /\ Stop(d).outbox =
                    [d.outbox EXCEPT ![d.node] =
                       Append(@, [id |-> now, type |-> "STOP_MONITOR_PROCESS", pid |-> d.pid])]
               /\ Stop(d).missed = [d.missed EXCEPT ![d.node] = @ \ {d.pid}]
            \/ /\ Stop(d).outbox = d.outbox
               /\ Stop(d).missed = [d.missed EXCEPT ![d.node] = @ \cup {d.pid}]
         /\ Stop(d).visible = d.visible /\ Stop(d).pids = d.pids
         /\ Stop(d).choice = d.choice /\ Stop(d).pid = NoPid
         /\ Stop(d).node = d.node /\ Stop(d).running = FALSE
         /\ Stop(d).lastNid = now
         /\ Stop(d).sent = [d.sent EXCEPT ![now] = "STOP_MONITOR_PROCESS"]
         /\ Stop(d).shown = d.shown /\ Stop(d).page = d.page
         /\ Stop(d).filled = d.filled
<1> DEFINE type == "STOP_MONITOR_PROCESS"
<1>1. d.pid \in Pids /\ type \in Types
  BY DialogFields DEF Types
<1> DEFINE s == Send(d, type)
<1>2. s \in Dialog
  BY <1>1, SendIs
<1>3. /\ \/ /\ s.outbox =
                    [d.outbox EXCEPT ![d.node] = Append(@, [id |-> now, type |-> type, pid |-> d.pid])]
            /\ s.missed = [d.missed EXCEPT ![d.node] = @ \ {d.pid}]
         \/ /\ s.outbox = d.outbox
            /\ s.missed = [d.missed EXCEPT ![d.node] = @ \cup {d.pid}]
      /\ s.visible = d.visible /\ s.pids = d.pids /\ s.choice = d.choice /\ s.pid = d.pid
      /\ s.node = d.node /\ s.running = d.running /\ s.lastNid = d.lastNid
      /\ s.sent = d.sent /\ s.shown = d.shown /\ s.page = d.page /\ s.filled = d.filled
  BY <1>1, SendIs
<1>4. Stop(d) = [[s EXCEPT !.sent[now] = type, !.lastNid = now]
                    EXCEPT !.running = FALSE, !.pid = NoPid]
  BY DEF Stop, Register
<1> HIDE DEF s
<1>5. [s.sent EXCEPT ![now] = type] \in [Ids -> Types \cup {"none"}]
  BY <1>1, <1>2, <1>3, DialogFields
<1>6. PICK r : r = [s EXCEPT !.sent[now] = type, !.lastNid = now]
  OBVIOUS
<1>7. /\ r \in Dialog
      /\ r.outbox = s.outbox /\ r.missed = s.missed /\ r.visible = s.visible
      /\ r.pids = s.pids /\ r.choice = s.choice /\ r.node = s.node /\ r.lastNid = now
      /\ r.sent = [s.sent EXCEPT ![now] = type] /\ r.shown = s.shown /\ r.page = s.page
      /\ r.filled = s.filled
  BY <1>2, <1>5, <1>6, ZenonT(30) DEF Dialog
<1>8. Stop(d) = [r EXCEPT !.running = FALSE, !.pid = NoPid]
  BY <1>4, <1>6
<1>9. /\ Stop(d) \in Dialog
      /\ Stop(d).outbox = r.outbox /\ Stop(d).missed = r.missed
      /\ Stop(d).visible = r.visible /\ Stop(d).pids = r.pids
      /\ Stop(d).choice = r.choice /\ Stop(d).pid = NoPid
      /\ Stop(d).node = r.node /\ Stop(d).running = FALSE
      /\ Stop(d).lastNid = r.lastNid /\ Stop(d).sent = r.sent
      /\ Stop(d).shown = r.shown /\ Stop(d).page = r.page
      /\ Stop(d).filled = r.filled
  BY <1>7, <1>8, ZenonT(30) DEF Dialog
<1> QED
  BY <1>3, <1>7, <1>9

LEMMA StartIs ==
  ASSUME NEW d \in Dialog, d.pid = NoPid, d.choice # NoPid, d.choice \in DOMAIN d.pids,
         now \in Ids
  PROVE  /\ Start(d) \in Dialog
         /\ d.choice \in Pids /\ d.pids[d.choice] \in Nodes /\ d.pids # <<>>
         /\ \/ /\ Start(d).outbox =
                    [d.outbox EXCEPT ![d.pids[d.choice]] =
                       Append(@, [id |-> now, type |-> "MONITOR_PROCESS", pid |-> d.choice])]
               /\ Start(d).missed = [d.missed EXCEPT ![d.pids[d.choice]] = @ \ {d.choice}]
            \/ /\ Start(d).outbox = d.outbox
               /\ Start(d).missed = [d.missed EXCEPT ![d.pids[d.choice]] = @ \cup {d.choice}]
         /\ Start(d).visible = d.visible /\ Start(d).pids = d.pids
         /\ Start(d).choice = d.choice /\ Start(d).pid = d.choice
         /\ Start(d).node = d.pids[d.choice] /\ Start(d).running = TRUE
         /\ Start(d).lastNid = now
         /\ Start(d).sent = [d.sent EXCEPT ![now] = "MONITOR_PROCESS"]
         /\ Start(d).shown = d.shown /\ Start(d).page = d.page
         /\ Start(d).filled = d.filled
<1> DEFINE type == "MONITOR_PROCESS"
<1>1. d.choice \in Pids /\ type \in Types
  BY DialogFields DEF Types
<1>2. d.pids[d.choice] \in Nodes /\ d.pids # <<>>
  BY DialogFields DEF Selections
<1>3. PICK c : c = [d EXCEPT !.pid = d.choice, !.node = d.pids[d.choice], !.running = TRUE]
  OBVIOUS
<1>4. /\ c \in Dialog /\ c.pid = d.choice /\ c.node = d.pids[d.choice] /\ c.running = TRUE
      /\ c.visible = d.visible /\ c.pids = d.pids /\ c.choice = d.choice
      /\ c.lastNid = d.lastNid /\ c.sent = d.sent /\ c.shown = d.shown /\ c.page = d.page
      /\ c.filled = d.filled /\ c.outbox = d.outbox /\ c.missed = d.missed
  BY <1>1, <1>2, <1>3, ZenonT(30) DEF Dialog
<1>5. c.pid \in Pids /\ c.node \in Nodes
  BY <1>1, <1>2, <1>4
<1>6. PICK s \in Dialog : s = Send(c, type)
  BY <1>1, <1>4, <1>5, SendIs
<1>7. \/ /\ s.outbox =
              [c.outbox EXCEPT ![c.node] = Append(@, [id |-> now, type |-> type, pid |-> c.pid])]
         /\ s.missed = [c.missed EXCEPT ![c.node] = @ \ {c.pid}]
      \/ /\ s.outbox = c.outbox
         /\ s.missed = [c.missed EXCEPT ![c.node] = @ \cup {c.pid}]
  BY <1>1, <1>4, <1>5, <1>6, SendIs
<1>8. /\ s.visible = c.visible /\ s.pids = c.pids /\ s.choice = c.choice /\ s.pid = c.pid
      /\ s.node = c.node /\ s.running = c.running /\ s.lastNid = c.lastNid
      /\ s.sent = c.sent /\ s.shown = c.shown /\ s.page = c.page /\ s.filled = c.filled
  BY <1>1, <1>4, <1>5, <1>6, SendIs
<1>9. Start(d) = [s EXCEPT !.sent[now] = type, !.lastNid = now]
  BY <1>3, <1>6 DEF Start, Register
<1>10. [s.sent EXCEPT ![now] = type] \in [Ids -> Types \cup {"none"}]
  BY <1>1, DialogFields
<1>11. /\ Start(d) \in Dialog
       /\ Start(d).outbox = s.outbox /\ Start(d).missed = s.missed
       /\ Start(d).visible = s.visible /\ Start(d).pids = s.pids
       /\ Start(d).choice = s.choice /\ Start(d).pid = s.pid
       /\ Start(d).node = s.node /\ Start(d).running = s.running
       /\ Start(d).lastNid = now /\ Start(d).sent = [s.sent EXCEPT ![now] = type]
       /\ Start(d).shown = s.shown /\ Start(d).page = s.page
       /\ Start(d).filled = s.filled
  BY <1>9, <1>10, ZenonT(30) DEF Dialog
<1>12. /\ Start(d).visible = d.visible /\ Start(d).pids = d.pids
       /\ Start(d).choice = d.choice /\ Start(d).pid = d.choice
       /\ Start(d).node = d.pids[d.choice] /\ Start(d).running = TRUE
       /\ Start(d).lastNid = now
       /\ Start(d).sent = [d.sent EXCEPT ![now] = type]
       /\ Start(d).shown = d.shown /\ Start(d).page = d.page
       /\ Start(d).filled = d.filled
  BY <1>4, <1>8, <1>11
<1>13. CASE /\ s.outbox =
                 [c.outbox EXCEPT ![c.node] = Append(@, [id |-> now, type |-> type, pid |-> c.pid])]
            /\ s.missed = [c.missed EXCEPT ![c.node] = @ \ {c.pid}]
  <2>1. /\ Start(d).outbox =
              [d.outbox EXCEPT ![d.pids[d.choice]] =
                 Append(@, [id |-> now, type |-> type, pid |-> d.choice])]
        /\ Start(d).missed = [d.missed EXCEPT ![d.pids[d.choice]] = @ \ {d.choice}]
    BY <1>4, <1>11, <1>13
  <2> QED
    BY <1>1, <1>2, <1>11, <1>12, <2>1
<1>14. CASE s.outbox = c.outbox /\ s.missed = [c.missed EXCEPT ![c.node] = @ \cup {c.pid}]
  <2>1. /\ Start(d).outbox = d.outbox
        /\ Start(d).missed = [d.missed EXCEPT ![d.pids[d.choice]] = @ \cup {d.choice}]
    BY <1>4, <1>11, <1>14
  <2> QED
    BY <1>1, <1>2, <1>11, <1>12, <2>1
<1> QED
  BY <1>7, <1>13, <1>14

-----------------------------------------------------------------------------
(* What a notification put on the way does to the words on their way.      *)

\* From d to e, note was put on the way to m.
PutOnItsWay(d, e, m, note) == e.outbox = [d.outbox EXCEPT ![m] = Append(@, note)]

LEMMA Sent ==
  ASSUME NEW d \in Dialog, NEW e, NEW m \in Nodes, NEW note \in Note,
         PutOnItsWay(d, e, m, note)
  PROVE  \A n \in Nodes, p \in Pids :
           /\ n = m /\ p = note.pid /\ note.type # "MONITOR_PROCESS" => Released(e, n, p)
           /\ ~(n = m /\ p = note.pid) /\ Released(d, n, p) => Released(e, n, p)
           /\ \A i \in Ids :
                InFlight(e, n, i, p) =>
                  \/ InFlight(d, n, i, p)
                  \/ n = m /\ p = note.pid /\ i = note.id /\ note.type = "MONITOR_PROCESS"
<1> DEFINE s == d.outbox[m]
           t == e.outbox[m]
<1>1. d.outbox \in [Nodes -> Seq(Note)] /\ s \in Seq(Note)
  BY DialogFields
<1>2. t = Append(s, note) /\ \A n \in Nodes : n # m => e.outbox[n] = d.outbox[n]
  BY <1>1 DEF PutOnItsWay
<1>3. /\ Len(s) \in Nat /\ DOMAIN s = 1 .. Len(s) /\ DOMAIN t = 1 .. Len(s) + 1
      /\ \A k \in 1 .. Len(s) : t[k] = s[k]
      /\ t[Len(s) + 1] = note
  BY <1>1, <1>2
<1> HIDE DEF s, t
<1>4. /\ Len(s) + 1 \in DOMAIN t
      /\ \A k \in DOMAIN t : k = Len(s) + 1 \/ k \in DOMAIN s
      /\ \A k \in DOMAIN s : k \in DOMAIN t /\ t[k] = s[k] /\ Len(s) + 1 > k
  BY <1>3
<1> SUFFICES ASSUME NEW n \in Nodes, NEW p \in Pids
             PROVE  /\ n = m /\ p = note.pid /\ note.type # "MONITOR_PROCESS" => Released(e, n, p)
                    /\ ~(n = m /\ p = note.pid) /\ Released(d, n, p) => Released(e, n, p)
                    /\ \A i \in Ids :
                         InFlight(e, n, i, p) =>
                           \/ InFlight(d, n, i, p)
                           \/ n = m /\ p = note.pid /\ i = note.id /\ note.type = "MONITOR_PROCESS"
  OBVIOUS
<1>5. CASE n # m
  BY <1>2, <1>5 DEF Released, Queued, IsLast, InFlight
<1>6. CASE n = m
  <2>1. ASSUME p = note.pid, note.type # "MONITOR_PROCESS" PROVE Released(e, n, p)
    <3>1. Queued(e, n, p)
      BY <1>3, <1>4, <1>6, <2>1 DEF Queued, t
    <3>2. ASSUME NEW k \in DOMAIN e.outbox[n], e.outbox[n][k].pid = p, IsLast(e, n, k)
          PROVE  e.outbox[n][k].type # "MONITOR_PROCESS"
      <4>1. k = Len(s) + 1
        BY <1>3, <1>4, <1>6, <2>1, <3>2 DEF IsLast, t
      <4> QED
        BY <1>3, <1>6, <2>1, <4>1 DEF t
    <3> QED
      BY <3>1, <3>2 DEF Released
  <2>2. ASSUME p # note.pid, Released(d, n, p) PROVE Released(e, n, p)
    <3>1. Queued(d, n, p) => Queued(e, n, p)
      BY <1>4, <1>6 DEF Queued, s, t
    <3>2. ASSUME NEW k \in DOMAIN e.outbox[n], e.outbox[n][k].pid = p, IsLast(e, n, k)
          PROVE  e.outbox[n][k].type # "MONITOR_PROCESS"
      <4>1. k \in DOMAIN d.outbox[n] /\ d.outbox[n][k] = e.outbox[n][k]
        BY <1>3, <1>4, <1>6, <2>2, <3>2 DEF s, t
      <4>2. IsLast(d, n, k)
        BY <1>4, <1>6, <3>2, <4>1 DEF IsLast, s, t
      <4> QED
        BY <2>2, <3>2, <4>1, <4>2 DEF Released
    <3> QED
      BY <2>2, <3>1, <3>2 DEF Released
  <2>3. ASSUME NEW i \in Ids, InFlight(e, n, i, p)
        PROVE  \/ InFlight(d, n, i, p)
               \/ p = note.pid /\ i = note.id /\ note.type = "MONITOR_PROCESS"
    <3>1. CASE \E k \in DOMAIN e.outbox[n] :
                 /\ e.outbox[n][k].id = i /\ e.outbox[n][k].pid = p
                 /\ e.outbox[n][k].type = "MONITOR_PROCESS"
      BY <1>3, <1>4, <1>6, <3>1 DEF InFlight, s, t
    <3> QED
      BY <2>3, <3>1 DEF InFlight
  <2> QED
    BY <1>6, <2>1, <2>2, <2>3
<1> QED
  BY <1>5, <1>6

LEMMA SentReleases ==
  ASSUME NEW d \in Dialog, NEW e, NEW m \in Nodes, NEW note \in Note,
         PutOnItsWay(d, e, m, note), NEW n \in Nodes, NEW p \in Pids,
         \/ n = m /\ p = note.pid /\ note.type # "MONITOR_PROCESS"
         \/ ~(n = m /\ p = note.pid) /\ Released(d, n, p)
  PROVE  Released(e, n, p)
BY Sent

\* A dialog that has sent nothing new.
LEMMA SameWords ==
  ASSUME NEW d, NEW e, e.outbox = d.outbox
  PROVE  \A n \in Nodes, p \in Pids :
           /\ Released(e, n, p) <=> Released(d, n, p)
           /\ \A i \in Ids : InFlight(e, n, i, p) <=> InFlight(d, n, i, p)
BY DEF Released, Queued, IsLast, InFlight

-----------------------------------------------------------------------------
(* The parts of the handlers.                                              *)

\* What the invariant says of the dialog while the clock stands still.
Good(d) ==
  /\ Coherent(d) /\ d.lastNid <= now
  /\ OnlyAsked(d, d.lastNid) /\ Watching(d)

\* A dialog that monitors nothing, on the point of asking for a process.
Ready(d) ==
  /\ Coherent(d) /\ d.pid = NoPid
  /\ OnlyAsked(d, now) /\ Watching(d)

\* No number above the last one is in flight, and the last is taken for its own.
LEMMA AskedByNow ==
  ASSUME NEW d \in Dialog, now \in Ids, MaxClock \in Nat, d.lastNid <= now,
         OnlyAsked(d, d.lastNid)
  PROVE  OnlyAsked(d, now)
<1> SUFFICES ASSUME NEW n \in Nodes, NEW p \in Pids, NEW i \in Ids, InFlight(d, n, i, p)
             PROVE  /\ d.pids # <<>> /\ i <= now
                    /\ d.sent[i] # "none" \/ i = now => AskedFor(d, n, p)
  BY DEF OnlyAsked
<1>1. /\ d.pids # <<>> /\ i <= d.lastNid
      /\ d.sent[i] # "none" \/ i = d.lastNid => AskedFor(d, n, p)
  BY DEF OnlyAsked
<1>2. d.lastNid \in Ids
  BY DialogFields
<1> QED
  BY <1>1, <1>2 DEF Ids

LEMMA StopKeeps ==
  ASSUME NEW d, Good(d), now \in Ids, MaxClock \in Nat
  PROVE  /\ Good(Stop(d)) /\ Stop(d).pid = NoPid /\ Stop(d).pids = d.pids
         /\ Stop(d).choice = d.choice /\ Stop(d).shown = d.shown
         /\ Stop(d).filled = d.filled /\ Stop(d).page = d.page
         /\ \A n \in Nodes, p \in Pids, i \in Ids :
              InFlight(Stop(d), n, i, p) => InFlight(d, n, i, p)
<1>1. CASE d.pid = NoPid
  BY <1>1 DEF Stop
<1>2. CASE d.pid # NoPid
  <2>0. d \in Dialog /\ d.node \in Nodes /\ d.pid \in Pids
    BY <1>2, DialogFields DEF Good, Coherent
  <2> DEFINE note == [id |-> now, type |-> "STOP_MONITOR_PROCESS", pid |-> d.pid]
  <2>1. note \in Note /\ note.pid = d.pid /\ note.type # "MONITOR_PROCESS"
    BY <2>0 DEF Note, Types
  <2>2. PICK e \in Dialog : e = Stop(d)
    BY <1>2, <2>0, StopIs
  <2>3. /\ \/ /\ PutOnItsWay(d, e, d.node, note)
              /\ e.missed = [d.missed EXCEPT ![d.node] = @ \ {d.pid}]
           \/ /\ e.outbox = d.outbox
              /\ e.missed = [d.missed EXCEPT ![d.node] = @ \cup {d.pid}]
        /\ e.pids = d.pids /\ e.choice = d.choice /\ e.pid = NoPid /\ e.node = d.node
        /\ e.lastNid = now /\ e.sent = [d.sent EXCEPT ![now] = "STOP_MONITOR_PROCESS"]
        /\ e.shown = d.shown /\ e.page = d.page /\ e.filled = d.filled
    BY <1>2, <2>0, <2>2, StopIs DEF PutOnItsWay
  <2> HIDE DEF note
  <2>4. \A n \in Nodes, p \in Pids, i \in Ids : InFlight(e, n, i, p) => InFlight(d, n, i, p)
    <3>1. CASE PutOnItsWay(d, e, d.node, note)
      <4>1. \A n \in Nodes, p \in Pids, i \in Ids :
              InFlight(e, n, i, p) => \/ InFlight(d, n, i, p)
                                      \/ note.type = "MONITOR_PROCESS"
        BY <2>0, <2>1, <3>1, Sent
      <4> QED
        BY <2>1, <4>1
    <3>2. CASE e.outbox = d.outbox
      BY <3>2, SameWords
    <3> QED
      BY <2>3, <3>1, <3>2
  <2>5. Coherent(e)
    BY <2>3 DEF Good, Coherent, AskedFor
  <2>6. OnlyAsked(e, now)
    <3>1. OnlyAsked(d, now)
      BY <2>0, AskedByNow DEF Good
    <3>2. \A i \in Ids : e.sent[i] # "none" => d.sent[i] # "none" \/ i = now
      BY <2>0, <2>3, DialogFields
    <3> QED
      BY <2>3, <2>4, <3>1, <3>2 DEF OnlyAsked, AskedFor
  <2>7. Watching(e)
    <3>0. ASSUME PutOnItsWay(d, e, d.node, note)
          PROVE  \A n \in Nodes, p \in Pids :
                   /\ n = d.node /\ p = note.pid => Released(e, n, p)
                   /\ ~(n = d.node /\ p = note.pid) /\ Released(d, n, p) => Released(e, n, p)
      BY <2>0, <2>1, <3>0, SentReleases
    <3> SUFFICES ASSUME NEW n \in Nodes, NEW p \in Pids, p \notin e.missed[n]
                 PROVE  Released(e, n, p)
      BY DEF Watching
    <3>1. d.missed \in [Nodes -> SUBSET Pids]
      BY <2>0, DialogFields
    <3>2. p \notin d.missed[n] => Released(d, n, p) \/ (d.pid = p /\ d.node = n)
      BY DEF Good, Watching
    <3>3. CASE /\ PutOnItsWay(d, e, d.node, note)
               /\ e.missed = [d.missed EXCEPT ![d.node] = @ \ {d.pid}]
      <4>0. /\ n = d.node /\ p = note.pid => Released(e, n, p)
            /\ ~(n = d.node /\ p = note.pid) /\ Released(d, n, p) => Released(e, n, p)
        BY <3>0, <3>3
      <4>1. CASE n = d.node /\ p = d.pid
        BY <2>1, <4>0, <4>1
      <4>2. CASE ~(n = d.node /\ p = d.pid)
        <5>1. p \notin d.missed[n]
          BY <3>1, <3>3, <4>2
        <5> QED
          BY <2>1, <3>2, <4>0, <4>2, <5>1
      <4> QED
        BY <4>1, <4>2
    <3>4. CASE /\ e.outbox = d.outbox
               /\ e.missed = [d.missed EXCEPT ![d.node] = @ \cup {d.pid}]
      <4>1. p \notin d.missed[n] /\ ~(d.pid = p /\ d.node = n)
        BY <3>1, <3>4
      <4> QED
        BY <3>2, <3>4, <4>1, SameWords
    <3> QED
      BY <2>3, <3>3, <3>4
  <2>8. now <= now
    BY DEF Ids
  <2>9. Good(e)
    BY <2>3, <2>5, <2>6, <2>7, <2>8 DEF Good
  <2> QED
    BY <2>2, <2>3, <2>4, <2>9
<1> QED
  BY <1>1, <1>2

LEMMA StartKeeps ==
  ASSUME NEW d, Ready(d), d.choice # NoPid, now \in Ids
  PROVE  Good(Start(d))
<1>0. /\ d \in Dialog /\ d.choice \in DOMAIN d.pids /\ d.pid = NoPid
      /\ d.choice \in Pids /\ d.pids[d.choice] \in Nodes /\ d.pids # <<>>
  BY StartIs DEF Ready, Coherent
<1> DEFINE note == [id |-> now, type |-> "MONITOR_PROCESS", pid |-> d.choice]
           m == d.pids[d.choice]
<1>1. note \in Note /\ note.pid = d.choice /\ note.id = now
  BY <1>0 DEF Note, Types
<1>2. PICK e \in Dialog : e = Start(d)
  BY <1>0, StartIs
<1>3. /\ \/ /\ PutOnItsWay(d, e, m, note)
            /\ e.missed = [d.missed EXCEPT ![m] = @ \ {d.choice}]
         \/ /\ e.outbox = d.outbox
            /\ e.missed = [d.missed EXCEPT ![m] = @ \cup {d.choice}]
      /\ e.pids = d.pids /\ e.choice = d.choice /\ e.pid = d.choice /\ e.node = m
      /\ e.lastNid = now /\ e.sent = [d.sent EXCEPT ![now] = "MONITOR_PROCESS"]
      /\ e.shown = d.shown /\ e.page = d.page /\ e.filled = d.filled
  BY <1>0, <1>2, StartIs DEF PutOnItsWay
<1> HIDE DEF note, m
<1>4. m \in Nodes /\ AskedFor(d, m, d.choice)
  BY <1>0 DEF m, AskedFor
<1>5. \A n \in Nodes, p \in Pids, i \in Ids :
        InFlight(e, n, i, p) =>
          InFlight(d, n, i, p) \/ (n = m /\ p = d.choice /\ i = now)
  <2>1. CASE PutOnItsWay(d, e, m, note)
    <3>1. \A n \in Nodes, p \in Pids, i \in Ids :
            InFlight(e, n, i, p) => \/ InFlight(d, n, i, p)
                                    \/ n = m /\ p = note.pid /\ i = note.id
      BY <1>0, <1>1, <1>4, <2>1, Sent
    <3> QED
      BY <1>1, <3>1
  <2>2. CASE e.outbox = d.outbox
    BY <2>2, SameWords
  <2> QED
    BY <1>3, <2>1, <2>2
<1>6. Coherent(e)
  BY <1>0, <1>3, <1>4 DEF Ready, Coherent, AskedFor
<1>7. now <= now
  BY DEF Ids
<1>8. OnlyAsked(e, now)
  <2>1. OnlyAsked(d, now)
    BY DEF Ready
  <2>2. \A i \in Ids : e.sent[i] # "none" => d.sent[i] # "none" \/ i = now
    BY <1>0, <1>3, DialogFields
  <2> QED
    BY <1>0, <1>3, <1>4, <1>5, <1>7, <2>1, <2>2 DEF OnlyAsked, AskedFor
<1>9. Watching(e)
  <2> SUFFICES ASSUME NEW n \in Nodes, NEW p \in Pids, p \notin e.missed[n],
                      ~(p = d.choice /\ n = m)
               PROVE  Released(e, n, p)
    BY <1>3 DEF Watching
  <2>1. d.missed \in [Nodes -> SUBSET Pids]
    BY <1>0, DialogFields
  <2>2. p \notin d.missed[n]
    BY <1>3, <2>1
  <2>3. Released(d, n, p)
    BY <1>0, <2>2, PidsAssumption DEF Ready, Watching
  <2>4. CASE PutOnItsWay(d, e, m, note)
    <3>1. ~(n = m /\ p = note.pid)
      BY <1>1
    <3> QED
      BY <1>0, <1>1, <1>4, <2>3, <2>4, <3>1, SentReleases
  <2>5. CASE e.outbox = d.outbox
    BY <2>3, <2>5, SameWords
  <2> QED
    BY <1>3, <2>4, <2>5
<1>10. Good(e)
  BY <1>3, <1>6, <1>7, <1>8, <1>9 DEF Good
<1> QED
  BY <1>2, <1>10

\* Whether a Write has completed says nothing about what was sent.
LEMMA MeanwhileKeeps ==
  ASSUME NEW d, Good(d), NEW swift \in BOOLEAN
  PROVE  /\ Good(Meanwhile(d, swift))
         /\ Meanwhile(d, swift).pid = d.pid /\ Meanwhile(d, swift).pids = d.pids
         /\ Meanwhile(d, swift).choice = d.choice
         /\ \A n \in Nodes, p \in Pids, i \in Ids :
              InFlight(Meanwhile(d, swift), n, i, p) <=> InFlight(d, n, i, p)
<1>1. d \in Dialog
  BY DEF Good, Coherent
<1>2. [n \in Nodes |-> d.busy[n] /\ ~swift] \in [Nodes -> BOOLEAN]
  BY <1>1, DialogFields
<1>3. PICK e : e = Meanwhile(d, swift)
  OBVIOUS
<1>4. /\ e \in Dialog /\ e.pid = d.pid /\ e.pids = d.pids /\ e.choice = d.choice
      /\ e.node = d.node /\ e.lastNid = d.lastNid /\ e.sent = d.sent /\ e.shown = d.shown
      /\ e.page = d.page /\ e.filled = d.filled /\ e.outbox = d.outbox /\ e.missed = d.missed
  BY <1>1, <1>2, <1>3, ZenonT(30) DEF Meanwhile, Dialog
<1>5. \A n \in Nodes, p \in Pids :
        /\ Released(e, n, p) <=> Released(d, n, p)
        /\ \A i \in Ids : InFlight(e, n, i, p) <=> InFlight(d, n, i, p)
  BY <1>4, SameWords
<1>6. Coherent(e)
  BY <1>4 DEF Good, Coherent, AskedFor
<1>7. OnlyAsked(e, e.lastNid)
  BY <1>4, <1>5 DEF Good, OnlyAsked, AskedFor
<1>8. Watching(e)
  BY <1>4, <1>5 DEF Good, Watching
<1>9. Good(e)
  BY <1>4, <1>6, <1>7, <1>8 DEF Good
<1> QED
  BY <1>3, <1>4, <1>5, <1>9

\* What is neither sent, asked nor registered can change at will.
LEMMA Redrawn ==
  ASSUME NEW d, Good(d), NEW e, Coherent(e),
         e.pid = d.pid, e.pids = d.pids, e.node = d.node, e.lastNid = d.lastNid,
         \A i \in Ids : e.sent[i] # "none" => d.sent[i] # "none",
         e.outbox = d.outbox, e.missed = d.missed
  PROVE  Good(e)
<1>1. \A n \in Nodes, p \in Pids :
        /\ Released(e, n, p) <=> Released(d, n, p)
        /\ \A i \in Ids : InFlight(e, n, i, p) <=> InFlight(d, n, i, p)
  BY SameWords
<1>2. OnlyAsked(e, e.lastNid)
  BY <1>1 DEF Good, OnlyAsked, AskedFor
<1>3. Watching(e)
  BY <1>1 DEF Good, Watching
<1> QED
  BY <1>2, <1>3 DEF Good

LEMMA ClearIs ==
  ASSUME NEW d \in Dialog
  PROVE  /\ Clear(d) \in Dialog
         /\ Clear(d).shown = NoData /\ Clear(d).filled = Empty
         /\ Clear(d).visible = d.visible /\ Clear(d).pids = d.pids
         /\ Clear(d).choice = d.choice /\ Clear(d).pid = d.pid
         /\ Clear(d).node = d.node /\ Clear(d).running = d.running
         /\ Clear(d).lastNid = d.lastNid /\ Clear(d).sent = d.sent
         /\ Clear(d).page = d.page /\ Clear(d).busy = d.busy
         /\ Clear(d).outbox = d.outbox /\ Clear(d).missed = d.missed
<1>1. Empty \in [Parts -> Data \cup {NoData}]
  BY DEF Empty
<1> QED
  BY <1>1, ZenonT(30) DEF Clear, Dialog

LEMMA ClearKeeps ==
  ASSUME NEW d, Good(d)
  PROVE  Good(Clear(d)) /\ Clear(d).pid = d.pid /\ Clear(d).choice = d.choice
<1>1. d \in Dialog
  BY DEF Good, Coherent
<1>2. PICK e \in Dialog : e = Clear(d)
  BY <1>1, ClearIs
<1>3. /\ e.shown = NoData /\ e.filled = Empty
      /\ e.pids = d.pids /\ e.choice = d.choice /\ e.pid = d.pid /\ e.node = d.node
      /\ e.lastNid = d.lastNid /\ e.sent = d.sent /\ e.page = d.page
      /\ e.outbox = d.outbox /\ e.missed = d.missed
  BY <1>1, <1>2, ClearIs
<1>4. {e.page} \cup Labels \subseteq Parts
  BY DialogFields DEF Parts
<1>5. Coherent(e)
  BY <1>3, <1>4 DEF Good, Coherent, Empty
<1>6. Good(e)
  BY <1>3, <1>5, Redrawn
<1> QED
  BY <1>2, <1>3, <1>6

\* Opened for other processes after it was stopped, the dialog can ask for the
\* first of them: what is in flight under this second's number is one of them.
LEMMA OfferReady ==
  ASSUME NEW d, Good(d), d.pid = NoPid, NEW pids \in Selections, now \in Ids,
         MaxClock \in Nat,
         \A n \in Nodes, p \in Pids : InFlight(d, n, now, p) => p \in DOMAIN pids /\ pids[p] = n
  PROVE  Ready(Offer(Reset(d), pids)) /\ Offer(Reset(d), pids).choice # NoPid
<1>0. d \in Dialog
  BY DEF Good, Coherent
<1>1. PICK c \in Dialog : c = Clear(d)
  BY <1>0, ClearIs
<1>2. /\ c.shown = NoData /\ c.filled = Empty /\ c.page = d.page
      /\ c.outbox = d.outbox /\ c.missed = d.missed
  BY <1>0, <1>1, ClearIs
<1>3. NothingSent \in [Ids -> Types \cup {"none"}] /\ 0 \in Ids
  BY DEF NothingSent, Ids
<1>4. PICK r : r = Reset(d)
  OBVIOUS
<1>5. /\ r \in Dialog /\ r.pid = NoPid /\ r.sent = NothingSent
      /\ r.shown = c.shown /\ r.filled = c.filled /\ r.page = c.page
      /\ r.outbox = c.outbox /\ r.missed = c.missed
  BY <1>1, <1>3, <1>4, ZenonT(30) DEF Reset, Dialog
<1>6. PICK first : first = CHOOSE p \in DOMAIN pids : Before[p] \cap DOMAIN pids = {}
  OBVIOUS
<1>7. first \in DOMAIN pids /\ first \in Pids /\ DOMAIN pids \subseteq Pids /\ pids # <<>>
  <2>1. DOMAIN pids \in (SUBSET Pids) \ {{}}
    BY DEF Selections
  <2>2. \E p \in DOMAIN pids : Before[p] \cap DOMAIN pids = {}
    BY <2>1, PidsAssumption
  <2> QED
    BY <1>6, <2>1, <2>2
<1>8. PICK e : e = Offer(Reset(d), pids)
  OBVIOUS
<1>9. /\ e \in Dialog /\ e.pids = pids /\ e.choice = first /\ e.pid = r.pid
      /\ e.sent = r.sent /\ e.shown = r.shown /\ e.filled = r.filled /\ e.page = r.page
      /\ e.outbox = r.outbox /\ e.missed = r.missed
  <2>1. e = [r EXCEPT !.pids = pids, !.visible = TRUE, !.choice = first]
    BY <1>4, <1>6, <1>8 DEF Offer
  <2> QED
    BY <1>5, <1>7, <2>1, ZenonT(30) DEF Dialog
<1>10. \A n \in Nodes, p \in Pids :
         /\ Released(e, n, p) <=> Released(d, n, p)
         /\ \A i \in Ids : InFlight(e, n, i, p) <=> InFlight(d, n, i, p)
  BY <1>2, <1>5, <1>9, SameWords
<1>11. Coherent(e)
  <2>1. {e.page} \cup Labels \subseteq Parts
    BY <1>9, DialogFields DEF Parts
  <2> QED
    BY <1>2, <1>5, <1>7, <1>9, <2>1 DEF Coherent, Empty
<1>12. OnlyAsked(e, now)
  <2>1. OnlyAsked(d, now)
    BY <1>0, AskedByNow DEF Good
  <2>2. \A i \in Ids : e.sent[i] = "none"
    BY <1>5, <1>9 DEF NothingSent
  <2> QED
    BY <1>7, <1>9, <1>10, <2>1, <2>2 DEF OnlyAsked, AskedFor
<1>13. Watching(e)
  <2> SUFFICES ASSUME NEW n \in Nodes, NEW p \in Pids, p \notin e.missed[n]
               PROVE  Released(e, n, p)
    BY DEF Watching
  <2>1. p \notin d.missed[n] /\ d.pid # p
    BY <1>2, <1>5, <1>9, PidsAssumption
  <2> QED
    BY <1>10, <2>1 DEF Good, Watching
<1>14. Ready(e) /\ e.choice # NoPid
  BY <1>5, <1>7, <1>9, <1>11, <1>12, <1>13, PidsAssumption DEF Ready
<1> QED
  BY <1>8, <1>14

-----------------------------------------------------------------------------
(* The steps.                                                              *)

\* A step of the dialog alone.
LEMMA DialogStep ==
  ASSUME IInv, NEW e, Good(e), ui' = e,
         UNCHANGED <<connected, watched, replies, now>>, clicks' \in 0 .. MaxClicks
  PROVE  IInv'
<1>1. ui' \in Dialog
  BY DEF Good, Coherent
<1>2. TypeOK'
  BY <1>1 DEF IInv, TypeOK
<1>3. OwnReports'
  BY DEF IInv, OwnReports
<1>4. Coherent(ui)' /\ ui'.lastNid <= now'
  BY DEF Good, Coherent, AskedFor
<1>5. \A n \in Nodes, p \in Pids :
        /\ Released(ui, n, p)' <=> Released(e, n, p)
        /\ \A i \in Ids : InFlight(ui, n, i, p)' <=> InFlight(e, n, i, p)
  BY DEF Released, Queued, IsLast, InFlight
<1>6. OnlyAsked(ui, ui.lastNid)'
  BY <1>5 DEF Good, OnlyAsked, AskedFor
<1>7. Watching(ui)'
  BY <1>5 DEF Good, Watching
<1> QED
  BY <1>2, <1>3, <1>4, <1>6, <1>7 DEF IInv

LEMMA StillGood ==
  ASSUME IInv
  PROVE  Good(ui) /\ ui \in Dialog /\ now \in Ids /\ MaxClock \in Nat
BY BoundsAssumption DEF IInv, TypeOK, Good

LEMMA Clicked ==
  ASSUME IInv, Click
  PROVE  clicks' \in 0 .. MaxClicks
BY BoundsAssumption DEF IInv, TypeOK, Click

LEMMA MonitorStep ==
  ASSUME IInv, NEW pids \in Selections, Monitor(pids)
  PROVE  IInv'
<1>1. PICK swift \in BOOLEAN : ui' = Start(Offer(Reset(Meanwhile(Stop(ui), swift)), pids))
  BY DEF Monitor, Opened
<1>2. PICK s : s = Stop(ui)
  OBVIOUS
<1>3. /\ Good(s) /\ s.pid = NoPid
      /\ \A n \in Nodes, p \in Pids, i \in Ids : InFlight(s, n, i, p) => InFlight(ui, n, i, p)
  BY <1>2, StillGood, StopKeeps
<1>4. PICK m : m = Meanwhile(s, swift)
  OBVIOUS
<1>5. /\ Good(m) /\ m.pid = NoPid
      /\ \A n \in Nodes, p \in Pids, i \in Ids : InFlight(m, n, i, p) => InFlight(ui, n, i, p)
  BY <1>3, <1>4, MeanwhileKeeps
<1>6. ASSUME NEW n \in Nodes, NEW p \in Pids, InFlight(m, n, now, p)
      PROVE  p \in DOMAIN pids /\ pids[p] = n
  <2>1. now \in Ids /\ ui.lastNid \in Ids /\ MaxClock \in Nat
    BY StillGood, DialogFields
  <2>2. InFlight(ui, n, now, p)
    BY <1>5, <1>6, <2>1
  <2>3. /\ ui.pids # <<>> /\ now <= ui.lastNid
        /\ now = ui.lastNid => p \in DOMAIN ui.pids /\ ui.pids[p] = n
    BY <2>1, <2>2 DEF IInv, OnlyAsked, AskedFor
  <2>4. ui.lastNid = now
    BY <2>1, <2>3 DEF IInv, Ids
  <2>5. ui.pids = pids
    BY <2>1, <2>3, <2>4 DEF Monitor, Ids
  <2> QED
    BY <2>3, <2>4, <2>5
<1>7. PICK o : o = Offer(Reset(m), pids)
  OBVIOUS
<1>8. Ready(o) /\ o.choice # NoPid
  BY <1>5, <1>6, <1>7, StillGood, OfferReady
<1>9. Good(Start(o))
  BY <1>8, StillGood, StartKeeps
<1>10. ui' = Start(o)
  BY <1>1, <1>2, <1>4, <1>7
<1> QED
  BY <1>9, <1>10, DialogStep, Clicked DEF Monitor, External

\* Start() where nothing is monitored.
LEMMA StartsWell ==
  ASSUME NEW d, Good(d), d.pid = NoPid, now \in Ids, MaxClock \in Nat
  PROVE  Good(Start(d))
<1>1. CASE d.choice = NoPid
  BY <1>1 DEF Start
<1>2. CASE d.choice # NoPid
  <2>1. Ready(d)
    BY AskedByNow DEF Ready, Good, Coherent
  <2> QED
    BY <1>2, <2>1, StartKeeps
<1> QED
  BY <1>1, <1>2

LEMMA ChangePidStep ==
  ASSUME IInv, NEW p \in Pids, ChangePid(p)
  PROVE  IInv'
<1>1. PICK c : c = [ui EXCEPT !.choice = p]
  OBVIOUS
<1>2. Good(c)
  <2>1. /\ c \in Dialog /\ c.pid = ui.pid /\ c.pids = ui.pids /\ c.node = ui.node
        /\ c.lastNid = ui.lastNid /\ c.sent = ui.sent /\ c.outbox = ui.outbox
        /\ c.missed = ui.missed /\ c.shown = ui.shown /\ c.filled = ui.filled
        /\ c.page = ui.page /\ c.choice = p
    BY <1>1, StillGood, ZenonT(30) DEF Dialog
  <2>2. Coherent(c)
    BY <2>1 DEF IInv, Coherent, AskedFor, ChangePid
  <2> QED
    BY <2>1, <2>2, StillGood, Redrawn
<1>3. \/ ui' = c
      \/ ui' = Clear(c)
      \/ \E swift \in BOOLEAN : ui' = Start(Meanwhile(Stop(Clear(c)), swift))
  BY <1>1 DEF ChangePid, PidChanged
<1>4. Good(Clear(c))
  BY <1>2, ClearKeeps
<1>5. ASSUME NEW swift \in BOOLEAN
      PROVE  Good(Start(Meanwhile(Stop(Clear(c)), swift)))
  <2>1. PICK s : s = Stop(Clear(c))
    OBVIOUS
  <2>2. Good(s) /\ s.pid = NoPid
    BY <1>4, <2>1, StillGood, StopKeeps
  <2>3. PICK m : m = Meanwhile(s, swift)
    OBVIOUS
  <2>4. Good(m) /\ m.pid = NoPid
    BY <2>2, <2>3, MeanwhileKeeps
  <2>5. Good(Start(m))
    BY <2>4, StillGood, StartsWell
  <2> QED
    BY <2>1, <2>3, <2>5
<1>6. PICK e : ui' = e /\ Good(e)
  BY <1>2, <1>3, <1>4, <1>5
<1> QED
  BY <1>6, DialogStep, Clicked DEF ChangePid, External

LEMMA ToggleStep ==
  ASSUME IInv, ToggleAction
  PROVE  IInv'
<1>1. Good(Stop(ui))
  BY StillGood, StopKeeps
<1>2. Good(Start(ui))
  <2>1. CASE ui.pid = NoPid
    BY <2>1, StillGood, StartsWell
  <2>2. CASE ui.pid # NoPid
    BY <2>2, StillGood DEF Start
  <2> QED
    BY <2>1, <2>2
<1>3. PICK e : ui' = e /\ Good(e)
  BY <1>1, <1>2 DEF ToggleAction
<1> QED
  BY <1>3, DialogStep, Clicked DEF ToggleAction, External

\* A tab is rendered from what the header shows.
LEMMA Loaded ==
  ASSUME NEW d \in Dialog, NEW data \in Data
  PROVE  /\ Load(d, data) \in Dialog
         /\ \A g \in Parts :
              Load(d, data).filled[g] = IF g \in Visible(d) \ data.lacks
                                        THEN data ELSE d.filled[g]
         /\ Load(d, data).shown = data
         /\ Load(d, data).visible = d.visible /\ Load(d, data).pids = d.pids
         /\ Load(d, data).choice = d.choice /\ Load(d, data).pid = d.pid
         /\ Load(d, data).node = d.node /\ Load(d, data).running = d.running
         /\ Load(d, data).lastNid = d.lastNid /\ Load(d, data).sent = d.sent
         /\ Load(d, data).page = d.page /\ Load(d, data).busy = d.busy
         /\ Load(d, data).outbox = d.outbox /\ Load(d, data).missed = d.missed
<1>1. PICK f : f = [g \in Parts |-> IF g \in Visible(d) \ data.lacks
                                    THEN data ELSE d.filled[g]]
  OBVIOUS
<1>2. f \in [Parts -> Data \cup {NoData}]
  BY <1>1, DialogFields
<1>3. Load(d, data) = [[d EXCEPT !.filled = f] EXCEPT !.shown = data]
  BY <1>1 DEF Load, Rendered
<1>4. \A g \in Parts : f[g] = IF g \in Visible(d) \ data.lacks THEN data ELSE d.filled[g]
  BY <1>1
<1>5. Load(d, data).filled = f
  BY <1>2, <1>3, ZenonT(30) DEF Dialog
<1> QED
  BY <1>2, <1>3, <1>4, <1>5, ZenonT(30) DEF Dialog

\* A report about one of the processes the dialog was opened for, from its node.
LEMMA LoadKeeps ==
  ASSUME NEW d \in Dialog, NEW data \in Data, data # NoData, NEW g, Good(g),
         d.pid = g.pid, d.pids = g.pids, d.node = g.node, d.choice = g.choice,
         d.lastNid = g.lastNid, d.sent = g.sent, d.outbox = g.outbox, d.missed = g.missed,
         d.filled = g.filled, AskedFor(g, data.node, data.pid)
  PROVE  Good(Load(d, data))
<1>1. PICK e \in Dialog : e = Load(d, data)
  BY Loaded
<1>2. /\ \A h \in Parts : e.filled[h] = IF h \in Visible(d) \ data.lacks
                                       THEN data ELSE g.filled[h]
      /\ e.shown = data
      /\ e.pids = g.pids /\ e.choice = g.choice /\ e.pid = g.pid
      /\ e.node = g.node /\ e.lastNid = g.lastNid /\ e.sent = g.sent
      /\ e.page = d.page /\ e.outbox = g.outbox /\ e.missed = g.missed
  BY <1>1, Loaded
<1>3. \A h \in {e.page} \cup Labels : e.filled[h] = e.shown \/ h \in e.shown.lacks
  <2>1. {e.page} \cup Labels \subseteq Parts
    BY DialogFields DEF Parts
  <2> QED
    BY <1>2, <2>1 DEF Visible
<1>4. \A h \in Parts : e.filled[h] # NoData => AskedFor(e, e.filled[h].node, e.filled[h].pid)
  BY <1>2 DEF Good, Coherent, AskedFor
<1>5. Coherent(e)
  BY <1>2, <1>3, <1>4 DEF Good, Coherent, AskedFor
<1>6. Good(e)
  BY <1>2, <1>5, Redrawn
<1> QED
  BY <1>1, <1>6

LEMMA ChangeTabStep ==
  ASSUME IInv, NEW g \in Pages, ChangeTab(g)
  PROVE  IInv'
<1>1. PICK d : d = [ui EXCEPT !.page = g]
  OBVIOUS
<1>2. /\ d \in Dialog /\ d.pid = ui.pid /\ d.pids = ui.pids /\ d.node = ui.node
      /\ d.choice = ui.choice /\ d.lastNid = ui.lastNid /\ d.sent = ui.sent
      /\ d.outbox = ui.outbox /\ d.missed = ui.missed /\ d.shown = ui.shown
      /\ d.filled = ui.filled /\ d.page = g
  BY <1>1, StillGood, ZenonT(30) DEF Dialog
<1>3. CASE ui.shown = NoData
  <2>1. ui' = d
    BY <1>1, <1>3 DEF ChangeTab
  <2>2. Coherent(d)
    BY <1>2, <1>3 DEF IInv, Coherent, AskedFor, Parts
  <2>3. Good(d)
    BY <1>2, <2>2, StillGood, Redrawn
  <2> QED
    BY <2>1, <2>3, DialogStep, Clicked DEF ChangeTab, External
<1>4. CASE ui.shown # NoData
  <2>1. ui' = Load(d, ui.shown)
    BY <1>1, <1>4 DEF ChangeTab
  <2>2. ui.shown \in Data /\ AskedFor(ui, ui.shown.node, ui.shown.pid)
    BY <1>4, StillGood, DialogFields DEF IInv, Coherent
  <2>3. Good(Load(d, ui.shown))
    BY <1>2, <1>4, <2>2, StillGood, LoadKeeps
  <2> QED
    BY <2>1, <2>3, DialogStep, Clicked DEF ChangeTab, External
<1> QED
  BY <1>3, <1>4

LEMMA HideStep ==
  ASSUME IInv, Close \/ Dismiss
  PROVE  IInv'
<1>1. PICK d : /\ Good(d) /\ ui' = [d EXCEPT !.visible = FALSE]
  BY StillGood, StopKeeps DEF Close, Dismiss
<1>2. d \in Dialog
  BY <1>1 DEF Good, Coherent
<1>3. PICK e : e = [d EXCEPT !.visible = FALSE]
  OBVIOUS
<1>4. /\ e \in Dialog /\ e.pid = d.pid /\ e.pids = d.pids /\ e.node = d.node
      /\ e.choice = d.choice /\ e.lastNid = d.lastNid /\ e.sent = d.sent
      /\ e.outbox = d.outbox /\ e.missed = d.missed /\ e.shown = d.shown
      /\ e.filled = d.filled /\ e.page = d.page
  BY <1>2, <1>3, ZenonT(30) DEF Dialog
<1>5. Coherent(e)
  BY <1>1, <1>4 DEF Good, Coherent, AskedFor
<1>6. Good(e)
  BY <1>1, <1>4, <1>5, Redrawn
<1> QED
  BY <1>1, <1>3, <1>6, DialogStep, Clicked DEF Close, Dismiss, External

-----------------------------------------------------------------------------
(* The streams and the daemons.                                            *)

\* Steps after which less is in flight, and what was released still is.
LEMMA WordsStep ==
  ASSUME NEW d, Good(d), TypeOK', OwnReports', Coherent(ui)', ui'.lastNid <= now',
         ui'.pid = d.pid, ui'.pids = d.pids, ui'.node = d.node, ui'.lastNid = d.lastNid,
         ui'.sent = d.sent,
         \A n \in Nodes, p \in Pids : p \notin ui'.missed[n] =>
           p \notin d.missed[n] /\ (Released(d, n, p) => Released(ui, n, p)'),
         \A n \in Nodes, p \in Pids, i \in Ids :
           InFlight(ui, n, i, p)' => InFlight(d, n, i, p)
  PROVE  IInv'
<1>1. OnlyAsked(ui, ui.lastNid)'
  BY DEF Good, OnlyAsked, AskedFor
<1>2. Watching(ui)'
  BY DEF Good, Watching
<1> QED
  BY <1>1, <1>2 DEF IInv

LEMMA HandledWell ==
  ASSUME IInv, NEW n \in Nodes, replies[n] # <<>>
  PROVE  Good(Handled(ui, n, Head(replies[n])))
<1>1. PICK r : r = Head(replies[n])
  OBVIOUS
<1>2. /\ r \in Reply /\ 1 \in DOMAIN replies[n] /\ r = replies[n][1]
  <2>1. replies[n] \in Seq(Reply)
    BY DEF IInv, TypeOK
  <2> QED
    BY <1>1, <2>1
<1>3. r.id \in Ids /\ r.data \in Data \cup {NoData}
  BY <1>2 DEF Reply
<1>4. CASE ui.sent[r.id] = "none" \/ ui.node # n
  BY <1>1, <1>4, StillGood DEF Handled
<1>5. CASE ~(ui.sent[r.id] = "none" \/ ui.node # n)
  <2>1. [ui.sent EXCEPT ![r.id] = "none"] \in [Ids -> Types \cup {"none"}]
    BY StillGood, DialogFields
  <2>2. \A i \in Ids : [ui.sent EXCEPT ![r.id] = "none"][i] # "none" => ui.sent[i] # "none"
    BY StillGood, DialogFields
  <2>3. ASSUME NEW e \in Dialog, e.sent = [ui.sent EXCEPT ![r.id] = "none"],
               e.pid = ui.pid, e.pids = ui.pids, e.node = ui.node, e.choice = ui.choice,
               e.lastNid = ui.lastNid, e.outbox = ui.outbox, e.missed = ui.missed,
               e.shown = ui.shown, e.filled = ui.filled, e.page = ui.page
        PROVE  Good(e)
    <3>1. Coherent(e)
      BY <2>3 DEF IInv, Coherent, AskedFor
    <3>2. \A i \in Ids : e.sent[i] # "none" => ui.sent[i] # "none"
      BY <2>2, <2>3
    <3>3. Good(ui)
      BY StillGood
    <3> QED
      BY <2>3, <3>1, <3>2, <3>3, Redrawn
  <2>4. CASE r.code = "ERROR"
    <3>1. PICK e : e = Failed(ui, r.id)
      OBVIOUS
    <3>2. PICK seen \in BOOLEAN :
            e = [ui EXCEPT !.sent[r.id] = "none", !.running = FALSE, !.visible = seen]
      <4>1. (ui.visible /\ (ui.shown # NoData \/ Cardinality(DOMAIN ui.pids) > 1)) \in BOOLEAN
        OBVIOUS
      <4> QED
        BY <3>1, <4>1 DEF Failed
    <3>3. Good(e)
      BY <2>1, <2>3, <3>2, StillGood, ZenonT(30) DEF Dialog
    <3> QED
      BY <1>1, <1>5, <2>4, <3>1, <3>3 DEF Handled
  <2>5. CASE r.code # "ERROR" /\ ui.sent[r.id] = "STOP_MONITOR_PROCESS"
    <3>1. PICK e : e = [ui EXCEPT !.sent[r.id] = "none"]
      OBVIOUS
    <3>2. Good(e)
      BY <2>1, <2>3, <3>1, StillGood, ZenonT(30) DEF Dialog
    <3> QED
      BY <1>1, <1>5, <2>5, <3>1, <3>2 DEF Handled
  <2>6. CASE r.code # "ERROR" /\ ui.sent[r.id] # "STOP_MONITOR_PROCESS" /\ r.data = NoData
    BY <1>1, <1>5, <2>6, StillGood DEF Handled
  <2>7. CASE r.code # "ERROR" /\ ui.sent[r.id] # "STOP_MONITOR_PROCESS" /\ r.data # NoData
    <3>1. r.data \in Data /\ r.data.pid \in Pids /\ r.data.node = n
      BY <1>2, <1>3, <2>7 DEF IInv, OwnReports, Data
    <3>2. InFlight(ui, n, r.id, r.data.pid)
      BY <1>2, <2>7 DEF InFlight
    <3>3. AskedFor(ui, n, r.data.pid)
      BY <1>3, <1>5, <3>1, <3>2 DEF IInv, OnlyAsked
    <3>4. Good(Load(ui, r.data))
      BY <2>7, <3>1, <3>3, StillGood, LoadKeeps
    <3> QED
      BY <1>1, <1>5, <2>7, <3>4 DEF Handled
  <2> QED
    BY <2>4, <2>5, <2>6, <2>7
<1> QED
  BY <1>4, <1>5

LEMMA HandleReplyStep ==
  ASSUME IInv, NEW n \in Nodes, HandleReply(n)
  PROVE  IInv'
<1>1. PICK e : e = Handled(ui, n, Head(replies[n]))
  OBVIOUS
<1>2. Good(e) /\ ui' = e /\ e \in Dialog
  BY <1>1, HandledWell DEF HandleReply, Good, Coherent
<1>3. /\ replies' \in [Nodes -> Seq(Reply)]
      /\ \A m \in Nodes : \A k \in DOMAIN replies'[m] :
           \E j \in DOMAIN replies[m] : replies'[m][k] = replies[m][j]
  <2>1. /\ replies' = [replies EXCEPT ![n] = Tail(@)] /\ replies[n] # <<>>
        /\ replies \in [Nodes -> Seq(Reply)]
    BY DEF HandleReply, IInv, TypeOK
  <2>2. Tail(replies[n]) \in Seq(Reply)
    BY <2>1
  <2>3. \A k \in DOMAIN Tail(replies[n]) :
          k + 1 \in DOMAIN replies[n] /\ Tail(replies[n])[k] = replies[n][k + 1]
    <3> DEFINE s == replies[n]
    <3>1. s \in Seq(Reply) /\ s # <<>>
      BY <2>1
    <3> HIDE DEF s
    <3>2. \A k \in DOMAIN Tail(s) : k + 1 \in DOMAIN s /\ Tail(s)[k] = s[k + 1]
      BY <3>1
    <3> QED
      BY <3>2 DEF s
  <2>4. \A k \in DOMAIN Tail(replies[n]) :
          \E j \in DOMAIN replies[n] : Tail(replies[n])[k] = replies[n][j]
    BY <2>3
  <2>5. /\ replies'[n] = Tail(replies[n])
        /\ \A m \in Nodes : m # n => replies'[m] = replies[m]
        /\ replies' \in [Nodes -> Seq(Reply)]
    BY <2>1, <2>2
  <2>6. ASSUME NEW m \in Nodes, NEW k \in DOMAIN replies'[m]
        PROVE  \E j \in DOMAIN replies[m] : replies'[m][k] = replies[m][j]
    <3>1. CASE m = n
      BY <2>4, <2>5, <3>1
    <3>2. CASE m # n
      BY <2>5, <3>2
    <3> QED
      BY <3>1, <3>2
  <2> QED
    BY <2>5, <2>6
<1>4. OwnReports'
  BY <1>3 DEF IInv, OwnReports
<1>5. TypeOK'
  BY <1>2, <1>3 DEF IInv, TypeOK, HandleReply
<1>6. \A m \in Nodes, p \in Pids :
        /\ Released(e, m, p) => Released(ui, m, p)'
        /\ \A i \in Ids : InFlight(ui, m, i, p)' => InFlight(e, m, i, p)
  <2>1. \A m \in Nodes, p \in Pids : Released(e, m, p) => Released(ui, m, p)'
    BY <1>2 DEF HandleReply, Released, Queued, IsLast
  <2>2. ASSUME NEW m \in Nodes, NEW p \in Pids, NEW i \in Ids, InFlight(ui, m, i, p)'
        PROVE  InFlight(e, m, i, p)
    <3>1. CASE \E k \in DOMAIN replies'[m] :
                 /\ replies'[m][k].id = i /\ replies'[m][k].data # NoData
                 /\ replies'[m][k].data.pid = p
      BY <1>3, <3>1 DEF InFlight
    <3>2. CASE ~\E k \in DOMAIN replies'[m] :
                 /\ replies'[m][k].id = i /\ replies'[m][k].data # NoData
                 /\ replies'[m][k].data.pid = p
      BY <1>2, <2>2, <3>2 DEF InFlight, HandleReply
    <3> QED
      BY <3>1, <3>2
  <2> QED
    BY <2>1, <2>2
<1>7. Coherent(ui)' /\ ui'.lastNid <= now'
  BY <1>2 DEF HandleReply, Good, Coherent, AskedFor
<1> QED
  BY <1>2, <1>4, <1>5, <1>6, <1>7, WordsStep

\* Nothing else but what the daemon n has in hand changes.
LEMMA TailIs ==
  ASSUME NEW S, NEW s \in Seq(S), s # <<>>
  PROVE  /\ Tail(s) \in Seq(S) /\ Head(s) = s[1] /\ 1 \in DOMAIN s
         /\ \A k \in DOMAIN Tail(s) : k + 1 \in DOMAIN s /\ Tail(s)[k] = s[k + 1]
         /\ \A k \in DOMAIN s : k # 1 => k - 1 \in DOMAIN Tail(s) /\ Tail(s)[k - 1] = s[k]
         /\ DOMAIN s \subseteq Nat /\ DOMAIN Tail(s) \subseteq Nat
         /\ \A k \in DOMAIN s : k >= 1
OBVIOUS

\* A daemon takes the next notification: the word becomes a watch, or ends one.
LEMMA Taken ==
  ASSUME IInv, NEW n \in Nodes, Receive(n), NEW p \in Pids
  PROVE  /\ Released(ui, n, p) => Released(ui, n, p)'
         /\ \A i \in Ids : InFlight(ui, n, i, p)' => InFlight(ui, n, i, p)
<1> DEFINE s == ui.outbox[n]
           t == Tail(ui.outbox[n])
           note == Head(ui.outbox[n])
<1>1. /\ s \in Seq(Note) /\ s # <<>> /\ ui.outbox \in [Nodes -> Seq(Note)]
      /\ ui' = [ui EXCEPT !.outbox[n] = Tail(@)]
      /\ watched \in [Nodes -> [Pids -> Ids \cup {NoData}]]
      /\ replies \in [Nodes -> Seq(Reply)]
  BY StillGood, DialogFields DEF Receive, IInv, TypeOK
<1>2. ui'.outbox[n] = t
  BY <1>1, StillGood, ZenonT(30) DEF Dialog
<1>3. /\ t \in Seq(Note) /\ note = s[1] /\ 1 \in DOMAIN s
      /\ \A k \in DOMAIN t : k + 1 \in DOMAIN s /\ t[k] = s[k + 1]
      /\ \A k \in DOMAIN s : k # 1 => k - 1 \in DOMAIN t /\ t[k - 1] = s[k]
      /\ DOMAIN s \subseteq Nat /\ DOMAIN t \subseteq Nat
      /\ \A k \in DOMAIN s : k >= 1
  BY <1>1, TailIs
<1>4. note \in Note /\ note.pid \in Pids /\ note.id \in Ids
  <2> HIDE DEF s, t, note
  <2>1. note \in Note
    BY <1>1, <1>3
  <2> QED
    BY <2>1 DEF Note
<1>5. \/ /\ note.type = "MONITOR_PROCESS"
         /\ watched' = [watched EXCEPT ![n][note.pid] = note.id]
         /\ replies' = replies
      \/ /\ note.type = "STOP_MONITOR_PROCESS"
         /\ watched' = [watched EXCEPT ![n][note.pid] = NoData]
         /\ replies' = [replies EXCEPT ![n] =
                          Append(@, [id |-> note.id, code |-> "OK", data |-> NoData])]
  BY DEF Receive, Answer
<1> HIDE DEF s, t, note
<1>6. /\ p # note.pid => watched'[n][p] = watched[n][p]
      /\ p = note.pid /\ note.type = "MONITOR_PROCESS" => watched'[n][p] = note.id
      /\ p = note.pid /\ note.type # "MONITOR_PROCESS" => watched'[n][p] = NoData
  BY <1>1, <1>4, <1>5
<1>7. ASSUME Released(ui, n, p) PROVE Released(ui, n, p)'
  <2>0. /\ watched[n][p] # NoData => \E k \in DOMAIN s : s[k].pid = p
        /\ \A k \in DOMAIN s :
             s[k].pid = p /\ (\A j \in DOMAIN s : j > k => s[j].pid # s[k].pid)
               => s[k].type # "MONITOR_PROCESS"
    BY <1>7 DEF Released, Queued, IsLast, s
  <2>1. ASSUME watched'[n][p] # NoData PROVE \E k \in DOMAIN t : t[k].pid = p
    <3>1. CASE p = note.pid
      <4>1. note.type = "MONITOR_PROCESS"
        BY <1>6, <2>1, <3>1
      <4>2. PICK j \in DOMAIN s : j > 1 /\ s[j].pid = p
        BY <1>3, <2>0, <3>1, <4>1
      <4> QED
        BY <1>3, <4>2
    <3>2. CASE p # note.pid
      <4>1. PICK k \in DOMAIN s : s[k].pid = p
        BY <1>6, <2>0, <2>1, <3>2
      <4> QED
        BY <1>3, <3>2, <4>1
    <3> QED
      BY <3>1, <3>2
  <2>2. ASSUME NEW k \in DOMAIN t, t[k].pid = p,
               \A j \in DOMAIN t : j > k => t[j].pid # t[k].pid
        PROVE  t[k].type # "MONITOR_PROCESS"
    <3>1. k + 1 \in DOMAIN s /\ t[k] = s[k + 1] /\ k \in Nat
      BY <1>3
    <3>2. ASSUME NEW j \in DOMAIN s, j > k + 1 PROVE s[j].pid # s[k + 1].pid
      <4>1. j - 1 \in DOMAIN t /\ t[j - 1] = s[j] /\ j - 1 > k
        BY <1>3, <3>1, <3>2
      <4> QED
        BY <2>2, <3>1, <4>1
    <3> QED
      BY <2>0, <2>2, <3>1, <3>2
  <2> QED
    BY <1>2, <2>1, <2>2 DEF Released, Queued, IsLast
<1>8. ASSUME NEW i \in Ids, InFlight(ui, n, i, p)' PROVE InFlight(ui, n, i, p)
  <2>1. CASE \E k \in DOMAIN t : t[k].id = i /\ t[k].pid = p /\ t[k].type = "MONITOR_PROCESS"
    <3>1. \E k \in DOMAIN s : s[k].id = i /\ s[k].pid = p /\ s[k].type = "MONITOR_PROCESS"
      BY <1>3, <2>1
    <3> QED
      BY <3>1 DEF InFlight, s
  <2>2. CASE watched'[n][p] # NoData /\ watched'[n][p] = i
    <3>1. CASE watched'[n][p] = watched[n][p]
      BY <2>2, <3>1 DEF InFlight
    <3>2. CASE watched'[n][p] # watched[n][p]
      <4>1. p = note.pid /\ note.type = "MONITOR_PROCESS" /\ i = note.id
        BY <1>6, <2>2, <3>2
      <4> QED
        BY <1>3, <4>1 DEF InFlight, s
    <3> QED
      BY <3>1, <3>2
  <2>3. CASE \E k \in DOMAIN replies'[n] :
               /\ replies'[n][k].id = i /\ replies'[n][k].data # NoData
               /\ replies'[n][k].data.pid = p
    <3>1. PICK k \in DOMAIN replies'[n] :
            /\ replies'[n][k].id = i /\ replies'[n][k].data # NoData
            /\ replies'[n][k].data.pid = p
      BY <2>3
    <3>2. k \in DOMAIN replies[n] /\ replies'[n][k] = replies[n][k]
      <4>1. CASE replies' = replies
        BY <4>1
      <4>2. CASE replies' = [replies EXCEPT ![n] =
                               Append(@, [id |-> note.id, code |-> "OK", data |-> NoData])]
        <5>1. /\ replies'[n] = Append(replies[n], [id |-> note.id, code |-> "OK", data |-> NoData])
              /\ replies[n] \in Seq(Reply)
          BY <1>1, <4>2
        <5> QED
          BY <3>1, <5>1
      <4> QED
        BY <1>5, <4>1, <4>2
    <3> QED
      BY <3>1, <3>2 DEF InFlight
  <2> QED
    BY <1>2, <1>8, <2>1, <2>2, <2>3 DEF InFlight
<1> QED
  BY <1>7, <1>8

LEMMA ReceiveStep ==
  ASSUME IInv, NEW n \in Nodes, Receive(n)
  PROVE  IInv'
<1>1. /\ ui' = [ui EXCEPT !.outbox[n] = Tail(@)] /\ ui.outbox[n] # <<>>
      /\ UNCHANGED <<connected, now, clicks>>
      /\ ui.outbox \in [Nodes -> Seq(Note)]
  BY StillGood, DialogFields DEF Receive
<1>2. PICK note : note = Head(ui.outbox[n])
  OBVIOUS
<1>3. note \in Note /\ Tail(ui.outbox[n]) \in Seq(Note)
  BY <1>1, <1>2, TailIs
<1>4. /\ ui' \in Dialog /\ ui'.outbox = [ui.outbox EXCEPT ![n] = Tail(@)]
      /\ ui'.pid = ui.pid /\ ui'.pids = ui.pids /\ ui'.node = ui.node
      /\ ui'.choice = ui.choice /\ ui'.lastNid = ui.lastNid /\ ui'.sent = ui.sent
      /\ ui'.missed = ui.missed /\ ui'.shown = ui.shown /\ ui'.filled = ui.filled
      /\ ui'.page = ui.page
  <2>1. [ui.outbox EXCEPT ![n] = Tail(@)] \in [Nodes -> Seq(Note)]
    BY <1>1, <1>3
  <2> QED
    BY <1>1, <2>1, StillGood, ZenonT(30) DEF Dialog
<1>5. \/ /\ watched' = [watched EXCEPT ![n][note.pid] = note.id]
         /\ replies' = replies
      \/ /\ watched' = [watched EXCEPT ![n][note.pid] = NoData]
         /\ replies' = [replies EXCEPT ![n] =
                          Append(@, [id |-> note.id, code |-> "OK", data |-> NoData])]
  BY <1>2 DEF Receive, Answer
<1>6. /\ watched' \in [Nodes -> [Pids -> Ids \cup {NoData}]]
      /\ replies' \in [Nodes -> Seq(Reply)]
      /\ \A m \in Nodes : m # n =>
           ui'.outbox[m] = ui.outbox[m] /\ watched'[m] = watched[m] /\ replies'[m] = replies[m]
      /\ \A k \in DOMAIN replies'[n] :
           replies'[n][k].data = NoData \/ (k \in DOMAIN replies[n] /\ replies'[n][k] = replies[n][k])
  <2>1. /\ watched \in [Nodes -> [Pids -> Ids \cup {NoData}]] /\ replies \in [Nodes -> Seq(Reply)]
        /\ note.id \in Ids /\ note.pid \in Pids
    BY <1>3 DEF IInv, TypeOK, Note
  <2>2. PICK r : r = [id |-> note.id, code |-> "OK", data |-> NoData]
    OBVIOUS
  <2>3. r \in Reply /\ r.data = NoData
    BY <2>1, <2>2 DEF Reply
  <2>4. /\ Append(replies[n], r) \in Seq(Reply)
        /\ \A k \in DOMAIN Append(replies[n], r) :
             \/ Append(replies[n], r)[k].data = NoData
             \/ k \in DOMAIN replies[n] /\ Append(replies[n], r)[k] = replies[n][k]
    BY <2>1, <2>3
  <2>5. CASE watched' = [watched EXCEPT ![n][note.pid] = note.id] /\ replies' = replies
    BY <1>1, <1>4, <2>1, <2>5
  <2>6. CASE /\ watched' = [watched EXCEPT ![n][note.pid] = NoData]
             /\ replies' = [replies EXCEPT ![n] = Append(@, r)]
    BY <1>1, <1>4, <2>1, <2>4, <2>6
  <2> QED
    BY <1>5, <2>2, <2>5, <2>6
<1>7. TypeOK'
  BY <1>1, <1>4, <1>6 DEF IInv, TypeOK
<1>8. OwnReports'
  <2> SUFFICES ASSUME NEW m \in Nodes, NEW k \in DOMAIN replies'[m], replies'[m][k].data # NoData
               PROVE  replies'[m][k].data.node = m
    BY DEF OwnReports
  <2>1. k \in DOMAIN replies[m] /\ replies'[m][k] = replies[m][k]
    BY <1>6
  <2> QED
    BY <2>1 DEF IInv, OwnReports
<1>9. Coherent(ui)' /\ ui'.lastNid <= now'
  BY <1>1, <1>4 DEF IInv, Coherent, AskedFor
<1>10. ASSUME NEW m \in Nodes, NEW p \in Pids
       PROVE  /\ Released(ui, m, p) => Released(ui, m, p)'
              /\ \A i \in Ids : InFlight(ui, m, i, p)' => InFlight(ui, m, i, p)
  <2>1. CASE m = n
    BY <2>1, Taken
  <2>2. CASE m # n
    <3>1. ui'.outbox[m] = ui.outbox[m] /\ watched'[m] = watched[m] /\ replies'[m] = replies[m]
      BY <1>6, <2>2
    <3>2. Released(ui, m, p)' <=> Released(ui, m, p)
      BY <3>1 DEF Released, Queued, IsLast
    <3>3. \A i \in Ids : InFlight(ui, m, i, p)' <=> InFlight(ui, m, i, p)
      BY <3>1 DEF InFlight
    <3> QED
      BY <3>2, <3>3
  <2> QED
    BY <2>1, <2>2
<1>11. Good(ui)
  BY StillGood
<1> QED
  BY <1>4, <1>7, <1>8, <1>9, <1>10, <1>11, WordsStep

LEMMA ReportStep ==
  ASSUME IInv, NEW n \in Nodes, NEW q \in Pids, Report(n, q) \/ ReportError(n, q)
  PROVE  IInv'
<1>1. PICK r : /\ replies' = [replies EXCEPT ![n] = Append(@, r)]
               /\ r.id = watched[n][q] /\ watched[n][q] # NoData
               /\ \/ \E lacks \in SUBSET Optional :
                       r = [id |-> watched[n][q], code |-> "OK",
                            data |-> [pid |-> q, node |-> n, lacks |-> lacks]]
                  \/ r = [id |-> watched[n][q], code |-> "ERROR", data |-> NoData]
  <2>1. CASE Report(n, q)
    <3>1. PICK lacks \in SUBSET Optional :
            Answer(n, watched[n][q], "OK", [pid |-> q, node |-> n, lacks |-> lacks])
      BY <2>1 DEF Report
    <3> QED
      BY <2>1, <3>1 DEF Report, Answer
  <2>2. CASE ReportError(n, q)
    BY <2>2 DEF ReportError, Answer
  <2> QED
    BY <2>1, <2>2
<1>2. /\ replies \in [Nodes -> Seq(Reply)]
      /\ watched \in [Nodes -> [Pids -> Ids \cup {NoData}]]
  BY DEF IInv, TypeOK
<1>3. r \in Reply /\ (r.data # NoData => r.data.pid = q /\ r.data.node = n)
  BY <1>1, <1>2 DEF Reply, Data
<1>4. /\ replies' \in [Nodes -> Seq(Reply)]
      /\ \A m \in Nodes : m # n => replies'[m] = replies[m]
      /\ \A k \in DOMAIN replies'[n] :
           replies'[n][k] = r \/ (k \in DOMAIN replies[n] /\ replies'[n][k] = replies[n][k])
  <2>1. /\ Append(replies[n], r) \in Seq(Reply)
        /\ \A k \in DOMAIN Append(replies[n], r) :
             \/ Append(replies[n], r)[k] = r
             \/ k \in DOMAIN replies[n] /\ Append(replies[n], r)[k] = replies[n][k]
    BY <1>2, <1>3
  <2> QED
    BY <1>1, <1>2, <2>1
<1>5. /\ UNCHANGED <<ui, connected, now, clicks>>
      /\ watched' \in [Nodes -> [Pids -> Ids \cup {NoData}]]
      /\ \A m \in Nodes, p \in Pids :
           watched'[m][p] = watched[m][p] \/ watched'[m][p] = NoData
  <2>1. CASE Report(n, q)
    BY <1>2, <2>1 DEF Report
  <2>2. CASE ReportError(n, q)
    <3>1. /\ watched' = [watched EXCEPT ![n][q] = NoData]
          /\ UNCHANGED <<ui, connected, now, clicks>>
      BY <2>2 DEF ReportError
    <3>2. /\ [watched[n] EXCEPT ![q] = NoData] \in [Pids -> Ids \cup {NoData}]
          /\ \A p \in Pids : \/ [watched[n] EXCEPT ![q] = NoData][p] = watched[n][p]
                             \/ [watched[n] EXCEPT ![q] = NoData][p] = NoData
      BY <1>2
    <3>3. /\ watched' \in [Nodes -> [Pids -> Ids \cup {NoData}]]
          /\ watched'[n] = [watched[n] EXCEPT ![q] = NoData]
          /\ \A m \in Nodes : m # n => watched'[m] = watched[m]
      BY <1>2, <3>1, <3>2
    <3>4. ASSUME NEW m \in Nodes, NEW p \in Pids
          PROVE  watched'[m][p] = watched[m][p] \/ watched'[m][p] = NoData
      <4>1. CASE m = n
        BY <3>2, <3>3, <4>1
      <4>2. CASE m # n
        BY <3>3, <4>2
      <4> QED
        BY <4>1, <4>2
    <3> QED
      BY <3>1, <3>3, <3>4
  <2> QED
    BY <2>1, <2>2
<1>6. TypeOK'
  BY <1>4, <1>5 DEF IInv, TypeOK
<1>7. OwnReports'
  BY <1>3, <1>4 DEF IInv, OwnReports
<1>8. Coherent(ui)' /\ ui'.lastNid <= now'
  BY <1>5 DEF IInv, Coherent, AskedFor
<1>9. ASSUME NEW m \in Nodes, NEW p \in Pids
      PROVE  /\ Released(ui, m, p) => Released(ui, m, p)'
             /\ \A i \in Ids : InFlight(ui, m, i, p)' => InFlight(ui, m, i, p)
  <2>1. Released(ui, m, p) => Released(ui, m, p)'
    BY <1>5 DEF Released, Queued, IsLast
  <2>2. ASSUME NEW i \in Ids, InFlight(ui, m, i, p)' PROVE InFlight(ui, m, i, p)
    <3>1. CASE \E k \in DOMAIN replies'[m] :
                 /\ replies'[m][k].id = i /\ replies'[m][k].data # NoData
                 /\ replies'[m][k].data.pid = p
      <4>1. PICK k \in DOMAIN replies'[m] :
                 /\ replies'[m][k].id = i /\ replies'[m][k].data # NoData
                 /\ replies'[m][k].data.pid = p
        BY <3>1
      <4>2. CASE k \in DOMAIN replies[m] /\ replies'[m][k] = replies[m][k]
        BY <4>1, <4>2 DEF InFlight
      <4>3. CASE m = n /\ replies'[m][k] = r
        BY <1>1, <1>3, <4>1, <4>3 DEF InFlight
      <4> QED
        BY <1>4, <4>2, <4>3
    <3>2. CASE ~\E k \in DOMAIN replies'[m] :
                 /\ replies'[m][k].id = i /\ replies'[m][k].data # NoData
                 /\ replies'[m][k].data.pid = p
      BY <1>5, <2>2, <3>2 DEF InFlight
    <3> QED
      BY <3>1, <3>2
  <2> QED
    BY <2>1, <2>2
<1>10. Good(ui)
  BY StillGood
<1> QED
  BY <1>5, <1>6, <1>7, <1>8, <1>9, <1>10, WordsStep

LEMMA DisconnectStep ==
  ASSUME IInv, NEW n \in Nodes, Disconnect(n)
  PROVE  IInv'
<1>1. /\ ui' = [ui EXCEPT !.busy[n] = FALSE, !.outbox[n] = <<>>, !.missed[n] = Pids]
      /\ watched' = [watched EXCEPT ![n] = [p \in Pids |-> NoData]]
      /\ connected' = connected \ {n} /\ UNCHANGED <<replies, now>>
      /\ clicks' \in 0 .. MaxClicks
      /\ ui.outbox \in [Nodes -> Seq(Note)] /\ ui.busy \in [Nodes -> BOOLEAN]
      /\ ui.missed \in [Nodes -> SUBSET Pids]
      /\ watched \in [Nodes -> [Pids -> Ids \cup {NoData}]]
  BY StillGood, DialogFields, Clicked DEF Disconnect, IInv, TypeOK
<1>2. /\ ui' \in Dialog /\ ui'.outbox = [ui.outbox EXCEPT ![n] = <<>>]
      /\ ui'.missed = [ui.missed EXCEPT ![n] = Pids]
      /\ ui'.pid = ui.pid /\ ui'.pids = ui.pids /\ ui'.node = ui.node
      /\ ui'.choice = ui.choice /\ ui'.lastNid = ui.lastNid /\ ui'.sent = ui.sent
      /\ ui'.shown = ui.shown /\ ui'.filled = ui.filled /\ ui'.page = ui.page
  <2>1. /\ [ui.busy EXCEPT ![n] = FALSE] \in [Nodes -> BOOLEAN]
        /\ [ui.outbox EXCEPT ![n] = <<>>] \in [Nodes -> Seq(Note)]
        /\ [ui.missed EXCEPT ![n] = Pids] \in [Nodes -> SUBSET Pids]
    <3>1. <<>> \in Seq(Note)
      OBVIOUS
    <3> QED
      BY <1>1, <3>1
  <2> QED
    BY <1>1, <2>1, StillGood, ZenonT(30) DEF Dialog
<1>3. watched' \in [Nodes -> [Pids -> Ids \cup {NoData}]]
  BY <1>1
<1>4. TypeOK'
  BY <1>1, <1>2, <1>3 DEF IInv, TypeOK
<1>5. OwnReports' /\ Coherent(ui)' /\ ui'.lastNid <= now'
  BY <1>1, <1>2 DEF IInv, OwnReports, Coherent, AskedFor
<1>6. ASSUME NEW m \in Nodes, NEW p \in Pids
      PROVE  /\ p \notin ui'.missed[m] => p \notin ui.missed[m] /\ m # n
             /\ m # n /\ Released(ui, m, p) => Released(ui, m, p)'
             /\ \A i \in Ids : InFlight(ui, m, i, p)' => InFlight(ui, m, i, p)
  <2>1. CASE m = n
    <3>1. ui'.missed[m] = Pids /\ ui'.outbox[m] = <<>> /\ watched'[m][p] = NoData
      BY <1>1, <1>2, <2>1
    <3> QED
      BY <1>1, <2>1, <3>1 DEF InFlight
  <2>2. CASE m # n
    <3>1. /\ ui'.missed[m] = ui.missed[m] /\ ui'.outbox[m] = ui.outbox[m]
          /\ watched'[m] = watched[m] /\ replies' = replies
      BY <1>1, <1>2, <2>2
    <3> QED
      BY <2>2, <3>1 DEF InFlight, Released, Queued, IsLast
  <2> QED
    BY <2>1, <2>2
<1>7. Good(ui)
  BY StillGood
<1> QED
  BY <1>2, <1>4, <1>5, <1>6, <1>7, WordsStep

\* Steps that touch neither the words nor what they are about.
LEMMA QuietStep ==
  ASSUME IInv,
         \/ \E n \in Nodes : WriteDone(n) \/ Connect(n)
         \/ Tick
         \/ UNCHANGED vars
  PROVE  IInv'
<1>0. ui \in Dialog /\ Good(ui) /\ now \in Ids /\ MaxClock \in Nat
  BY StillGood
<1>1. \/ ui' = ui
      \/ \E n \in Nodes : ui' = [ui EXCEPT !.busy[n] = FALSE]
  BY DEF WriteDone, Connect, Tick, vars
<1>2. /\ ui' \in Dialog /\ ui'.outbox = ui.outbox /\ ui'.missed = ui.missed
      /\ ui'.pid = ui.pid /\ ui'.pids = ui.pids /\ ui'.node = ui.node
      /\ ui'.choice = ui.choice /\ ui'.lastNid = ui.lastNid /\ ui'.sent = ui.sent
      /\ ui'.shown = ui.shown /\ ui'.filled = ui.filled /\ ui'.page = ui.page
  <2>1. CASE ui' = ui
    BY <1>0, <2>1
  <2>2. CASE \E n \in Nodes : ui' = [ui EXCEPT !.busy[n] = FALSE]
    <3>1. PICK n \in Nodes : ui' = [ui EXCEPT !.busy[n] = FALSE]
      BY <2>2
    <3>2. [ui.busy EXCEPT ![n] = FALSE] \in [Nodes -> BOOLEAN]
      BY <1>0, DialogFields
    <3> QED
      BY <1>0, <3>1, <3>2, ZenonT(30) DEF Dialog
  <2> QED
    BY <1>1, <2>1, <2>2
<1>3. /\ UNCHANGED <<watched, replies, clicks>>
      /\ connected' \subseteq Nodes
      /\ now' \in Ids /\ now' >= now
  BY <1>0 DEF WriteDone, Connect, Tick, vars, IInv, TypeOK, Ids
<1>4. TypeOK'
  BY <1>2, <1>3 DEF IInv, TypeOK
<1>5. OwnReports' /\ Coherent(ui)'
  BY <1>2, <1>3 DEF IInv, OwnReports, Coherent, AskedFor
<1>6. ui'.lastNid <= now'
  <2>1. ui.lastNid \in Ids /\ ui.lastNid <= now
    BY <1>0, DialogFields DEF IInv
  <2> QED
    BY <1>0, <1>2, <1>3, <2>1 DEF Ids
<1>7. \A m \in Nodes, p \in Pids :
        /\ Released(ui, m, p) => Released(ui, m, p)'
        /\ \A i \in Ids : InFlight(ui, m, i, p)' => InFlight(ui, m, i, p)
  BY <1>2, <1>3 DEF Released, Queued, IsLast, InFlight
<1> QED
  BY <1>0, <1>2, <1>4, <1>5, <1>6, <1>7, WordsStep

LEMMA Step ==
  ASSUME IInv, [Next]_vars
  PROVE  IInv'
<1>1. CASE User
  <2>1. ASSUME NEW pids \in Selections, Monitor(pids) PROVE IInv'
    BY <2>1, MonitorStep
  <2>2. ASSUME NEW p \in Pids, ChangePid(p) PROVE IInv'
    BY <2>2, ChangePidStep
  <2>3. ASSUME NEW g \in Pages, ChangeTab(g) PROVE IInv'
    BY <2>3, ChangeTabStep
  <2> QED
    BY <1>1, <2>1, <2>2, <2>3, ToggleStep, HideStep DEF User
<1>2. ASSUME NEW n \in Nodes, Stream(n) \/ Disconnect(n) \/ Connect(n) PROVE IInv'
  BY <1>2, HandleReplyStep, ReceiveStep, DisconnectStep, QuietStep DEF Stream
<1>3. ASSUME NEW n \in Nodes, NEW p \in Pids, Report(n, p) \/ ReportError(n, p) PROVE IInv'
  BY <1>3, ReportStep
<1>4. CASE Tick \/ UNCHANGED vars
  BY <1>4, QuietStep
<1> QED
  BY <1>1, <1>2, <1>3, <1>4 DEF Next

LEMMA Initially == Init => IInv
<1> SUFFICES ASSUME Init PROVE IInv
  OBVIOUS
<1>1. /\ NothingSent \in [Ids -> Types \cup {"none"}] /\ 0 \in Ids
      /\ Empty \in [Parts -> Data \cup {NoData}]
      /\ [n \in Nodes |-> FALSE] \in [Nodes -> BOOLEAN]
      /\ [n \in Nodes |-> <<>>] \in [Nodes -> Seq(Note)]
      /\ [n \in Nodes |-> {}] \in [Nodes -> SUBSET Pids]
      /\ FirstPage \in Pages
  BY BoundsAssumption, PidsAssumption DEF NothingSent, Ids, Empty
<1>2. ui \in Dialog
  BY <1>1, ZenonT(30) DEF Init, Dialog
<1>3. TypeOK
  BY <1>1, <1>2, BoundsAssumption DEF Init, TypeOK
<1>4. /\ \A n \in Nodes : replies[n] = <<>> /\ ui.outbox[n] = <<>>
      /\ \A n \in Nodes, p \in Pids : watched[n][p] = NoData
      /\ ui.shown = NoData /\ ui.filled = Empty /\ ui.page = FirstPage
      /\ ui.pid = NoPid /\ ui.choice = NoPid /\ ui.lastNid = 0 /\ now = 0
  BY DEF Init
<1>5. OwnReports /\ Watching(ui)
  BY <1>4 DEF OwnReports, Watching, Released
<1>6. Coherent(ui)
  BY <1>1, <1>2, <1>4 DEF Coherent, Empty
<1>7. OnlyAsked(ui, ui.lastNid)
  BY <1>4 DEF OnlyAsked, InFlight
<1> QED
  BY <1>3, <1>4, <1>5, <1>6, <1>7 DEF IInv

LEMMA Invariance == Spec => []IInv
<1>1. IInv /\ [Next]_vars => IInv'
  BY Step
<1> QED
  BY Initially, <1>1, PTL DEF Spec

\* The types, and header and visible tab are those of the last report, but for what
\* it says nothing of, whatever is opened, changed, closed, lost or late.
THEOREM MonitorSafely == Spec => []Safe
<1>1. IInv => Safe
  BY DEF IInv, Coherent, Safe, PageFitsHeader, Visible
<1> QED
  BY Invariance, <1>1, PTL

\* No daemon is left watching a process the dialog has turned away from, unless
\* a notification about it was dropped.
THEOREM NothingLeftBehind == Spec => []NoWatchLeftBehind
<1>1. IInv => NoWatchLeftBehind
  BY DEF IInv, Watching, Released, Queued, NoWatchLeftBehind, UnderWay
<1> QED
  BY Invariance, <1>1, PTL

\* What is on the screen, in whichever tab, is about one of the processes the
\* dialog was opened for, as its own node reported it, although the numbers that
\* tell reports apart are seconds and a dialog that is opened again forgets the
\* ones it used.
THEOREM OnlyAskedIsShown == Spec => []ShownWasAskedFor
<1>1. IInv => ShownWasAskedFor
  BY DEF IInv, Coherent, AskedFor, ShownWasAskedFor, AskedForNow
<1> QED
  BY Invariance, <1>1, PTL
=============================================================================
