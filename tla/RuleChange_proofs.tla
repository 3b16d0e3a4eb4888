-------------------------- MODULE RuleChange_proofs --------------------------
(***************************************************************************)
(* A rule that is changed, in two parts: the notification streams that     *)
(* carry it to a daemon (NotifyStream), and the dialog in which it is put  *)
(* together (RuleForm).                                                    *)
(***************************************************************************)
EXTENDS NotifyStream, RuleForm, FiniteSetTheorems, SequenceTheorems,
        WellFoundedInduction, NaturalsInduction, TLAPS

-----------------------------------------------------------------------------
(***************************************************************************)
(* The notification streams.                                               *)
(***************************************************************************)
\* A tag that waits, and where the two threads are, seen from a stream.
Good(s, k) == Tag(s, k, TRUE)
Bad(s, k) == Tag(s, k, FALSE)
Waits(q, s, k) == Good(s, k) \in tags[q]
Fails(q, s, k) == Bad(s, k) \in tags[q]
In(q, s, place) == at[q] = place /\ call[q] = s

Starting(s) == In("notify", s, "firstRead") \/ In("notify", s, "setActive")
Started(s) == state[s] \in {"ACTIVE", "DONE"} \/ Starting(s)
Up(s) == state[s] \in {"ACTIVE", "DONE"}

AnyTag == [call : Streams, kind : {"READ", "WRITE", "ACCEPT", "ALARM"}, ok : BOOLEAN]
TypeInv == TypeOK /\ tags \in [Queues -> SUBSET AnyTag]

\* A reply that came before m_state = ACTIVE: the other thread accepts once more.
Again(s) ==
  In("cq", s, "register") \/ In("cq", s, "firstRead") \/ In("cq", s, "setActive")

\* Only the notify thread writes, only the other one ends a write, reads on or
\* unregisters.
PlacesInv ==
  /\ at["cq"] \in {"next", "register", "firstRead", "setActive",
                    "writeDone", "readAgain", "unregister", "setDone", "delete"}
  /\ at["notify"] \in {"next", "register", "firstRead", "setActive", "alarm", "write", "delete"}

\* Until its daemon's connection is taken up nobody has heard of an object.
FreshInv(s) ==
  ~Started(s) =>
    /\ life[s] \in {"none", "live"} /\ (life[s] = "none" <=> state[s] = "CREATE")
    /\ state[s] = "CREATE" => link[s] = "idle"
    /\ s \notin reads /\ s \notin writes /\ s \notin alarms
    /\ \A k \in {"READ", "WRITE"} : ~Waits("cq", s, k) /\ ~Fails("cq", s, k)
    /\ ~Waits("notify", s, "ALARM") /\ ~Fails("notify", s, "ALARM")
    /\ call["cq"] # s
    /\ call["notify"] = s => at["notify"] = "register"
    /\ target # s /\ \A k \in Keys : activeNotifs[k] # s
    /\ pendingNotif[s] = 0 /\ ~writePending[s]

\* It is accepted once: by then there is a connection.
AcceptInv(s) ==
  /\ Started(s) => link[s] # "idle" /\ life[s] # "none"
  /\ link[s] = "idle" => call["notify"] # s /\ ~Waits("notify", s, "ACCEPT")
  /\ ~Fails("notify", s, "ACCEPT")
  /\ Waits("notify", s, "ACCEPT") =>
       state[s] = "CONNECTED" /\ call["notify"] # s
  /\ In("notify", s, "register") => state[s] = "CONNECTED"
  /\ In("notify", s, "firstRead") => state[s] = "CONNECTED"
  /\ In("notify", s, "setActive") => state[s] # "CREATE"

\* What is written is so on a stream that is ACTIVE.
SpokeInv(s) ==
  \/ In("notify", s, "alarm") \/ In("notify", s, "write")
  \/ s \in writes \/ Waits("cq", s, "WRITE")
  => Up(s)

\* A message may come before that, but not before the notify thread is about to
\* set it, and only one of them is taken for an accept.
EarlyInv(s) ==
  /\ Waits("cq", s, "READ") => Up(s) \/ In("notify", s, "setActive")
  /\ Again(s) => /\ \/ state[s] = "ACTIVE"
                    \/ state[s] = "CONNECTED" /\ In("notify", s, "setActive")
                 /\ ~In("notify", s, "delete")
  /\ s \in swallowed => Up(s) \/ Again(s)

\* Nothing fails on a stream, and no object is given up, before it is closed.
FailInv(s) ==
  \/ Fails("cq", s, "READ") \/ Fails("cq", s, "WRITE")
  \/ In("cq", s, "unregister") \/ In("cq", s, "setDone") \/ In("cq", s, "delete")
  \/ In("notify", s, "delete")
  \/ state[s] = "DONE" \/ life[s] = "freed"
  => link[s] = "closed"

\* One Read at a time: outstanding, completed, or about to be started.
Reading(s) == Waits("cq", s, "READ") \/ Fails("cq", s, "READ")
ReadInv(s) ==
  /\ s \in reads => ~Reading(s)
  /\ In("cq", s, "readAgain") \/ In("cq", s, "register") \/ In("cq", s, "firstRead") =>
       s \notin reads /\ ~Reading(s)
  /\ ~(Waits("cq", s, "READ") /\ Fails("cq", s, "READ"))
  /\ In("notify", s, "firstRead") =>
       s \notin reads /\ call["cq"] # s
       /\ \A k \in {"READ", "WRITE"} : ~Waits("cq", s, k) /\ ~Fails("cq", s, k)

\* The stages of a notification, from the GUI to the completion of its Write.
Given(s) == target = s
Alarmed(s) == s \in alarms
Fired(s) == Waits("notify", s, "ALARM")
Writing(s) == In("notify", s, "alarm") \/ In("notify", s, "write")
OnTheWire(s) == s \in writes
Done(s) == Waits("cq", s, "WRITE") \/ Fails("cq", s, "WRITE")
Ending(s) == In("cq", s, "writeDone")

\* A stream that is not busy has no notification, a busy one has one at most.
WriteInv(s) ==
  /\ Given(s) \/ Alarmed(s) \/ Fired(s) \/ Writing(s) \/ OnTheWire(s) \/ Done(s) \/ Ending(s)
       => writePending[s] /\ pendingNotif[s] # 0
  /\ Given(s) => ~(Alarmed(s) \/ Fired(s) \/ Writing(s) \/ OnTheWire(s) \/ Done(s) \/ Ending(s))
  /\ Alarmed(s) => ~(Fired(s) \/ Writing(s) \/ OnTheWire(s) \/ Done(s) \/ Ending(s))
  /\ Fired(s) => ~(Writing(s) \/ OnTheWire(s) \/ Done(s) \/ Ending(s))
  /\ Writing(s) => ~(OnTheWire(s) \/ Done(s) \/ Ending(s))
  /\ OnTheWire(s) => ~(Done(s) \/ Ending(s))
  /\ Done(s) => ~Ending(s)
  /\ ~(Waits("cq", s, "WRITE") /\ Fails("cq", s, "WRITE"))

\* An entry of the registry is that of an object nobody has begun to give up.
EntryInv(k) ==
  activeNotifs[k] # NoStream =>
    LET s == activeNotifs[k]
    IN /\ peer[s] = k /\ life[s] = "live" /\ state[s] # "DONE"
       /\ \A q \in Queues : ~In(q, s, "setDone") /\ ~In(q, s, "delete")

\* While the GUI holds the lock its target stays registered.
TargetInv == target # NoStream => activeNotifs[peer[target]] = target

\* There is something to serve only within a send.
SendInv == todo # {} => sends # 0

OkReads == {m \in tags["cq"] : m.kind = "READ" /\ m.ok}
CountInv ==
  /\ IsFiniteSet(tags["cq"]) /\ IsFiniteSet(swallowed)
  /\ replies.forwarded + Cardinality(swallowed) + Cardinality(OkReads) <= replies.sent
  /\ AllConnected =>
       replies.sent = replies.forwarded + Cardinality(swallowed) + Cardinality(OkReads)

\* A fault is that of a thread on a freed object.
FaultInv ==
  /\ fault \notin {"sendToFreed", "overlap"}
  /\ fault # "none" => \E s \in Streams : life[s] = "freed"

StreamInv(s) ==
  /\ FreshInv(s) /\ AcceptInv(s) /\ SpokeInv(s) /\ EarlyInv(s)
  /\ FailInv(s) /\ ReadInv(s) /\ WriteInv(s)

IInv ==
  /\ TypeInv /\ PlacesInv
  /\ \A s \in Streams : StreamInv(s)
  /\ \A k \in Keys : EntryInv(k)
  /\ TargetInv /\ SendInv /\ CountInv /\ FaultInv
-----------------------------------------------------------------------------
(* What the parts of an action do to what a stream sees.                    *)

Kinds == {"READ", "WRITE", "ACCEPT", "ALARM"}
TagsTyped(t) ==
  /\ t \in [Queues -> SUBSET AnyTag]
  /\ \A q \in Queues : t[q] \subseteq [call : Streams, kind : TagKinds[q], ok : BOOLEAN]

LEMMA SameTag ==
  ASSUME NEW s, NEW k, NEW t, NEW l
  PROVE  /\ Good(s, k) = Good(t, l) <=> s = t /\ k = l
         /\ Bad(s, k) = Bad(t, l) <=> s = t /\ k = l
         /\ Good(s, k) # Bad(t, l)
BY DEF Tag, Good, Bad

LEMMA TagType ==
  ASSUME NEW s \in Streams, NEW ok \in BOOLEAN, NEW K, NEW k \in K
  PROVE  Tag(s, k, ok) \in [call : Streams, kind : K, ok : BOOLEAN]
BY DEF Tag

LEMMA AnyTagIsTag ==
  ASSUME NEW m \in AnyTag
  PROVE  m = Tag(m.call, m.kind, m.ok) /\ m.call \in Streams /\ m.kind \in Kinds /\ m.ok \in BOOLEAN
BY DEF AnyTag, Tag, Kinds

LEMMA KindsOf ==
  /\ TagKinds["cq"] = {"READ", "WRITE"} /\ TagKinds["notify"] = {"ACCEPT", "ALARM"}
  /\ \A q \in Queues : TagKinds[q] \subseteq Kinds
BY DEF TagKinds, Queues, Kinds

LEMMA Delivered ==
  ASSUME TagsTyped(tags), NEW q \in Queues, NEW s \in Streams, NEW k \in TagKinds[q],
         Deliver(q, s, k, TRUE)
  PROVE  /\ TagsTyped(tags')
         /\ \A p \in Queues : p # q => tags'[p] = tags[p]
         /\ tags'[q] = tags[q] \cup {Good(s, k)}
         /\ \A p \in Queues, t \in Streams, l \in Kinds :
              /\ Waits(p, t, l)' <=> Waits(p, t, l) \/ (p = q /\ t = s /\ l = k)
              /\ Fails(p, t, l)' <=> Fails(p, t, l)
<1>1. tags' = [tags EXCEPT ![q] = @ \cup {Good(s, k)}]
  BY DEF Deliver, Good
<1>2. /\ Good(s, k) \in AnyTag
      /\ Good(s, k) \in [call : Streams, kind : TagKinds[q], ok : BOOLEAN]
  BY TagType, KindsOf DEF AnyTag, Kinds, Good, Bad
<1>3. TagsTyped(tags')
  BY <1>1, <1>2 DEF TagsTyped
<1>4. /\ \A p \in Queues : p # q => tags'[p] = tags[p]
      /\ tags'[q] = tags[q] \cup {Good(s, k)}
  BY <1>1 DEF TagsTyped
<1>5. ASSUME NEW p \in Queues, NEW t \in Streams, NEW l \in Kinds
      PROVE  /\ Waits(p, t, l)' <=> Waits(p, t, l) \/ (p = q /\ t = s /\ l = k)
             /\ Fails(p, t, l)' <=> Fails(p, t, l)
  <2>1. p # q => tags'[p] = tags[p]
    BY <1>4
  <2>2. p = q => tags'[p] = tags[q] \cup {Good(s, k)}
    BY <1>4
  <2> QED
    BY <2>1, <2>2, SameTag DEF Waits, Fails
<1> QED
  BY <1>3, <1>4, <1>5

LEMMA Failed ==
  ASSUME TagsTyped(tags), NEW q \in Queues, NEW s \in Streams, NEW k \in TagKinds[q],
         Deliver(q, s, k, FALSE)
  PROVE  /\ TagsTyped(tags')
         /\ \A p \in Queues : p # q => tags'[p] = tags[p]
         /\ tags'[q] = tags[q] \cup {Bad(s, k)}
         /\ \A p \in Queues, t \in Streams, l \in Kinds :
              /\ Fails(p, t, l)' <=> Fails(p, t, l) \/ (p = q /\ t = s /\ l = k)
              /\ Waits(p, t, l)' <=> Waits(p, t, l)
<1>1. tags' = [tags EXCEPT ![q] = @ \cup {Bad(s, k)}]
  BY DEF Deliver, Bad
<1>2. /\ Bad(s, k) \in AnyTag
      /\ Bad(s, k) \in [call : Streams, kind : TagKinds[q], ok : BOOLEAN]
  BY TagType, KindsOf DEF AnyTag, Kinds, Good, Bad
<1>3. TagsTyped(tags')
  BY <1>1, <1>2 DEF TagsTyped
<1>4. /\ \A p \in Queues : p # q => tags'[p] = tags[p]
      /\ tags'[q] = tags[q] \cup {Bad(s, k)}
  BY <1>1 DEF TagsTyped
<1>5. ASSUME NEW p \in Queues, NEW t \in Streams, NEW l \in Kinds
      PROVE  /\ Fails(p, t, l)' <=> Fails(p, t, l) \/ (p = q /\ t = s /\ l = k)
             /\ Waits(p, t, l)' <=> Waits(p, t, l)
  <2>1. p # q => tags'[p] = tags[p]
    BY <1>4
  <2>2. p = q => tags'[p] = tags[q] \cup {Bad(s, k)}
    BY <1>4
  <2> QED
    BY <2>1, <2>2, SameTag DEF Waits, Fails
<1> QED
  BY <1>3, <1>4, <1>5

LEMMA Taken ==
  ASSUME TagsTyped(tags), NEW q \in Queues, NEW m \in tags[q],
         tags' = [tags EXCEPT ![q] = @ \ {m}]
  PROVE  /\ TagsTyped(tags')
         /\ \A p \in Queues : p # q => tags'[p] = tags[p]
         /\ tags'[q] = tags[q] \ {m}
         /\ m.call \in Streams /\ m.kind \in TagKinds[q] /\ m.ok \in BOOLEAN
         /\ m.ok => m = Good(m.call, m.kind)
         /\ ~m.ok => m = Bad(m.call, m.kind)
         /\ \A p \in Queues, t \in Streams, l \in Kinds :
              /\ Waits(p, t, l)' <=> Waits(p, t, l) /\ ~(p = q /\ m = Good(t, l))
              /\ Fails(p, t, l)' <=> Fails(p, t, l) /\ ~(p = q /\ m = Bad(t, l))
<1>1. TagsTyped(tags')
  BY DEF TagsTyped
<1>2. /\ \A p \in Queues : p # q => tags'[p] = tags[p]
      /\ tags'[q] = tags[q] \ {m}
  BY DEF TagsTyped
<1>3. m \in AnyTag /\ m.kind \in TagKinds[q]
  BY DEF TagsTyped
<1>4. /\ m = Tag(m.call, m.kind, m.ok) /\ m.call \in Streams /\ m.ok \in BOOLEAN
  BY <1>3, AnyTagIsTag
<1>5. /\ m.ok => m = Good(m.call, m.kind)
      /\ ~m.ok => m = Bad(m.call, m.kind)
  BY <1>4 DEF Tag, Good, Bad
<1>6. ASSUME NEW p \in Queues, NEW t \in Streams, NEW l \in Kinds
      PROVE  /\ Waits(p, t, l)' <=> Waits(p, t, l) /\ ~(p = q /\ m = Good(t, l))
             /\ Fails(p, t, l)' <=> Fails(p, t, l) /\ ~(p = q /\ m = Bad(t, l))
  <2>1. p # q => tags'[p] = tags[p]
    BY <1>2
  <2>2. p = q => tags'[p] = tags[q] \ {m}
    BY <1>2
  <2> QED
    BY <2>1, <2>2 DEF Waits, Fails
<1> QED
  BY <1>1, <1>2, <1>3, <1>4, <1>5, <1>6

LEMMA Moved ==
  ASSUME at \in [Queues -> Places], call \in [Queues -> Streams \cup {NoStream}],
         NEW q \in Queues, NEW s \in Streams \cup {NoStream}, NEW place \in Places,
         Goto(q, s, place)
  PROVE  /\ at' \in [Queues -> Places] /\ call' \in [Queues -> Streams \cup {NoStream}]
         /\ at'[q] = place /\ call'[q] = s
         /\ \A p \in Queues : p # q => at'[p] = at[p] /\ call'[p] = call[p]
BY DEF Goto

\* A step that leaves a stream alone keeps what is known of it.
LEMMA SameStream ==
  ASSUME NEW s \in Streams, StreamInv(s),
         life'[s] = life[s], state'[s] = state[s], link'[s] = link[s],
         writePending'[s] = writePending[s], pendingNotif'[s] = pendingNotif[s],
         s \in reads' <=> s \in reads, s \in writes' <=> s \in writes,
         s \in alarms' <=> s \in alarms,
         \A q \in Queues, k \in Kinds : /\ Waits(q, s, k)' <=> Waits(q, s, k)
                                        /\ Fails(q, s, k)' <=> Fails(q, s, k),
         \A q \in Queues : /\ call'[q] = s <=> call[q] = s
                           /\ call[q] = s => at'[q] = at[q],
         target' = s <=> target = s,
         \A k \in Keys : activeNotifs'[k] = s => activeNotifs[k] = s,
         s \in swallowed' => s \in swallowed
  PROVE  StreamInv(s)'
<1>1. Started(s)' <=> Started(s)
  BY DEF Started, Starting, In, Queues
<1>2. FreshInv(s)'
  BY <1>1 DEF StreamInv, FreshInv, Queues, Kinds
<1>3. AcceptInv(s)'
  BY <1>1 DEF StreamInv, AcceptInv, Queues, Kinds, In
<1>4. SpokeInv(s)'
  BY DEF StreamInv, SpokeInv, Up, Queues, Kinds, In
<1>5. FailInv(s)'
  BY DEF StreamInv, FailInv, Queues, Kinds, In
<1>6. ReadInv(s)'
  BY DEF StreamInv, ReadInv, Reading, Queues, Kinds, In
<1>8. EarlyInv(s)'
  BY DEF StreamInv, EarlyInv, Again, Up, Queues, Kinds, In
<1>7. WriteInv(s)'
  BY DEF StreamInv, WriteInv, Given, Alarmed, Fired, Writing, OnTheWire, Done, Ending, Queues, Kinds, In
<1> QED
  BY <1>2, <1>3, <1>4, <1>5, <1>6, <1>7, <1>8 DEF StreamInv

LEMMA SameEntries ==
  ASSUME \A k \in Keys : EntryInv(k),
         activeNotifs \in [Keys -> Streams \cup {NoStream}],
         activeNotifs' = activeNotifs,
         \A s \in Streams : s # NoStream /\ (\E k \in Keys : activeNotifs[k] = s) =>
           /\ peer'[s] = peer[s] /\ life'[s] = life[s]
           /\ state[s] # "DONE" => state'[s] # "DONE"
           /\ \A q \in Queues : /\ In(q, s, "setDone")' => In(q, s, "setDone")
                                /\ In(q, s, "delete")' => In(q, s, "delete")
  PROVE  \A k \in Keys : EntryInv(k)'
<1>1. SUFFICES ASSUME NEW k \in Keys, activeNotifs[k] # NoStream
               PROVE  EntryInv(k)'
  BY DEF EntryInv
<1>2. activeNotifs[k] \in Streams
  BY <1>1
<1> QED
  BY <1>1, <1>2 DEF EntryInv

LEMMA SameCount ==
  ASSUME CountInv, OkReads' = OkReads, IsFiniteSet(tags'["cq"]),
         heard' = heard, AllConnected' => AllConnected
  PROVE  CountInv'
BY DEF CountInv, heard

\* Any tag but that of a completed read.
LEMMA OtherTag ==
  ASSUME CountInv, NEW m, m.kind # "READ" \/ ~m.ok, tags'["cq"] = tags["cq"] \cup {m}
  PROVE  OkReads' = OkReads /\ IsFiniteSet(tags'["cq"])
<1>1. IsFiniteSet(tags'["cq"])
  BY FS_AddElement DEF CountInv
<1>2. OkReads' = OkReads
  BY Zenon DEF OkReads
<1> QED
  BY <1>1, <1>2

LEMMA OkReadsFinite ==
  ASSUME CountInv
  PROVE  IsFiniteSet(OkReads) /\ Cardinality(OkReads) \in Nat
<1>1. OkReads \subseteq tags["cq"]
  BY DEF OkReads
<1> QED
  BY <1>1, FS_Subset, FS_CardinalityType DEF CountInv

LEMMA TypeFacts ==
  ASSUME TypeInv
  PROVE  /\ TagsTyped(tags)
         /\ at \in [Queues -> Places] /\ call \in [Queues -> Streams \cup {NoStream}]
         /\ \A q \in Queues : call[q] = NoStream <=> at[q] = "next"
         /\ "cq" \in Queues /\ "notify" \in Queues
BY DEF TypeInv, TypeOK, TagsTyped, Queues

LEMMA TypeWithTags ==
  ASSUME TagsTyped(tags')
  PROVE  /\ tags' \in [Queues -> SUBSET AnyTag]
         /\ \A q \in Queues : tags'[q] \subseteq [call : Streams, kind : TagKinds[q], ok : BOOLEAN]
BY DEF TagsTyped

\* The initial states.
LEMMA InitKeeps ==
  ASSUME Init
  PROVE  IInv
<1>1. TypeInv
  <2>1. /\ life \in [Streams -> {"none", "live", "freed"}]
        /\ state \in [Streams -> {"CREATE", "CONNECTED", "ACTIVE", "DONE"}]
        /\ writePending \in [Streams -> BOOLEAN]
        /\ pendingNotif \in [Streams -> 0..MaxSends]
        /\ link \in [Streams -> {"idle", "open", "closed"}]
    BY LimitsAssumption DEF Init
  <2>2. peer \in [Streams -> Keys]
    BY StreamsAssumption DEF Init
  <2>3. /\ reads \subseteq Streams /\ writes \subseteq Streams /\ alarms \subseteq Streams
        /\ \A q \in Queues : tags[q] \subseteq [call: Streams, kind: TagKinds[q], ok: BOOLEAN]
        /\ at \in [Queues -> Places]
        /\ call \in [Queues -> Streams \cup {NoStream}]
        /\ \A q \in Queues : call[q] = NoStream <=> at[q] = "next"
    BY DEF Init, Places
  <2>4. /\ activeNotifs \in [Keys -> Streams \cup {NoStream}]
        /\ todo \subseteq Keys /\ target \in Streams \cup {NoStream}
        /\ sends \in 0..MaxSends
        /\ fate \in [1..MaxSends -> [Keys -> Fates]]
        /\ replies \in [sent: 0..MaxReplies, forwarded: 0..MaxReplies]
        /\ swallowed \subseteq Streams /\ fault \in Faults
    BY LimitsAssumption DEF Init, Fates, Faults
  <2>5. tags \in [Queues -> SUBSET AnyTag]
    BY DEF Init
  <2> QED
    BY <2>1, <2>2, <2>3, <2>4, <2>5 DEF TypeInv, TypeOK
<1>2. PlacesInv
  BY DEF Init, PlacesInv, Queues
<1>3. ASSUME NEW s \in Streams
      PROVE  StreamInv(s)
  <2>1. /\ state[s] \in {"CREATE", "CONNECTED"} /\ link[s] = "idle"
        /\ life[s] = IF state[s] = "CREATE" THEN "none" ELSE "live"
        /\ s \notin reads /\ s \notin writes /\ s \notin alarms
        /\ \A q \in Queues : call[q] # s /\ at[q] = "next"
        /\ target # s /\ (\A k \in Keys : activeNotifs[k] # s)
        /\ pendingNotif[s] = 0 /\ ~writePending[s]
    BY StreamsAssumption DEF Init, Queues
  <2>2. \A q \in Queues, k \in Kinds : ~Waits(q, s, k) /\ ~Fails(q, s, k)
    BY DEF Init, Waits, Fails
  <2>3. ~Started(s)
    BY <2>1 DEF Started, Starting, In, Queues
  <2>4. FreshInv(s) /\ AcceptInv(s)
    BY <2>1, <2>2, <2>3 DEF FreshInv, AcceptInv, In, Queues, Kinds
  <2>5. SpokeInv(s) /\ EarlyInv(s) /\ FailInv(s) /\ ReadInv(s)
    BY <2>1, <2>2 DEF Init, SpokeInv, EarlyInv, Again, FailInv, ReadInv, Reading, In, Queues, Kinds
  <2>6. WriteInv(s)
    BY <2>1, <2>2 DEF WriteInv, Given, Alarmed, Fired, Writing, OnTheWire, Done, Ending,
                      In, Queues, Kinds
  <2> QED
    BY <2>4, <2>5, <2>6 DEF StreamInv
<1>4. (\A k \in Keys : EntryInv(k)) /\ TargetInv /\ FaultInv
  BY DEF Init, EntryInv, TargetInv, FaultInv
<1>5. SendInv
  BY DEF Init, SendInv
<1>6. CountInv
  <2>1. tags["cq"] = {} /\ OkReads = {} /\ replies.sent = 0 /\ replies.forwarded = 0
        /\ swallowed = {}
    BY DEF Init, OkReads, Queues
  <2> QED
    BY <2>1, FS_EmptySet DEF CountInv
<1> QED
  BY <1>1, <1>2, <1>3, <1>4, <1>5, <1>6 DEF IInv
-----------------------------------------------------------------------------
(* The daemons and gRPC.                                                    *)

LEMMA ConnectKeeps ==
  ASSUME IInv, NEW s \in Streams, NEW k \in Keys, Connect(s, k)
  PROVE  IInv'
<1>1. /\ NoFault /\ life[s] = "live" /\ state[s] = "CONNECTED" /\ link[s] = "idle"
      /\ link' = [link EXCEPT ![s] = "open"] /\ peer' = [peer EXCEPT ![s] = k]
      /\ Deliver("notify", s, "ACCEPT", TRUE)
      /\ UNCHANGED <<objects, reads, writes, alarms, heard, at, call, activeNotifs,
                     guiVars, fate, fault>>
  BY DEF Connect
<1>2. TypeInv /\ PlacesInv /\ StreamInv(s)
  BY DEF IInv
<1>3. /\ TagsTyped(tags') /\ tags'["cq"] = tags["cq"]
      /\ \A p \in Queues, t \in Streams, l \in Kinds :
           /\ Waits(p, t, l)' <=> Waits(p, t, l) \/ (p = "notify" /\ t = s /\ l = "ACCEPT")
           /\ Fails(p, t, l)' <=> Fails(p, t, l)
  <2>1. /\ TagsTyped(tags) /\ "notify" \in Queues /\ "cq" \in Queues /\ "cq" # "notify"
        /\ "ACCEPT" \in TagKinds["notify"]
    BY <1>2, TypeFacts, KindsOf
  <2> QED
    BY <1>1, <2>1, Delivered
<1>4. TypeInv'
  BY <1>1, <1>2, <1>3, TypeWithTags DEF TypeInv, TypeOK, heard, objects, guiVars
<1>5. PlacesInv'
  BY <1>1, <1>2 DEF PlacesInv
<1>6. ~Started(s) /\ pendingNotif[s] = 0 /\ \A n \in Keys : activeNotifs[n] # s
  BY <1>1, <1>2 DEF StreamInv, FreshInv, AcceptInv
<1>7. ASSUME NEW t \in Streams, t # s
      PROVE  StreamInv(t)'
  <2>1. StreamInv(t) /\ link'[t] = link[t] /\ peer'[t] = peer[t]
    BY <1>1, <1>2, <1>7 DEF IInv, TypeInv, TypeOK
  <2> QED
    BY <1>1, <1>3, <1>7, <2>1, SameStream DEF objects, guiVars, heard
<1>8. StreamInv(s)'
  <2>1. link'[s] = "open"
    BY <1>1, <1>2 DEF TypeInv, TypeOK
  <2>2. ~Started(s)' /\ call["notify"] # s
    BY <1>1, <1>2, <1>6 DEF Started, Starting, In, objects, StreamInv, AcceptInv
  <2>3. FreshInv(s)'
    BY <1>1, <1>2, <1>3, <1>6, <2>2 DEF StreamInv, FreshInv, Queues, Kinds, objects, guiVars
  <2>4. AcceptInv(s)'
    BY <1>1, <1>2, <1>3, <2>1, <2>2 DEF StreamInv, AcceptInv, In, Queues, Kinds, objects
  <2>5. SpokeInv(s)' /\ FailInv(s)' /\ ReadInv(s)'
    BY <1>1, <2>1, <2>2, <2>3 DEF FreshInv, SpokeInv, FailInv, ReadInv, Reading, In, objects
  <2>7. EarlyInv(s)'
    BY <1>1, <1>2, <1>3, <1>6, <2>3 DEF StreamInv, FreshInv, EarlyInv, Again, Up, Started, Starting,
         In, Queues, Kinds, objects, heard
  <2>6. WriteInv(s)'
    BY <1>1, <2>2, <2>3 DEF FreshInv, WriteInv, Given, Alarmed, Fired, Writing, OnTheWire, Done,
                            Ending, In
  <2> QED
    BY <2>3, <2>4, <2>5, <2>6, <2>7 DEF StreamInv
<1>9. \A n \in Keys : EntryInv(n)'
  BY <1>1, <1>2, <1>6, SameEntries DEF IInv, TypeInv, TypeOK, In, objects
<1>10. TargetInv'
  BY <1>1, <1>2, <1>6 DEF IInv, TargetInv, TypeInv, TypeOK, StreamInv, FreshInv, guiVars
<1>11. SendInv'
  BY <1>1 DEF IInv, SendInv, guiVars
<1>12. CountInv'
  <2>1. OkReads' = OkReads /\ (AllConnected' => AllConnected)
    BY <1>1, <1>2, <1>3 DEF OkReads, AllConnected, TypeInv, TypeOK
  <2> QED
    BY <1>1, <1>3, <2>1, SameCount DEF IInv, CountInv
<1>13. FaultInv'
  BY <1>1 DEF IInv, FaultInv, objects
<1> QED
  BY <1>4, <1>5, <1>7, <1>8, <1>9, <1>10, <1>11, <1>12, <1>13 DEF IInv

LEMMA ReplyKeeps ==
  ASSUME IInv, NEW s \in Streams, Reply(s)
  PROVE  IInv'
<1>1. /\ NoFault /\ link[s] = "open" /\ s \in reads /\ replies.sent < MaxReplies
      /\ reads' = reads \ {s} /\ replies' = [replies EXCEPT !.sent = @ + 1]
      /\ Deliver("cq", s, "READ", TRUE)
      /\ UNCHANGED <<objects, link, peer, writes, alarms, swallowed, at, call, activeNotifs,
                     guiVars, fate, fault>>
  BY DEF Reply
<1>2. TypeInv /\ PlacesInv /\ StreamInv(s) /\ CountInv
  BY DEF IInv
<1>3. /\ TagsTyped(tags') /\ tags'["cq"] = tags["cq"] \cup {Good(s, "READ")}
      /\ \A p \in Queues, t \in Streams, l \in Kinds :
           /\ Waits(p, t, l)' <=> Waits(p, t, l) \/ (p = "cq" /\ t = s /\ l = "READ")
           /\ Fails(p, t, l)' <=> Fails(p, t, l)
  <2>1. TagsTyped(tags) /\ "cq" \in Queues /\ "READ" \in TagKinds["cq"]
    BY <1>2, TypeFacts, KindsOf
  <2> QED
    BY <1>1, <2>1, Delivered
<1>4. TypeInv'
  <2>1. replies \in [sent: 0..MaxReplies, forwarded: 0..MaxReplies]
    BY <1>2 DEF TypeInv, TypeOK
  <2>2. replies.sent + 1 \in 0 .. MaxReplies
    BY <1>1, <2>1, LimitsAssumption
  <2>3. replies' \in [sent: 0..MaxReplies, forwarded: 0..MaxReplies]
    BY <1>1, <2>1, <2>2
  <2> QED
    BY <1>1, <1>2, <1>3, <2>3, TypeWithTags DEF TypeInv, TypeOK, objects, guiVars
<1>5. PlacesInv'
  BY <1>1, <1>2 DEF PlacesInv
<1>6. /\ Started(s) /\ (Up(s) \/ In("notify", s, "setActive")) /\ ~Reading(s)
      /\ ~In("notify", s, "firstRead") /\ ~In("cq", s, "readAgain")
      /\ ~In("cq", s, "register") /\ ~In("cq", s, "firstRead")
  BY <1>1, <1>2 DEF StreamInv, FreshInv, ReadInv, Started, Starting, Up
<1>7. ASSUME NEW t \in Streams, t # s
      PROVE  StreamInv(t)'
  <2>1. StreamInv(t) /\ (t \in reads' <=> t \in reads)
    BY <1>1, <1>7 DEF IInv
  <2> QED
    BY <1>1, <1>3, <1>7, <2>1, SameStream DEF objects, guiVars, heard
<1>8. StreamInv(s)'
  <2>1. Started(s)' /\ (Up(s)' <=> Up(s))
    BY <1>1, <1>6 DEF Started, Starting, Up, In, objects
  <2>2. FreshInv(s)'
    BY <2>1 DEF FreshInv
  <2>3. AcceptInv(s)'
    BY <1>1, <1>2, <1>3, <1>6, <2>1 DEF StreamInv, AcceptInv, Up, In, Queues, Kinds, objects
  <2>4. SpokeInv(s)'
    BY <1>1, <1>2, <1>3, <2>1 DEF StreamInv, SpokeInv, In, Queues, Kinds
  <2>5. FailInv(s)'
    BY <1>1, <1>2, <1>3 DEF StreamInv, FailInv, In, Queues, Kinds, objects
  <2>6. ReadInv(s)'
    BY <1>1, <1>2, <1>3, <1>6 DEF StreamInv, ReadInv, Reading, In, Queues, Kinds
  <2>7. WriteInv(s)'
    BY <1>1, <1>2, <1>3 DEF StreamInv, WriteInv, Given, Alarmed, Fired, Writing, OnTheWire,
                            Done, Ending, In, Queues, Kinds, objects, guiVars
  <2>20. EarlyInv(s)'
    BY <1>1, <1>2, <1>3, <1>6, <2>1 DEF StreamInv, EarlyInv, ReadInv, Again, Reading, Up,
         In, Queues, Kinds, objects, wire, heard
  <2> QED
    BY <2>2, <2>3, <2>4, <2>5, <2>6, <2>7, <2>20 DEF StreamInv
<1>9. \A n \in Keys : EntryInv(n)'
  BY <1>1, <1>2, SameEntries DEF IInv, TypeInv, TypeOK, In, objects
<1>10. TargetInv' /\ SendInv' /\ FaultInv'
  BY <1>1 DEF IInv, TargetInv, SendInv, FaultInv, objects, guiVars
<1>11. CountInv'
  <2>1. OkReads' = OkReads \cup {Good(s, "READ")} /\ Good(s, "READ") \notin OkReads
    BY <1>3, <1>6 DEF OkReads, Reading, Waits, Good, Tag
  <2>2. IsFiniteSet(tags'["cq"])
    BY <1>2, <1>3, FS_AddElement DEF CountInv
  <2>3. Cardinality(OkReads') = Cardinality(OkReads) + 1 /\ Cardinality(OkReads) \in Nat
    BY <1>2, <2>1, OkReadsFinite, FS_AddElement
  <2>4. /\ replies'.sent = replies.sent + 1 /\ replies'.forwarded = replies.forwarded
        /\ replies.sent \in Nat /\ replies.forwarded \in Nat
    BY <1>1, <1>2, LimitsAssumption DEF TypeInv, TypeOK
  <2>5. (AllConnected' <=> AllConnected) /\ Cardinality(swallowed) \in Nat
    BY <1>1, <1>2, FS_CardinalityType DEF AllConnected, CountInv
  <2> QED
    BY <1>1, <1>2, <2>2, <2>3, <2>4, <2>5 DEF CountInv
<1> QED
  BY <1>4, <1>5, <1>7, <1>8, <1>9, <1>10, <1>11 DEF IInv

LEMMA WriteCompletesKeeps ==
  ASSUME IInv, NEW s \in Streams, WriteCompletes(s)
  PROVE  IInv'
<1>1. /\ NoFault /\ link[s] = "open" /\ s \in writes /\ writes' = writes \ {s}
      /\ fate' = [fate EXCEPT ![pendingNotif[s]][peer[s]] = "written"]
      /\ Deliver("cq", s, "WRITE", TRUE)
      /\ UNCHANGED <<objects, link, peer, reads, alarms, heard, at, call, activeNotifs,
                     guiVars, fault>>
  BY DEF WriteCompletes
<1>2. TypeInv /\ PlacesInv /\ StreamInv(s) /\ CountInv /\ SendInv
  BY DEF IInv
<1>3. /\ TagsTyped(tags') /\ tags'["cq"] = tags["cq"] \cup {Good(s, "WRITE")}
      /\ \A p \in Queues, t \in Streams, l \in Kinds :
           /\ Waits(p, t, l)' <=> Waits(p, t, l) \/ (p = "cq" /\ t = s /\ l = "WRITE")
           /\ Fails(p, t, l)' <=> Fails(p, t, l)
  <2>1. TagsTyped(tags) /\ "cq" \in Queues /\ "WRITE" \in TagKinds["cq"]
    BY <1>2, TypeFacts, KindsOf
  <2> QED
    BY <1>1, <2>1, Delivered
<1>4. pendingNotif[s] \in 1 .. MaxSends /\ peer[s] \in Keys
  BY <1>1, <1>2, LimitsAssumption DEF StreamInv, WriteInv, OnTheWire, TypeInv, TypeOK
<1>5. /\ fate' \in [1 .. MaxSends -> [Keys -> Fates]]
      /\ \A n \in 1 .. MaxSends, k \in Keys :
           fate'[n][k] = IF n = pendingNotif[s] /\ k = peer[s] THEN "written" ELSE fate[n][k]
  BY <1>1, <1>2, <1>4 DEF TypeInv, TypeOK, Fates
<1>6. TypeInv'
  BY <1>1, <1>2, <1>3, <1>5, TypeWithTags DEF TypeInv, TypeOK, heard, objects, guiVars
<1>7. PlacesInv'
  BY <1>1, <1>2 DEF PlacesInv
<1>8. Up(s) /\ Started(s)
  BY <1>1, <1>2 DEF StreamInv, SpokeInv, Up, Started
<1>9. ASSUME NEW t \in Streams, t # s
      PROVE  StreamInv(t)'
  <2>1. StreamInv(t) /\ (t \in writes' <=> t \in writes)
    BY <1>1, <1>9 DEF IInv
  <2> QED
    BY <1>1, <1>3, <1>9, <2>1, SameStream DEF objects, guiVars, heard
<1>10. StreamInv(s)'
  <2>1. Started(s)' /\ Up(s)'
    BY <1>1, <1>8 DEF Started, Starting, Up, In, objects
  <2>2. FreshInv(s)'
    BY <2>1 DEF FreshInv
  <2>3. AcceptInv(s)'
    BY <1>1, <1>2, <1>3, <1>8, <2>1 DEF StreamInv, AcceptInv, Up, In, Queues, Kinds, objects
  <2>4. SpokeInv(s)'
    BY <2>1 DEF SpokeInv
  <2>5. FailInv(s)'
    BY <1>1, <1>2, <1>3 DEF StreamInv, FailInv, In, Queues, Kinds, objects
  <2>6. ReadInv(s)'
    BY <1>1, <1>2, <1>3, <2>1 DEF StreamInv, AcceptInv, ReadInv, Reading, Up, In, Queues, Kinds, objects
  <2>7. WriteInv(s)'
    BY <1>1, <1>2, <1>3 DEF StreamInv, WriteInv, Given, Alarmed, Fired, Writing, OnTheWire,
                            Done, Ending, In, Queues, Kinds, objects, guiVars
  <2>20. EarlyInv(s)'
    BY <1>1, <1>2, <1>3, <2>1 DEF StreamInv, EarlyInv, ReadInv, Again, Reading, Up,
         In, Queues, Kinds, objects, wire, heard
  <2> QED
    BY <2>2, <2>3, <2>4, <2>5, <2>6, <2>7, <2>20 DEF StreamInv
<1>11. \A n \in Keys : EntryInv(n)'
  BY <1>1, <1>2, SameEntries DEF IInv, TypeInv, TypeOK, In, objects
<1>12. TargetInv' /\ SendInv' /\ FaultInv'
  BY <1>1 DEF IInv, TargetInv, SendInv, FaultInv, objects, guiVars
<1>13. CountInv'
  <2>1. Good(s, "WRITE").kind # "READ"
    BY DEF Good, Tag
  <2>2. OkReads' = OkReads /\ IsFiniteSet(tags'["cq"])
    BY <1>2, <1>3, <2>1, OtherTag
  <2> QED
    BY <1>1, <1>2, <2>2, SameCount DEF AllConnected
<1> QED
  BY <1>6, <1>7, <1>9, <1>10, <1>11, <1>12, <1>13 DEF IInv

LEMMA AlarmFiresKeeps ==
  ASSUME IInv, NEW s \in Streams, AlarmFires(s)
  PROVE  IInv'
<1>1. /\ NoFault /\ s \in alarms /\ alarms' = alarms \ {s}
      /\ Deliver("notify", s, "ALARM", TRUE)
      /\ UNCHANGED <<objects, link, peer, reads, writes, heard, at, call, activeNotifs,
                     guiVars, fate, fault>>
  BY DEF AlarmFires
<1>2. TypeInv /\ PlacesInv /\ StreamInv(s) /\ CountInv
  BY DEF IInv
<1>3. /\ TagsTyped(tags') /\ tags'["cq"] = tags["cq"]
      /\ \A p \in Queues, t \in Streams, l \in Kinds :
           /\ Waits(p, t, l)' <=> Waits(p, t, l) \/ (p = "notify" /\ t = s /\ l = "ALARM")
           /\ Fails(p, t, l)' <=> Fails(p, t, l)
  <2>1. /\ TagsTyped(tags) /\ "notify" \in Queues /\ "cq" \in Queues /\ "cq" # "notify"
        /\ "ALARM" \in TagKinds["notify"]
    BY <1>2, TypeFacts, KindsOf
  <2> QED
    BY <1>1, <2>1, Delivered
<1>4. TypeInv'
  BY <1>1, <1>2, <1>3, TypeWithTags DEF TypeInv, TypeOK, heard, objects, guiVars
<1>5. PlacesInv'
  BY <1>1, <1>2 DEF PlacesInv
<1>6. ASSUME NEW t \in Streams, t # s
      PROVE  StreamInv(t)'
  <2>1. StreamInv(t) /\ (t \in alarms' <=> t \in alarms)
    BY <1>1, <1>6 DEF IInv
  <2> QED
    BY <1>1, <1>3, <1>6, <2>1, SameStream DEF objects, guiVars, heard
<1>7. StreamInv(s)'
  <2>1. Started(s) /\ Started(s)' /\ (Up(s)' <=> Up(s))
    BY <1>1, <1>2 DEF StreamInv, FreshInv, Started, Starting, Up, In, objects
  <2>2. FreshInv(s)'
    BY <2>1 DEF FreshInv
  <2>3. AcceptInv(s)'
    BY <1>1, <1>2, <1>3, <2>1 DEF StreamInv, AcceptInv, In, Queues, Kinds, objects
  <2>4. SpokeInv(s)'
    BY <1>1, <1>2, <1>3, <2>1 DEF StreamInv, SpokeInv, In, Queues, Kinds, objects
  <2>5. FailInv(s)'
    BY <1>1, <1>2, <1>3 DEF StreamInv, FailInv, In, Queues, Kinds, objects
  <2>6. ReadInv(s)'
    BY <1>1, <1>2, <1>3 DEF StreamInv, ReadInv, Reading, In, Queues, Kinds, objects
  <2>7. WriteInv(s)'
    BY <1>1, <1>2, <1>3 DEF StreamInv, WriteInv, Given, Alarmed, Fired, Writing, OnTheWire,
                            Done, Ending, In, Queues, Kinds, objects, guiVars
  <2>20. EarlyInv(s)'
    BY <1>1, <1>2, <1>3, <2>1 DEF StreamInv, EarlyInv, ReadInv, Again, Reading, Up,
         In, Queues, Kinds, objects, wire, heard
  <2> QED
    BY <2>2, <2>3, <2>4, <2>5, <2>6, <2>7, <2>20 DEF StreamInv
<1>8. \A n \in Keys : EntryInv(n)'
  BY <1>1, <1>2, SameEntries DEF IInv, TypeInv, TypeOK, In, objects
<1>9. TargetInv' /\ SendInv' /\ FaultInv'
  BY <1>1 DEF IInv, TargetInv, SendInv, FaultInv, objects, guiVars
<1>10. CountInv'
  <2>1. OkReads' = OkReads /\ (AllConnected' => AllConnected)
    BY <1>1, <1>3 DEF OkReads, AllConnected
  <2> QED
    BY <1>1, <1>2, <1>3, <2>1, SameCount DEF CountInv
<1> QED
  BY <1>4, <1>5, <1>6, <1>7, <1>8, <1>9, <1>10 DEF IInv

LEMMA DisconnectKeeps ==
  ASSUME IInv, NEW s \in Streams, Disconnect(s)
  PROVE  IInv'
<1> DEFINE R == IF s \in reads THEN {Bad(s, "READ")} ELSE {}
           W == IF s \in writes THEN {Bad(s, "WRITE")} ELSE {}
<1>1. /\ NoFault /\ link[s] = "open" /\ link' = [link EXCEPT ![s] = "closed"]
      /\ reads' = reads \ {s} /\ writes' = writes \ {s}
      /\ tags' = [tags EXCEPT !["cq"] = @ \cup R \cup W]
      /\ UNCHANGED <<objects, peer, alarms, heard, at, call, activeNotifs, guiVars,
                     fate, fault>>
  BY DEF Disconnect, Bad
<1>2. TypeInv /\ PlacesInv /\ StreamInv(s) /\ CountInv
  BY DEF IInv
<1>3. /\ TagsTyped(tags') /\ tags'["cq"] = tags["cq"] \cup R \cup W
      /\ tags'["notify"] = tags["notify"]
  <2>1. TagsTyped(tags) /\ "cq" \in Queues /\ "notify" \in Queues /\ "cq" # "notify"
        /\ "READ" \in TagKinds["cq"] /\ "WRITE" \in TagKinds["cq"]
    BY <1>2, TypeFacts, KindsOf
  <2>2. /\ R \subseteq AnyTag /\ W \subseteq AnyTag
        /\ R \subseteq [call : Streams, kind : TagKinds["cq"], ok : BOOLEAN]
        /\ W \subseteq [call : Streams, kind : TagKinds["cq"], ok : BOOLEAN]
    <3>1. /\ Bad(s, "READ") \in [call : Streams, kind : TagKinds["cq"], ok : BOOLEAN]
          /\ Bad(s, "WRITE") \in [call : Streams, kind : TagKinds["cq"], ok : BOOLEAN]
      BY <2>1, TagType DEF Bad
    <3>2. Bad(s, "READ") \in AnyTag /\ Bad(s, "WRITE") \in AnyTag
      BY <3>1, KindsOf DEF AnyTag
    <3> QED
      BY <3>1, <3>2
  <2> HIDE DEF R, W
  <2> QED
    BY <1>1, <2>1, <2>2 DEF TagsTyped
<1>4. ASSUME NEW p \in Queues, NEW t \in Streams, NEW l \in Kinds
      PROVE  /\ Waits(p, t, l)' <=> Waits(p, t, l)
             /\ Fails(p, t, l)' <=>
                  \/ Fails(p, t, l)
                  \/ p = "cq" /\ t = s /\ l = "READ" /\ s \in reads
                  \/ p = "cq" /\ t = s /\ l = "WRITE" /\ s \in writes
  <2>1. /\ Bad(t, l) \in R <=> (t = s /\ l = "READ" /\ s \in reads)
        /\ Bad(t, l) \in W <=> (t = s /\ l = "WRITE" /\ s \in writes)
        /\ Good(t, l) \notin R /\ Good(t, l) \notin W
    BY SameTag
  <2> HIDE DEF R, W
  <2>2. CASE p = "cq"
    BY <1>3, <2>1, <2>2 DEF Waits, Fails
  <2>3. CASE p = "notify"
    BY <1>3, <2>3 DEF Waits, Fails
  <2> QED
    BY <2>2, <2>3 DEF Queues
<1>5. TypeInv'
  BY <1>1, <1>2, <1>3, TypeWithTags DEF TypeInv, TypeOK, heard, objects, guiVars
<1>6. PlacesInv'
  BY <1>1, <1>2 DEF PlacesInv
<1>7. link'[s] = "closed"
  BY <1>1, <1>2 DEF TypeInv, TypeOK
<1>8. ASSUME NEW t \in Streams, t # s
      PROVE  StreamInv(t)'
  <2>1. StreamInv(t) /\ link'[t] = link[t]
    BY <1>1, <1>2, <1>8 DEF IInv, TypeInv, TypeOK
  <2>2. (t \in reads' <=> t \in reads) /\ (t \in writes' <=> t \in writes)
    BY <1>1, <1>8
  <2> QED
    BY <1>1, <1>4, <1>8, <2>1, <2>2, SameStream DEF objects, guiVars, heard
<1>9. StreamInv(s)'
  <2>1. (Started(s)' <=> Started(s)) /\ (Up(s)' <=> Up(s))
    BY <1>1 DEF Started, Starting, Up, In, objects
  <2>2. FreshInv(s)'
    BY <1>1, <1>2, <1>4, <2>1 DEF StreamInv, FreshInv, AcceptInv, Queues, Kinds, objects, guiVars
  <2>3. AcceptInv(s)'
    BY <1>1, <1>2, <1>4, <1>7, <2>1 DEF StreamInv, AcceptInv, In, Queues, Kinds, objects
  <2>4. SpokeInv(s)'
    BY <1>1, <1>2, <1>4, <2>1 DEF StreamInv, SpokeInv, In, Queues, Kinds, objects
  <2>5. FailInv(s)'
    BY <1>7 DEF FailInv
  <2>6. ReadInv(s)'
    BY <1>1, <1>2, <1>4 DEF StreamInv, ReadInv, SpokeInv, AcceptInv, Up, Reading, In, Queues,
                            Kinds, objects
  <2>7. WriteInv(s)'
    BY <1>1, <1>2, <1>4 DEF StreamInv, WriteInv, Given, Alarmed, Fired, Writing, OnTheWire,
                            Done, Ending, In, Queues, Kinds, objects, guiVars
  <2>20. EarlyInv(s)'
    BY <1>1, <1>2, <1>4, <2>1 DEF StreamInv, EarlyInv, ReadInv, Again, Reading, Up,
         In, Queues, Kinds, objects, wire, heard
  <2> QED
    BY <2>2, <2>3, <2>4, <2>5, <2>6, <2>7, <2>20 DEF StreamInv
<1>10. \A n \in Keys : EntryInv(n)'
  BY <1>1, <1>2, SameEntries DEF IInv, TypeInv, TypeOK, In, objects
<1>11. TargetInv' /\ SendInv' /\ FaultInv'
  BY <1>1 DEF IInv, TargetInv, SendInv, FaultInv, objects, guiVars
<1>12. CountInv'
  <2>1. IsFiniteSet(R) /\ IsFiniteSet(W)
    BY FS_EmptySet, FS_Singleton
  <2>2. \A m \in R \cup W : ~m.ok
    BY DEF Bad, Tag
  <2> HIDE DEF R, W
  <2>3. IsFiniteSet(tags'["cq"])
    <3>1. IsFiniteSet(tags["cq"] \cup R)
      BY <1>2, <2>1, FS_Union DEF CountInv
    <3>2. IsFiniteSet((tags["cq"] \cup R) \cup W)
      BY <2>1, <3>1, FS_Union
    <3> QED
      BY <1>3, <3>2
  <2>4. OkReads' = OkReads
    BY <1>3, <2>2, Zenon DEF OkReads
  <2>5. ~AllConnected'
    BY <1>7 DEF AllConnected
  <2> QED
    BY <1>1, <1>2, <2>3, <2>4, <2>5, SameCount
<1> QED
  BY <1>5, <1>6, <1>8, <1>9, <1>10, <1>11, <1>12 DEF IInv
-----------------------------------------------------------------------------
(* The threads.                                                             *)

\* A thread goes on with an object, or is done with it.
LEMMA Going ==
  ASSUME TypeInv, NEW q \in Queues, NEW s \in Streams, call[q] \in {s, NoStream},
         NEW x \in {s, NoStream}, NEW place \in Places, place = "next" <=> x = NoStream,
         Goto(q, x, place)
  PROVE  /\ at' \in [Queues -> Places] /\ call' \in [Queues -> Streams \cup {NoStream}]
         /\ \A p \in Queues : call'[p] = NoStream <=> at'[p] = "next"
         /\ at'[q] = place /\ call'[q] = x
         /\ \A p \in Queues : p # q => at'[p] = at[p] /\ call'[p] = call[p]
         /\ \A t \in Streams \ {s} : \A p \in Queues :
              (call'[p] = t <=> call[p] = t) /\ (call[p] = t => at'[p] = at[p])
<1>1. /\ at' \in [Queues -> Places] /\ call' \in [Queues -> Streams \cup {NoStream}]
      /\ at'[q] = place /\ call'[q] = x
      /\ \A p \in Queues : p # q => at'[p] = at[p] /\ call'[p] = call[p]
  BY TypeFacts, Moved
<1>2. \A p \in Queues : call'[p] = NoStream <=> at'[p] = "next"
  BY <1>1, TypeFacts
<1>3. ASSUME NEW t \in Streams \ {s}, NEW p \in Queues
      PROVE  (call'[p] = t <=> call[p] = t) /\ (call[p] = t => at'[p] = at[p])
  <2>1. t # NoStream
    BY StreamsAssumption
  <2> QED
    BY <1>1, <2>1
<1> QED
  BY <1>1, <1>2, <1>3

\* What a tag means to the thread that takes it.
LEMMA Branches ==
  ASSUME IInv, NEW q \in Queues, NEW m \in tags[q], at[q] = "next", life[m.call] = "live"
  PROVE  \/ q = "notify" /\ ~m.ok /\ m.kind = "ALARM" /\ Branch(m) = "next"
         \/ /\ q = "cq" /\ ~m.ok /\ m.kind \in {"READ", "WRITE"}
            /\ \/ Branch(m) = "unregister"
               \/ Branch(m) = "delete" /\ state[m.call] = "DONE"
         \/ /\ q = "notify" /\ m.ok /\ m.kind = "ACCEPT" /\ state[m.call] = "CONNECTED"
            /\ Branch(m) = "register"
         \/ /\ q = "cq" /\ m.ok /\ m.kind = "READ" /\ state[m.call] = "CONNECTED"
            /\ In("notify", m.call, "setActive") /\ Branch(m) = "register"
         \/ /\ q = "notify" /\ m.ok /\ m.kind = "ALARM" /\ state[m.call] = "ACTIVE"
            /\ Branch(m) = "alarm"
         \/ /\ q = "cq" /\ m.ok /\ m.kind = "WRITE" /\ state[m.call] = "ACTIVE"
            /\ Branch(m) = "writeDone"
         \/ /\ q = "cq" /\ m.ok /\ m.kind = "READ" /\ state[m.call] = "ACTIVE"
            /\ Branch(m) = "readAgain"
         \/ /\ m.ok /\ state[m.call] = "DONE" /\ Branch(m) = "delete"
            /\ \/ q = "notify" /\ m.kind = "ALARM"
               \/ q = "cq" /\ m.kind \in {"READ", "WRITE"}
<1> DEFINE s == m.call
<1>1. /\ s \in Streams /\ m.ok \in BOOLEAN /\ m.kind \in TagKinds[q]
      /\ m.ok => Waits(q, s, m.kind)
      /\ ~m.ok => Fails(q, s, m.kind)
  <2>1. TagsTyped(tags)
    BY TypeFacts DEF IInv
  <2>2. m \in AnyTag /\ m.kind \in TagKinds[q]
    BY <2>1 DEF TagsTyped
  <2>3. m = Tag(m.call, m.kind, m.ok) /\ m.call \in Streams /\ m.ok \in BOOLEAN
    BY <2>2, AnyTagIsTag
  <2>4. (m.ok => m = Good(s, m.kind)) /\ (~m.ok => m = Bad(s, m.kind))
    BY <2>3 DEF Tag, Good, Bad
  <2> QED
    BY <2>2, <2>3, <2>4 DEF Waits, Fails
<1>2. StreamInv(s) /\ TypeInv
  BY <1>1 DEF IInv
<1>3. state[s] \in {"CREATE", "CONNECTED", "ACTIVE", "DONE"}
  BY <1>1, <1>2 DEF TypeInv, TypeOK
<1>4. state[s] # "CREATE"
  BY <1>2 DEF StreamInv, FreshInv, Started, Starting, AcceptInv, In
<1>5. CASE ~m.ok
  <2>1. \/ m.kind \in {"READ", "WRITE"} /\ q = "cq"
        \/ m.kind = "ALARM" /\ q = "notify"
    <3>1. CASE q = "cq"
      <4>1. TagKinds[q] = {"READ", "WRITE"}
        BY <3>1, KindsOf
      <4> QED
        BY <1>1, <3>1, <4>1
    <3>2. CASE q = "notify"
      BY <1>1, <1>2, <1>5, <3>2, KindsOf DEF StreamInv, AcceptInv
    <3> QED
      BY <3>1, <3>2 DEF Queues
  <2>2. Branch(m) = IF m.kind = "ALARM" THEN "next" ELSE OnFailure(m.call)
    BY <1>5 DEF Branch
  <2> QED
    BY <1>5, <2>1, <2>2 DEF OnFailure
<1>6. CASE m.ok
  <2>1. \/ m.kind \in {"READ", "WRITE"} /\ q = "cq"
        \/ m.kind \in {"ALARM", "ACCEPT"} /\ q = "notify"
    BY <1>1, KindsOf DEF Queues
  <2>2. m.kind = "ACCEPT" => state[s] = "CONNECTED"
    BY <1>1, <1>2, <1>6, <2>1 DEF StreamInv, AcceptInv
  <2>3. /\ m.kind = "WRITE" => state[s] \in {"ACTIVE", "DONE"}
        /\ m.kind = "READ" => state[s] \in {"ACTIVE", "DONE"} \/ In("notify", s, "setActive")
    BY <1>1, <1>2, <1>6, <2>1 DEF StreamInv, SpokeInv, EarlyInv, Up
  <2>4. m.kind = "ALARM" => state[s] \in {"ACTIVE", "DONE"}
    BY <1>1, <1>2, <1>6, <2>1 DEF StreamInv, FreshInv, Started, Starting, In
  <2>5. /\ state[s] = "CONNECTED" => Branch(m) = "register"
        /\ state[s] = "ACTIVE" => Branch(m) = OnActive(m.kind)
        /\ state[s] = "DONE" => Branch(m) = "delete"
    BY <1>6 DEF Branch
  <2>6. /\ OnActive("ALARM") = "alarm" /\ OnActive("WRITE") = "writeDone"
        /\ OnActive("READ") = "readAgain"
    BY DEF OnActive
  <2> QED
    BY <1>3, <1>4, <1>6, <2>1, <2>2, <2>3, <2>4, <2>5, <2>6
<1> QED
  BY <1>1, <1>5, <1>6

LEMMA TakeKeeps ==
  ASSUME IInv, NEW q \in Queues, NEW m \in tags[q], Take(q, m)
  PROVE  IInv'
<1> DEFINE s == m.call
           B == Branch(m)
           x == IF B = "next" THEN NoStream ELSE s
<1>1. /\ NoFault /\ at[q] = "next" /\ life[s] = "live"
      /\ tags' = [tags EXCEPT ![q] = @ \ {m}]
      /\ Goto(q, x, B)
      /\ replies' = IF B = "readAgain" THEN [replies EXCEPT !.forwarded = @ + 1] ELSE replies
      /\ swallowed' = IF m.kind = "READ" /\ B = "register" THEN swallowed \cup {s} ELSE swallowed
      /\ UNCHANGED <<objects, link, peer, reads, writes, alarms, activeNotifs, guiVars, fate, fault>>
  BY DEF Take, Return
<1>2. TypeInv /\ PlacesInv /\ CountInv /\ FaultInv /\ call[q] = NoStream
  BY <1>1, TypeFacts DEF IInv
<1>3. /\ TagsTyped(tags')
      /\ \A p \in Queues : p # q => tags'[p] = tags[p]
      /\ tags'[q] = tags[q] \ {m}
      /\ s \in Streams /\ m.kind \in TagKinds[q] /\ m.ok \in BOOLEAN
      /\ m.ok => Waits(q, s, m.kind)
      /\ ~m.ok => Fails(q, s, m.kind)
      /\ m.ok => \A p \in Queues, t \in Streams, l \in Kinds :
           /\ Waits(p, t, l)' <=> Waits(p, t, l) /\ ~(p = q /\ t = s /\ l = m.kind)
           /\ Fails(p, t, l)' <=> Fails(p, t, l)
      /\ ~m.ok => \A p \in Queues, t \in Streams, l \in Kinds :
           /\ Waits(p, t, l)' <=> Waits(p, t, l)
           /\ Fails(p, t, l)' <=> Fails(p, t, l) /\ ~(p = q /\ t = s /\ l = m.kind)
  <2>1. TagsTyped(tags) /\ tags' = [tags EXCEPT ![q] = @ \ {m}]
    BY <1>1, <1>2, TypeFacts
  <2>2. /\ TagsTyped(tags') /\ tags'[q] = tags[q] \ {m}
        /\ \A p \in Queues : p # q => tags'[p] = tags[p]
        /\ m.call \in Streams /\ m.kind \in TagKinds[q] /\ m.ok \in BOOLEAN
        /\ m.ok => m = Good(m.call, m.kind)
        /\ ~m.ok => m = Bad(m.call, m.kind)
    BY <2>1, Taken
  <2>3. \A p \in Queues, t \in Streams, l \in Kinds :
           /\ Waits(p, t, l)' <=> Waits(p, t, l) /\ ~(p = q /\ m = Good(t, l))
           /\ Fails(p, t, l)' <=> Fails(p, t, l) /\ ~(p = q /\ m = Bad(t, l))
    <3>1. ASSUME NEW p \in Queues, NEW t \in Streams, NEW l \in Kinds
          PROVE  /\ Waits(p, t, l)' <=> Waits(p, t, l) /\ ~(p = q /\ m = Good(t, l))
                 /\ Fails(p, t, l)' <=> Fails(p, t, l) /\ ~(p = q /\ m = Bad(t, l))
      BY <2>1, Taken, ZenonT(30)
    <3> QED
      BY <3>1
  <2>4. CASE m.ok
    <3>1. \A t, l : (m = Good(t, l) <=> t = s /\ l = m.kind) /\ m # Bad(t, l)
      BY <2>2, <2>4, SameTag
    <3> QED
      BY <2>2, <2>3, <2>4, <3>1 DEF Waits
  <2>5. CASE ~m.ok
    <3>1. \A t, l : (m = Bad(t, l) <=> t = s /\ l = m.kind) /\ m # Good(t, l)
      BY <2>2, <2>5, SameTag
    <3> QED
      BY <2>2, <2>3, <2>5, <3>1 DEF Fails
  <2> QED
    BY <2>4, <2>5
<1>4. StreamInv(s) /\ s # NoStream
  BY <1>3, StreamsAssumption DEF IInv
<1>5. \/ q = "notify" /\ ~m.ok /\ m.kind = "ALARM" /\ B = "next"
      \/ /\ q = "cq" /\ ~m.ok /\ m.kind \in {"READ", "WRITE"}
         /\ \/ B = "unregister"
            \/ B = "delete" /\ state[s] = "DONE"
      \/ /\ q = "notify" /\ m.ok /\ m.kind = "ACCEPT" /\ state[s] = "CONNECTED"
         /\ B = "register"
      \/ /\ q = "cq" /\ m.ok /\ m.kind = "READ" /\ state[s] = "CONNECTED"
         /\ In("notify", s, "setActive") /\ B = "register"
      \/ /\ q = "notify" /\ m.ok /\ m.kind = "ALARM" /\ state[s] = "ACTIVE" /\ B = "alarm"
      \/ /\ q = "cq" /\ m.ok /\ m.kind = "WRITE" /\ state[s] = "ACTIVE" /\ B = "writeDone"
      \/ /\ q = "cq" /\ m.ok /\ m.kind = "READ" /\ state[s] = "ACTIVE" /\ B = "readAgain"
      \/ /\ m.ok /\ state[s] = "DONE" /\ B = "delete"
         /\ \/ q = "notify" /\ m.kind = "ALARM"
            \/ q = "cq" /\ m.kind \in {"READ", "WRITE"}
  BY <1>1, Branches
<1> HIDE DEF s, B
<1>6. /\ at' \in [Queues -> Places] /\ call' \in [Queues -> Streams \cup {NoStream}]
      /\ \A p \in Queues : call'[p] = NoStream <=> at'[p] = "next"
      /\ at'[q] = B /\ call'[q] = x
      /\ \A p \in Queues : p # q => at'[p] = at[p] /\ call'[p] = call[p]
      /\ \A t \in Streams \ {s} : \A p \in Queues :
           (call'[p] = t <=> call[p] = t) /\ (call[p] = t => at'[p] = at[p])
  <2>1. B \in Places
    BY <1>5 DEF Places
  <2>2. x \in {s, NoStream} /\ (B = "next" <=> x = NoStream)
    BY <1>4
  <2> HIDE DEF x
  <2> QED
    BY <1>1, <1>2, <1>3, <2>1, <2>2, Going
<1>7. PlacesInv'
  BY <1>2, <1>5, <1>6 DEF PlacesInv, Queues
<1>8. ASSUME NEW t \in Streams, t # s
      PROVE  StreamInv(t)'
  <2>1. StreamInv(t)
    BY DEF IInv
  <2> QED
    BY <1>1, <1>3, <1>6, <1>8, <2>1, SameStream DEF objects, guiVars, heard
<1>9. StreamInv(s)'
  <2>1. (Started(s)' <=> Started(s)) /\ (Up(s)' <=> Up(s))
    BY <1>1, <1>5, <1>6 DEF Started, Starting, Up, In, objects, Queues
  <2>2. q = "notify" => ~Starting(s) /\ ~Writing(s)
    BY <1>1 DEF Starting, Writing, In
  <2>3. FreshInv(s)'
    BY <1>1, <1>3, <1>4, <1>5, <1>6, <2>1 DEF StreamInv, FreshInv, Up, Started, Queues, Kinds, objects, guiVars
  <2>4. AcceptInv(s)'
    BY <1>1, <1>3, <1>4, <1>5, <1>6, <2>1 DEF StreamInv, AcceptInv, Up, Started, In, Queues, Kinds, objects
  <2>5. SpokeInv(s)'
    BY <1>1, <1>3, <1>4, <1>5, <1>6, <2>1 DEF StreamInv, SpokeInv, Up, In, Queues, Kinds, objects
  <2>6. FailInv(s)'
    BY <1>1, <1>3, <1>4, <1>5, <1>6 DEF StreamInv, FailInv, In, Queues, Kinds, objects
  <2>7. ReadInv(s)'
    BY <1>1, <1>3, <1>4, <1>5, <1>6 DEF StreamInv, ReadInv, Reading, In, Queues, Kinds, objects
  <2>8. WriteInv(s)'
    BY <1>1, <1>3, <1>4, <1>5, <1>6, <2>2 DEF StreamInv, WriteInv, Given, Alarmed, Fired, Writing,
         OnTheWire, Done, Ending, In, Queues, Kinds, objects, guiVars
  <2>20. EarlyInv(s)'
    BY <1>1, <1>3, <1>4, <1>5, <1>6, <2>1 DEF StreamInv, EarlyInv, ReadInv, Again, Reading, Up,
         In, Queues, Kinds, objects, wire, heard
  <2> QED
    BY <2>3, <2>4, <2>5, <2>6, <2>7, <2>8, <2>20 DEF StreamInv
<1>10. \A n \in Keys : EntryInv(n)'
  <2>1. ASSUME NEW t \in Streams, NEW n \in Keys, activeNotifs[n] = t
        PROVE  \A p \in Queues : /\ In(p, t, "setDone")' => In(p, t, "setDone")
                                 /\ In(p, t, "delete")' => In(p, t, "delete")
    <3>1. state[t] # "DONE"
      BY <2>1, StreamsAssumption DEF IInv, EntryInv
    <3>2. CASE t # s
      BY <1>6, <3>2 DEF In
    <3>3. CASE t = s
      <4>1. B # "delete" \/ ~Started(s)
        BY <1>5, <3>1, <3>3
      <4>2. B # "delete" /\ B # "setDone"
        BY <1>5, <3>1, <3>3
      <4> QED
        BY <1>6, <3>3, <4>2 DEF In
    <3> QED
      BY <3>2, <3>3
  <2> QED
    BY <1>1, <1>2, <2>1, SameEntries DEF IInv, TypeInv, TypeOK, objects
<1>11. TargetInv' /\ SendInv' /\ FaultInv'
  BY <1>1 DEF IInv, TargetInv, SendInv, FaultInv, objects, guiVars
<1>12. /\ CountInv' /\ replies' \in [sent: 0..MaxReplies, forwarded: 0..MaxReplies]
       /\ swallowed' \subseteq Streams
  <2>1. /\ replies.sent \in 0 .. MaxReplies /\ replies.forwarded \in 0 .. MaxReplies
        /\ replies \in [sent: 0..MaxReplies, forwarded: 0..MaxReplies]
        /\ AllConnected' <=> AllConnected
        /\ swallowed \subseteq Streams /\ swallowed' \subseteq Streams
    BY <1>1, <1>2, <1>3 DEF TypeInv, TypeOK, AllConnected
  <2>2. IsFiniteSet(tags["cq"]) /\ IsFiniteSet(OkReads) /\ Cardinality(OkReads) \in Nat
        /\ IsFiniteSet(swallowed) /\ Cardinality(swallowed) \in Nat
    BY <1>2, OkReadsFinite, FS_CardinalityType DEF CountInv
  <2>3. CASE q = "notify"
    <3>1. /\ tags'["cq"] = tags["cq"] /\ OkReads' = OkReads /\ replies' = replies
          /\ swallowed' = swallowed
      BY <1>1, <1>3, <1>5, <2>3 DEF OkReads, Queues
    <3> QED
      BY <1>2, <2>1, <3>1 DEF CountInv
  <2>4. CASE q = "cq"
    <3>1. IsFiniteSet(tags'["cq"])
      BY <1>3, <2>2, <2>4, FS_RemoveElement
    <3>2. CASE m.ok /\ m.kind = "READ"
      <4>1. m \in OkReads /\ OkReads' = OkReads \ {m}
        BY <1>3, <2>4, <3>2 DEF OkReads
      <4>2. Cardinality(OkReads') = Cardinality(OkReads) - 1 /\ Cardinality(OkReads') \in Nat
        BY <2>2, <4>1, FS_RemoveElement, FS_CardinalityType
      <4>3. IsFiniteSet(swallowed') /\ Cardinality(swallowed') \in Nat
        BY <1>1, <2>2, FS_AddElement, FS_CardinalityType
      <4>4. /\ \/ B = "readAgain" /\ replies'.forwarded = replies.forwarded + 1
                  /\ replies' = [replies EXCEPT !.forwarded = @ + 1] /\ swallowed' = swallowed
               \/ /\ B = "register" /\ replies' = replies
                  /\ Cardinality(swallowed') = Cardinality(swallowed) + 1
               \/ B = "delete" /\ replies' = replies /\ swallowed' = swallowed /\ ~AllConnected
            /\ replies'.sent = replies.sent
        <5>1. CASE B = "readAgain"
          BY <1>1, <2>1, <5>1
        <5>2. CASE B = "register"
          <6>1. state[s] = "CONNECTED" /\ at["cq"] = "next"
            BY <1>1, <1>5, <2>4, <3>2, <5>2
          <6>2. s \notin swallowed
            BY <1>4, <6>1 DEF StreamInv, EarlyInv, Up, Again, In
          <6> QED
            BY <1>1, <2>2, <3>2, <5>2, <6>2, FS_AddElement
        <5>3. CASE B = "delete"
          <6>1. state[s] = "DONE" => ~AllConnected
            BY <1>3, <1>4 DEF StreamInv, FailInv, AllConnected
          <6> QED
            BY <1>1, <1>5, <3>2, <5>3, <6>1
        <5> QED
          BY <1>5, <3>2, <5>1, <5>2, <5>3
      <4>5. /\ replies.forwarded + Cardinality(swallowed) + Cardinality(OkReads) <= replies.sent
            /\ AllConnected =>
                 replies.sent = replies.forwarded + Cardinality(swallowed) + Cardinality(OkReads)
        BY <1>2 DEF CountInv
      <4>6. /\ replies'.forwarded + Cardinality(swallowed') + Cardinality(OkReads') <= replies'.sent
            /\ AllConnected =>
                 replies'.sent = replies'.forwarded + Cardinality(swallowed') + Cardinality(OkReads')
        BY <2>1, <2>2, <4>2, <4>3, <4>4, <4>5
      <4>7. CountInv'
        BY <2>1, <3>1, <4>3, <4>6 DEF CountInv
      <4>8. replies.forwarded + 1 <= MaxReplies
        BY <2>1, <2>2, <4>2, <4>5, LimitsAssumption
      <4> QED
        BY <2>1, <4>4, <4>7, <4>8, LimitsAssumption
    <3>3. CASE ~(m.ok /\ m.kind = "READ")
      <4>1. OkReads' = OkReads
        BY <1>3, <2>4, <3>3 DEF OkReads
      <4>2. replies' = replies /\ swallowed' = swallowed
        BY <1>1, <1>5, <3>3
      <4> QED
        BY <1>2, <2>1, <3>1, <4>1, <4>2 DEF CountInv
    <3> QED
      BY <3>2, <3>3
  <2> QED
    BY <2>3, <2>4 DEF Queues
<1>13. TypeInv'
  BY <1>1, <1>2, <1>3, <1>6, <1>12, TypeWithTags DEF TypeInv, TypeOK, heard, objects, guiVars
<1> QED
  BY <1>7, <1>8, <1>9, <1>10, <1>11, <1>12, <1>13 DEF IInv

\* A thread that is on its way with an object.
LEMMA OnIt ==
  ASSUME IInv, NEW q \in Queues, NEW s \in Streams, NEW place, At(q, s, place)
  PROVE  /\ TypeInv /\ PlacesInv /\ CountInv /\ StreamInv(s) /\ FaultInv
         /\ fault = "none" /\ at[q] = place /\ call[q] = s /\ life[s] = "live"
         /\ s # NoStream
BY StreamsAssumption DEF IInv, At, NoFault

LEMMA RegisterKeeps ==
  ASSUME IInv, NEW q \in Queues, NEW s \in Streams, Register(q, s)
  PROVE  IInv'
<1>1. /\ At(q, s, "register") /\ LockFree
      /\ activeNotifs' = [activeNotifs EXCEPT ![peer[s]] = s]
      /\ Goto(q, s, "firstRead")
      /\ UNCHANGED <<writePending, pendingNotif, wire, tags, guiVars, fate, fault>>
  BY DEF Register
<1>2. /\ TypeInv /\ PlacesInv /\ CountInv /\ StreamInv(s) /\ FaultInv
      /\ fault = "none" /\ at[q] = "register" /\ call[q] = s /\ life[s] = "live" /\ s # NoStream
  BY <1>1, OnIt
<1>4. /\ life' \in [Streams -> {"none", "live", "freed"}]
      /\ state' \in [Streams -> {"CREATE", "CONNECTED", "ACTIVE", "DONE"}]
      /\ \A t \in Streams :
           \/ life'[t] = life[t] /\ state'[t] = state[t]
           \/ t # s /\ life[t] = "none" /\ life'[t] = "live" /\ state'[t] = "CONNECTED"
  <2>1. \/ UNCHANGED <<life, state>>
        \/ \E n \in Streams : /\ life[n] = "none" /\ life' = [life EXCEPT ![n] = "live"]
                              /\ state' = [state EXCEPT ![n] = "CONNECTED"]
    BY DEF Register
  <2>2. /\ life \in [Streams -> {"none", "live", "freed"}]
        /\ state \in [Streams -> {"CREATE", "CONNECTED", "ACTIVE", "DONE"}]
    BY <1>2 DEF TypeInv, TypeOK
  <2> QED
    BY <1>2, <2>1, <2>2
<1>5. /\ at' \in [Queues -> Places] /\ call' \in [Queues -> Streams \cup {NoStream}]
      /\ \A p \in Queues : call'[p] = NoStream <=> at'[p] = "next"
      /\ at'[q] = "firstRead" /\ call'[q] = s
      /\ \A p \in Queues : p # q => at'[p] = at[p] /\ call'[p] = call[p]
      /\ \A t \in Streams \ {s} : \A p \in Queues :
           (call'[p] = t <=> call[p] = t) /\ (call[p] = t => at'[p] = at[p])
  <2>1. "firstRead" \in Places /\ call[q] \in {s, NoStream} /\ s \in {s, NoStream}
        /\ ("firstRead" = "next" <=> s = NoStream)
    BY <1>2 DEF Places
  <2> QED
    BY <1>1, <1>2, <2>1, Going
<1>6. /\ peer[s] \in Keys /\ peer' = peer
      /\ activeNotifs' \in [Keys -> Streams \cup {NoStream}]
      /\ \A k \in Keys : activeNotifs'[k] = IF k = peer[s] THEN s ELSE activeNotifs[k]
  BY <1>1, <1>2 DEF TypeInv, TypeOK, wire
<1>7. TypeInv'
  BY <1>1, <1>2, <1>4, <1>5, <1>6 DEF TypeInv, TypeOK, heard, wire, guiVars
<1>8. PlacesInv'
  BY <1>2, <1>5 DEF PlacesInv, Queues
<1>3. \/ /\ q = "notify" /\ call["cq"] # s /\ ~Started(s) /\ state[s] = "CONNECTED"
      \/ /\ q = "cq" /\ Started(s) /\ ~In("notify", s, "delete")
         /\ \/ state[s] = "ACTIVE"
            \/ state[s] = "CONNECTED" /\ In("notify", s, "setActive")
  <2>1. CASE q = "notify"
    BY <1>2, <2>1 DEF StreamInv, AcceptInv, FreshInv, Started, Starting, In
  <2>2. CASE q = "cq"
    BY <1>2, <2>2 DEF StreamInv, EarlyInv, Again, Started, Starting, In
  <2> QED
    BY <2>1, <2>2 DEF Queues
<1>9. /\ state[s] \in {"CONNECTED", "ACTIVE"} /\ link[s] # "idle"
      /\ ~Waits("notify", s, "ACCEPT")
  <2>1. CASE q = "notify"
    BY <1>2, <1>3, <2>1 DEF StreamInv, AcceptInv, In
  <2>2. CASE q = "cq"
    BY <1>2, <1>3, <2>2 DEF StreamInv, AcceptInv, FreshInv, Started, Starting, In
  <2> QED
    BY <2>1, <2>2 DEF Queues
<1>10. \A p \in Queues, t \in Streams, l \in Kinds :
         (Waits(p, t, l)' <=> Waits(p, t, l)) /\ (Fails(p, t, l)' <=> Fails(p, t, l))
  BY <1>1 DEF Waits, Fails
<1>11. ASSUME NEW t \in Streams, t # s
       PROVE  StreamInv(t)'
  <2>1. StreamInv(t) /\ \A k \in Keys : activeNotifs'[k] = t => activeNotifs[k] = t
    BY <1>1, <1>6, <1>11 DEF IInv, wire
  <2>2. CASE life'[t] = life[t] /\ state'[t] = state[t]
    BY <1>1, <1>5, <1>10, <1>11, <2>1, <2>2, SameStream DEF wire, guiVars, heard
  <2>3. CASE life[t] = "none" /\ life'[t] = "live" /\ state'[t] = "CONNECTED"
    <3>1. ~Started(t)
      BY <2>1, <2>3 DEF StreamInv, AcceptInv
    <3>2. ~Started(t)'
      BY <1>5, <1>11, <2>3, <3>1 DEF Started, Starting, In, Queues
    <3>3. state[t] = "CREATE" /\ link[t] = "idle" /\ link'[t] = "idle"
      BY <1>1, <2>1, <2>3, <3>1 DEF StreamInv, FreshInv, wire
    <3>4. FreshInv(t)'
      BY <1>1, <1>5, <1>10, <1>11, <2>1, <2>3, <3>1 DEF StreamInv, FreshInv, Queues, Kinds, wire, guiVars
    <3>5. AcceptInv(t)'
      BY <1>5, <1>10, <1>11, <2>1, <3>2, <3>3 DEF StreamInv, AcceptInv, In, Queues, Kinds
    <3>6. SpokeInv(t)' /\ FailInv(t)' /\ ReadInv(t)'
      BY <2>1, <2>3, <3>2, <3>3, <3>4, <3>5, <1>6 DEF FreshInv, AcceptInv, SpokeInv, FailInv, ReadInv, Reading, In
    <3>7. WriteInv(t)'
      BY <3>2, <3>3, <3>4, <3>5 DEF FreshInv, AcceptInv, WriteInv, Given, Alarmed, Fired, Writing,
           OnTheWire, Done, Ending, In
    <3>8. EarlyInv(t)'
      BY <1>1, <1>5, <1>10, <1>11, <2>1, <2>3, <3>1, <3>2, <3>3, <3>4 DEF StreamInv, FreshInv, EarlyInv,
           Again, Up, Started, Starting, In, Queues, Kinds, wire, heard
    <3> QED
      BY <3>4, <3>5, <3>6, <3>7, <3>8 DEF StreamInv
  <2> QED
    BY <1>4, <2>2, <2>3
<1>12. StreamInv(s)'
  <2>1. /\ Started(s)' /\ In(q, s, "firstRead")' /\ ~In(q, s, "register")'
        /\ state'[s] = state[s] /\ life'[s] = "live" /\ (Up(s)' <=> Up(s))
    BY <1>2, <1>3, <1>4, <1>5 DEF Started, Starting, Up, In, Queues
  <2>2. /\ q = "notify" => In("notify", s, "firstRead")' /\ call'["cq"] # s
        /\ q = "cq" => /\ call'["notify"] = call["notify"] /\ at'["notify"] = at["notify"]
                       /\ In("cq", s, "register")
    BY <1>2, <1>3, <1>5 DEF In, Queues
  <2>3. FreshInv(s)'
    BY <2>1 DEF FreshInv
  <2> HIDE DEF FreshInv
  <2>4. AcceptInv(s)'
    <3>1. CASE q = "notify"
      BY <1>1, <1>2, <1>3, <1>5, <1>9, <1>10, <2>1, <2>2, <3>1 DEF StreamInv, AcceptInv, In, Queues, Kinds, wire
    <3>2. CASE q = "cq"
      BY <1>1, <1>2, <1>3, <1>5, <1>9, <1>10, <2>1, <2>2, <3>2 DEF StreamInv, AcceptInv, In, Queues, Kinds, wire
    <3> QED
      BY <3>1, <3>2 DEF Queues
  <2>5. SpokeInv(s)' /\ FailInv(s)'
    <3>1. CASE q = "notify"
      BY <1>1, <1>2, <1>3, <1>5, <1>10, <2>1, <2>2, <3>1 DEF StreamInv, SpokeInv, FailInv, In, Queues, Kinds, wire
    <3>2. CASE q = "cq"
      BY <1>1, <1>2, <1>3, <1>5, <1>10, <2>1, <2>2, <3>2 DEF StreamInv, SpokeInv, FailInv, In, Queues, Kinds, wire
    <3> QED
      BY <3>1, <3>2 DEF Queues
  <2>7. ReadInv(s)' /\ EarlyInv(s)'
    <3>1. CASE q = "notify"
      <4>1. /\ s \notin reads' /\ ~Up(s) /\ ~Again(s)' /\ s \notin swallowed'
            /\ \A k \in {"READ", "WRITE"} : ~Waits("cq", s, k)' /\ ~Fails("cq", s, k)'
        BY <1>1, <1>2, <1>3, <1>10, <2>2, <3>1 DEF StreamInv, FreshInv, EarlyInv, Started, Again, Up,
             In, Queues, Kinds, wire, heard
      <4> QED
        BY <2>1, <2>2, <3>1, <4>1 DEF ReadInv, EarlyInv, Reading, In
    <3>2. CASE q = "cq"
      BY <1>1, <1>2, <1>3, <1>10, <2>1, <2>2, <3>2 DEF StreamInv, ReadInv, Reading, EarlyInv, Again, Up,
           In, Queues, Kinds, wire, heard
    <3> QED
      BY <3>1, <3>2 DEF Queues
  <2>6. WriteInv(s)'
    <3>1. /\ (Given(s)' <=> Given(s)) /\ (Alarmed(s)' <=> Alarmed(s)) /\ (Fired(s)' <=> Fired(s))
          /\ (OnTheWire(s)' <=> OnTheWire(s)) /\ (Done(s)' <=> Done(s))
          /\ Waits("cq", s, "WRITE")' <=> Waits("cq", s, "WRITE")
          /\ Fails("cq", s, "WRITE")' <=> Fails("cq", s, "WRITE")
      BY <1>1, <1>10 DEF Given, Alarmed, Fired, OnTheWire, Done, Queues, Kinds, wire, guiVars
    <3>2. (Writing(s)' => Writing(s)) /\ (Ending(s)' => Ending(s))
      BY <1>2, <1>5, <2>2 DEF Writing, Ending, In, Queues
    <3> QED
      BY <1>1, <1>2, <3>1, <3>2 DEF StreamInv, WriteInv
  <2> QED
    BY <2>3, <2>4, <2>5, <2>6, <2>7 DEF StreamInv
<1>13. ASSUME NEW k \in Keys
       PROVE  EntryInv(k)'
  <2>1. CASE k = peer[s]
    <3>1. activeNotifs'[k] = s /\ peer'[s] = k /\ life'[s] = "live" /\ state'[s] # "DONE"
      BY <1>2, <1>4, <1>6, <1>9, <2>1
    <3>2. \A p \in Queues : ~In(p, s, "setDone")' /\ ~In(p, s, "delete")'
      BY <1>2, <1>3, <1>5 DEF PlacesInv, In, Queues
    <3> QED
      BY <3>1, <3>2 DEF EntryInv
  <2>2. CASE k # peer[s] /\ activeNotifs[k] # NoStream
    <3>0. PICK t \in Streams : activeNotifs[k] = t
      BY <1>2, <2>2 DEF TypeInv, TypeOK
    <3>1. EntryInv(k) /\ activeNotifs'[k] = t
      BY <1>6, <2>2, <3>0 DEF IInv
    <3>2. /\ peer[t] = k /\ life[t] = "live" /\ state[t] # "DONE" /\ t # s
          /\ \A p \in Queues : ~In(p, t, "setDone") /\ ~In(p, t, "delete")
      BY <2>2, <3>0, <3>1 DEF EntryInv
    <3>3. life'[t] = "live" /\ state'[t] # "DONE" /\ peer'[t] = k
      BY <1>4, <1>6, <3>1, <3>2
    <3>4. \A p \in Queues : ~In(p, t, "setDone")' /\ ~In(p, t, "delete")'
      BY <1>5, <3>1, <3>2 DEF In
    <3> QED
      BY <3>1, <3>3, <3>4 DEF EntryInv
  <2>3. CASE k # peer[s] /\ activeNotifs[k] = NoStream
    BY <1>6, <2>3 DEF EntryInv
  <2> QED
    BY <2>1, <2>2, <2>3
<1>14. TargetInv' /\ FaultInv'
  BY <1>1, <1>2 DEF LockFree, TargetInv, FaultInv, guiVars
<1>15. SendInv'
  BY <1>1 DEF IInv, SendInv, wire, guiVars
<1>16. CountInv'
  BY <1>1, <1>2, SameCount DEF CountInv, OkReads, AllConnected, wire
<1> QED
  BY <1>7, <1>8, <1>11, <1>12, <1>13, <1>14, <1>15, <1>16 DEF IInv

\* A Read is outstanding, or fails at once on a stream that is closed.
LEMMA ReadStarts ==
  ASSUME TypeInv, CountInv, NEW s \in Streams, StartRead(s), link[s] # "idle", s \notin reads,
         fault = "none"
  PROVE  /\ TagsTyped(tags') /\ reads' \subseteq Streams /\ fault' = "none"
         /\ OkReads' = OkReads /\ IsFiniteSet(tags'["cq"])
         /\ s \in reads' <=> link[s] = "open"
         /\ \A t \in Streams \ {s} : t \in reads' <=> t \in reads
         /\ \A p \in Queues, t \in Streams, l \in Kinds :
              /\ Waits(p, t, l)' <=> Waits(p, t, l)
              /\ Fails(p, t, l)' <=>
                   Fails(p, t, l) \/ (p = "cq" /\ t = s /\ l = "READ" /\ link[s] = "closed")
<1>1. link[s] \in {"open", "closed"} /\ reads \subseteq Streams
  BY DEF TypeInv, TypeOK
<1>2. CASE link[s] = "open"
  <2>1. reads' = reads \cup {s} /\ fault' = "none" /\ tags' = tags
    BY <1>2 DEF StartRead
  <2> QED
    BY <1>1, <1>2, <2>1, TypeFacts DEF OkReads, CountInv, Waits, Fails
<1>3. CASE link[s] = "closed"
  <2>1. Deliver("cq", s, "READ", FALSE) /\ reads' = reads /\ fault' = fault
    BY <1>3 DEF StartRead
  <2>2. TagsTyped(tags) /\ "cq" \in Queues /\ "READ" \in TagKinds["cq"]
    BY TypeFacts, KindsOf
  <2>3. /\ TagsTyped(tags') /\ tags'["cq"] = tags["cq"] \cup {Bad(s, "READ")}
        /\ \A p \in Queues, t \in Streams, l \in Kinds :
             /\ Fails(p, t, l)' <=> Fails(p, t, l) \/ (p = "cq" /\ t = s /\ l = "READ")
             /\ Waits(p, t, l)' <=> Waits(p, t, l)
    BY <2>1, <2>2, Failed
  <2>4. OkReads' = OkReads /\ IsFiniteSet(tags'["cq"])
    <3>1. ~Bad(s, "READ").ok
      BY DEF Bad, Tag
    <3> QED
      BY <2>3, <3>1, OtherTag
  <2> QED
    BY <1>1, <1>3, <2>1, <2>3, <2>4
<1> QED
  BY <1>1, <1>2, <1>3

LEMMA FirstReadKeeps ==
  ASSUME IInv, NEW q \in Queues, NEW s \in Streams, FirstRead(q, s)
  PROVE  IInv'
<1>1. /\ At(q, s, "firstRead") /\ StartRead(s) /\ Goto(q, s, "setActive")
      /\ UNCHANGED <<objects, link, peer, writes, alarms, heard, activeNotifs, guiVars, fate>>
  BY DEF FirstRead
<1>2. /\ TypeInv /\ PlacesInv /\ CountInv /\ StreamInv(s) /\ FaultInv
      /\ fault = "none" /\ at[q] = "firstRead" /\ call[q] = s /\ life[s] = "live" /\ s # NoStream
  BY <1>1, OnIt
<1>3. \/ /\ q = "notify" /\ call["cq"] # s /\ state[s] = "CONNECTED"
      \/ /\ q = "cq" /\ ~In("notify", s, "delete") /\ ~In("notify", s, "firstRead")
         /\ \/ state[s] = "ACTIVE"
            \/ state[s] = "CONNECTED" /\ In("notify", s, "setActive")
  <2>1. CASE q = "notify"
    BY <1>2, <2>1 DEF StreamInv, AcceptInv, ReadInv, In
  <2>2. CASE q = "cq"
    BY <1>2, <2>2 DEF StreamInv, ReadInv, EarlyInv, Again, In
  <2> QED
    BY <2>1, <2>2 DEF Queues
<1>4. /\ Started(s) /\ link[s] # "idle" /\ s \notin reads /\ ~Reading(s)
  <2>1. Started(s)
    BY <1>2, <1>3 DEF Started, Starting, In
  <2>2. CASE q = "notify"
    BY <1>2, <2>1, <2>2 DEF StreamInv, AcceptInv, ReadInv, Reading, In
  <2>3. CASE q = "cq"
    BY <1>2, <2>1, <2>3 DEF StreamInv, AcceptInv, ReadInv, In
  <2> QED
    BY <2>2, <2>3 DEF Queues
<1>5. /\ TagsTyped(tags') /\ reads' \subseteq Streams /\ fault' = "none"
      /\ OkReads' = OkReads /\ IsFiniteSet(tags'["cq"])
      /\ s \in reads' <=> link[s] = "open"
      /\ \A t \in Streams \ {s} : t \in reads' <=> t \in reads
      /\ \A p \in Queues, t \in Streams, l \in Kinds :
           /\ Waits(p, t, l)' <=> Waits(p, t, l)
           /\ Fails(p, t, l)' <=>
                Fails(p, t, l) \/ (p = "cq" /\ t = s /\ l = "READ" /\ link[s] = "closed")
  BY <1>1, <1>2, <1>4, ReadStarts
<1>6. /\ at' \in [Queues -> Places] /\ call' \in [Queues -> Streams \cup {NoStream}]
      /\ \A p \in Queues : call'[p] = NoStream <=> at'[p] = "next"
      /\ at'[q] = "setActive" /\ call'[q] = s
      /\ \A p \in Queues : p # q => at'[p] = at[p] /\ call'[p] = call[p]
      /\ \A t \in Streams \ {s} : \A p \in Queues :
           (call'[p] = t <=> call[p] = t) /\ (call[p] = t => at'[p] = at[p])
  <2>1. "setActive" \in Places /\ call[q] \in {s, NoStream} /\ s \in {s, NoStream}
        /\ ("setActive" = "next" <=> s = NoStream)
    BY <1>2 DEF Places
  <2> QED
    BY <1>1, <1>2, <2>1, Going
<1>7. TypeInv'
  BY <1>1, <1>2, <1>5, <1>6, TypeWithTags DEF TypeInv, TypeOK, heard, objects, guiVars, Faults
<1>8. PlacesInv'
  BY <1>2, <1>6 DEF PlacesInv, Queues
<1>9. ASSUME NEW t \in Streams, t # s
      PROVE  StreamInv(t)'
  <2>1. StreamInv(t)
    BY DEF IInv
  <2> QED
    BY <1>1, <1>5, <1>6, <1>9, <2>1, SameStream DEF objects, guiVars, heard
<1>10. StreamInv(s)'
  <2>1. /\ Started(s)' /\ (Up(s)' <=> Up(s)) /\ In(q, s, "setActive")'
        /\ ~In("notify", s, "firstRead")' /\ ~In("cq", s, "firstRead")' /\ ~In("cq", s, "register")'
        /\ In("notify", s, "register")' => In("notify", s, "register")
    BY <1>1, <1>2, <1>3, <1>4, <1>6 DEF Started, Starting, In, objects, Up, Queues
  <2>2. FreshInv(s)'
    BY <2>1 DEF FreshInv
  <2>9. /\ q = "notify" => call'["cq"] # s /\ In("notify", s, "setActive")'
        /\ q = "cq" => /\ call'["notify"] = call["notify"] /\ at'["notify"] = at["notify"]
                       /\ In("cq", s, "firstRead")
    BY <1>2, <1>3, <1>6 DEF In, Queues
  <2>3. AcceptInv(s)'
    <3>1. state[s] # "CREATE"
      BY <1>3
    <3> QED
      BY <1>1, <1>2, <1>4, <1>5, <1>6, <2>1, <2>9, <3>1 DEF StreamInv, AcceptInv, In, Queues, Kinds, objects
  <2>4. SpokeInv(s)'
    <3>1. (In("notify", s, "alarm")' => In("notify", s, "alarm"))
          /\ (In("notify", s, "write")' => In("notify", s, "write"))
      BY <1>2, <1>3, <1>6, <2>9 DEF In, Queues
    <3> QED
      BY <1>1, <1>2, <1>5, <2>1, <3>1 DEF StreamInv, SpokeInv, Queues, Kinds
  <2>5. FailInv(s)'
    <3>1. CASE q = "notify"
      BY <1>1, <1>2, <1>3, <1>5, <1>6, <2>9, <3>1 DEF StreamInv, FailInv, In, Queues, Kinds, objects
    <3>2. CASE q = "cq"
      BY <1>1, <1>2, <1>3, <1>5, <1>6, <2>9, <3>2 DEF StreamInv, FailInv, In, Queues, Kinds, objects
    <3> QED
      BY <3>1, <3>2 DEF Queues
  <2>6. ReadInv(s)'
    BY <1>2, <1>3, <1>4, <1>5, <1>6, <2>1, <2>9 DEF ReadInv, Reading, In, Queues, Kinds
  <2>7. WriteInv(s)'
    <3>1. /\ (Given(s)' <=> Given(s)) /\ (Alarmed(s)' <=> Alarmed(s)) /\ (Fired(s)' <=> Fired(s))
          /\ (OnTheWire(s)' <=> OnTheWire(s)) /\ (Done(s)' <=> Done(s))
          /\ Waits("cq", s, "WRITE")' <=> Waits("cq", s, "WRITE")
          /\ Fails("cq", s, "WRITE")' <=> Fails("cq", s, "WRITE")
      BY <1>1, <1>5 DEF Given, Alarmed, Fired, OnTheWire, Done, Queues, Kinds, guiVars
    <3>2. (Writing(s)' => Writing(s)) /\ (Ending(s)' => Ending(s))
      BY <1>2, <1>3, <1>6, <2>9 DEF Writing, Ending, In, Queues
    <3> QED
      BY <1>1, <1>2, <3>1, <3>2 DEF StreamInv, WriteInv, objects
  <2>20. EarlyInv(s)'
    <3>1. CASE q = "notify"
      <4>1. ~Again(s) /\ ~Again(s)'
        BY <1>3, <2>9, <3>1 DEF Again, In
      <4> QED
        BY <1>1, <1>2, <2>1, <2>9, <3>1, <4>1 DEF StreamInv, EarlyInv, heard
    <3>2. CASE q = "cq"
      BY <1>1, <1>2, <1>3, <1>5, <2>1, <2>9, <3>2 DEF StreamInv, EarlyInv, Again, Up, In, Queues, Kinds, objects, heard
    <3> QED
      BY <3>1, <3>2 DEF Queues
  <2> QED
    BY <2>2, <2>3, <2>4, <2>5, <2>6, <2>7, <2>20 DEF StreamInv
<1>11. \A n \in Keys : EntryInv(n)'
  <2>1. \A t \in Streams, p \in Queues : /\ In(p, t, "setDone")' => In(p, t, "setDone")
                                         /\ In(p, t, "delete")' => In(p, t, "delete")
    BY <1>6 DEF In
  <2> QED
    BY <1>1, <1>2, <2>1, SameEntries DEF IInv, TypeInv, TypeOK, objects
<1>12. TargetInv' /\ SendInv' /\ FaultInv'
  BY <1>1, <1>5 DEF IInv, TargetInv, SendInv, FaultInv, objects, guiVars
<1>13. CountInv'
  BY <1>1, <1>2, <1>5, SameCount DEF AllConnected
<1> QED
  BY <1>7, <1>8, <1>9, <1>10, <1>11, <1>12, <1>13 DEF IInv

LEMMA SetActiveKeeps ==
  ASSUME IInv, NEW q \in Queues, NEW s \in Streams, SetActive(q, s)
  PROVE  IInv'
<1>1. /\ At(q, s, "setActive") /\ state' = [state EXCEPT ![s] = "ACTIVE"]
      /\ Goto(q, NoStream, "next")
      /\ UNCHANGED <<life, writePending, pendingNotif, wire, tags, activeNotifs, guiVars, fate, fault>>
  BY DEF SetActive, Return
<1>2. /\ TypeInv /\ PlacesInv /\ CountInv /\ StreamInv(s) /\ FaultInv
      /\ fault = "none" /\ at[q] = "setActive" /\ call[q] = s /\ life[s] = "live" /\ s # NoStream
  BY <1>1, OnIt
<1>3. /\ Started(s) /\ link[s] # "idle" /\ life[s] # "none"
      /\ q = "cq" => /\ ~In("notify", s, "delete") /\ state[s] \in {"CONNECTED", "ACTIVE"}
                     /\ ~In("notify", s, "register") /\ ~In("notify", s, "firstRead")
      /\ ~Waits("notify", s, "ACCEPT")
  <2>1. Started(s)
    BY <1>2 DEF StreamInv, EarlyInv, Again, Started, Starting, In, Queues
  <2>2. CASE q = "notify"
    BY <1>2, <2>1, <2>2 DEF StreamInv, AcceptInv, In
  <2>3. CASE q = "cq"
    BY <1>2, <2>1, <2>3 DEF StreamInv, AcceptInv, EarlyInv, Again, In
  <2> QED
    BY <1>2, <2>1, <2>2, <2>3 DEF Queues
<1>4. /\ state' \in [Streams -> {"CREATE", "CONNECTED", "ACTIVE", "DONE"}]
      /\ \A t \in Streams : state'[t] = IF t = s THEN "ACTIVE" ELSE state[t]
  BY <1>1, <1>2 DEF TypeInv, TypeOK
<1>5. \A p \in Queues, t \in Streams, l \in Kinds :
         (Waits(p, t, l)' <=> Waits(p, t, l)) /\ (Fails(p, t, l)' <=> Fails(p, t, l))
  BY <1>1 DEF Waits, Fails
<1>6. /\ at' \in [Queues -> Places] /\ call' \in [Queues -> Streams \cup {NoStream}]
      /\ \A p \in Queues : call'[p] = NoStream <=> at'[p] = "next"
      /\ at'[q] = "next" /\ call'[q] = NoStream
      /\ \A p \in Queues : p # q => at'[p] = at[p] /\ call'[p] = call[p]
      /\ \A t \in Streams \ {s} : \A p \in Queues :
           (call'[p] = t <=> call[p] = t) /\ (call[p] = t => at'[p] = at[p])
  <2>1. "next" \in Places /\ call[q] \in {s, NoStream} /\ NoStream \in {s, NoStream}
        /\ ("next" = "next" <=> NoStream = NoStream)
    BY <1>2 DEF Places
  <2> QED
    BY <1>1, <1>2, <2>1, Going
<1>7. TypeInv'
  BY <1>1, <1>2, <1>4, <1>6 DEF TypeInv, TypeOK, heard, wire, guiVars
<1>8. PlacesInv'
  BY <1>2, <1>6 DEF PlacesInv, Queues
<1>9. ASSUME NEW t \in Streams, t # s
      PROVE  StreamInv(t)'
  <2>1. StreamInv(t)
    BY DEF IInv
  <2> QED
    BY <1>1, <1>4, <1>5, <1>6, <1>9, <2>1, SameStream DEF wire, guiVars, heard
<1>10. StreamInv(s)'
  <2>1. Started(s)' /\ Up(s)' /\ Started(s) /\ state'[s] = "ACTIVE"
    BY <1>2, <1>3, <1>4 DEF Started, Starting, In, Up
  <2>2. FreshInv(s)' /\ SpokeInv(s)'
    BY <2>1 DEF FreshInv, SpokeInv
  <2>3. AcceptInv(s)'
    <3>1. CASE q = "notify"
      BY <1>1, <1>2, <1>3, <1>5, <1>6, <2>1, <3>1 DEF StreamInv, AcceptInv, In, Queues, Kinds, wire
    <3>2. CASE q = "cq"
      BY <1>1, <1>2, <1>3, <1>5, <1>6, <2>1, <3>2 DEF StreamInv, AcceptInv, In, Queues, Kinds, wire
    <3> QED
      BY <3>1, <3>2 DEF Queues
  <2>5. FailInv(s)'
    BY <1>1, <1>2, <1>3, <1>5, <1>6, <2>1 DEF StreamInv, FailInv, In, Queues, Kinds, wire
  <2>6. ReadInv(s)'
    BY <1>1, <1>2, <1>3, <1>5, <1>6, <2>1 DEF StreamInv, ReadInv, Reading, In, Queues, Kinds, wire
  <2>7. WriteInv(s)'
    BY <1>1, <1>2, <1>3, <1>5, <1>6 DEF StreamInv, WriteInv, Given, Alarmed, Fired, Writing,
         OnTheWire, Done, Ending, In, Queues, Kinds, wire, guiVars
  <2>20. EarlyInv(s)'
    BY <1>1, <1>2, <1>3, <1>5, <1>6, <2>1 DEF StreamInv, EarlyInv, ReadInv, Again, Reading, Up,
         In, Queues, Kinds, objects, wire, heard
  <2> QED
    BY <2>2, <2>3, <2>5, <2>6, <2>7, <2>20 DEF StreamInv
<1>11. \A n \in Keys : EntryInv(n)'
  <2>1. \A t \in Streams, p \in Queues : /\ In(p, t, "setDone")' => In(p, t, "setDone")
                                         /\ In(p, t, "delete")' => In(p, t, "delete")
    BY <1>6 DEF In
  <2>2. \A t \in Streams : state[t] # "DONE" => state'[t] # "DONE"
    BY <1>4
  <2> QED
    BY <1>1, <1>2, <2>1, <2>2, SameEntries DEF IInv, TypeInv, TypeOK, wire
<1>12. TargetInv' /\ SendInv' /\ FaultInv'
  BY <1>1 DEF IInv, TargetInv, SendInv, FaultInv, wire, guiVars
<1>13. CountInv'
  BY <1>1, <1>2, SameCount DEF CountInv, OkReads, AllConnected, wire
<1> QED
  BY <1>7, <1>8, <1>9, <1>10, <1>11, <1>12, <1>13 DEF IInv

LEMMA OnAlarmKeeps ==
  ASSUME IInv, NEW q \in Queues, NEW s \in Streams, OnAlarm(q, s)
  PROVE  IInv'
<1>1. /\ At(q, s, "alarm")
      /\ IF SomethingToWrite(s) THEN Goto(q, s, "write") ELSE Return(q)
      /\ UNCHANGED <<objects, wire, tags, activeNotifs, guiVars, fate, fault>>
  BY DEF OnAlarm
<1>2. /\ TypeInv /\ PlacesInv /\ CountInv /\ StreamInv(s) /\ FaultInv
      /\ fault = "none" /\ at[q] = "alarm" /\ call[q] = s /\ life[s] = "live" /\ s # NoStream
  BY <1>1, OnIt
<1>3. q = "notify"
  BY <1>2 DEF PlacesInv, Queues
<1>4. Goto(q, s, "write")
  BY <1>1, <1>2, <1>3 DEF SomethingToWrite, StreamInv, WriteInv, Writing, In
<1>5. \A p \in Queues, t \in Streams, l \in Kinds :
         (Waits(p, t, l)' <=> Waits(p, t, l)) /\ (Fails(p, t, l)' <=> Fails(p, t, l))
  BY <1>1 DEF Waits, Fails
<1>6. /\ at' \in [Queues -> Places] /\ call' \in [Queues -> Streams \cup {NoStream}]
      /\ \A p \in Queues : call'[p] = NoStream <=> at'[p] = "next"
      /\ at'[q] = "write" /\ call'[q] = s
      /\ \A p \in Queues : p # q => at'[p] = at[p] /\ call'[p] = call[p]
      /\ \A t \in Streams \ {s} : \A p \in Queues :
           (call'[p] = t <=> call[p] = t) /\ (call[p] = t => at'[p] = at[p])
  <2>1. "write" \in Places /\ call[q] \in {s, NoStream} /\ s \in {s, NoStream}
        /\ ("write" = "next" <=> s = NoStream)
    BY <1>2 DEF Places
  <2> QED
    BY <1>2, <1>4, <2>1, Going
<1>7. TypeInv'
  BY <1>1, <1>2, <1>6 DEF TypeInv, TypeOK, heard, wire, guiVars, objects
<1>8. PlacesInv'
  BY <1>2, <1>3, <1>6 DEF PlacesInv, Queues
<1>9. ASSUME NEW t \in Streams, t # s
      PROVE  StreamInv(t)'
  <2>1. StreamInv(t)
    BY DEF IInv
  <2> QED
    BY <1>1, <1>5, <1>6, <1>9, <2>1, SameStream DEF wire, guiVars, objects, heard
<1>10. StreamInv(s)'
  <2>1. (Started(s)' <=> Started(s)) /\ (Up(s)' <=> Up(s)) /\ Up(s)
    BY <1>1, <1>2, <1>3, <1>6 DEF StreamInv, SpokeInv, Started, Starting, In, Up, objects, wire
  <2>2. FreshInv(s)' /\ SpokeInv(s)'
    BY <2>1 DEF FreshInv, SpokeInv, Started, Up
  <2>3. AcceptInv(s)'
    BY <1>1, <1>2, <1>3, <1>5, <1>6, <2>1 DEF StreamInv, AcceptInv, In, Queues, Kinds, wire, objects
  <2>5. FailInv(s)'
    BY <1>1, <1>2, <1>3, <1>5, <1>6, <2>1 DEF StreamInv, FailInv, In, Queues, Kinds, wire, objects
  <2>6. ReadInv(s)'
    BY <1>1, <1>2, <1>3, <1>5, <1>6, <2>1 DEF StreamInv, ReadInv, Reading, In, Queues, Kinds, wire
  <2>7. WriteInv(s)'
    BY <1>1, <1>2, <1>3, <1>5, <1>6 DEF StreamInv, WriteInv, Given, Alarmed, Fired, Writing,
         OnTheWire, Done, Ending, In, Queues, Kinds, wire, guiVars, objects
  <2>20. EarlyInv(s)'
    BY <1>1, <1>2, <1>3, <1>5, <1>6, <2>1 DEF StreamInv, EarlyInv, ReadInv, Again, Reading, Up,
         In, Queues, Kinds, objects, wire, heard
  <2> QED
    BY <2>2, <2>3, <2>5, <2>6, <2>7, <2>20 DEF StreamInv
<1>11. \A n \in Keys : EntryInv(n)'
  <2>1. \A t \in Streams, p \in Queues : /\ In(p, t, "setDone")' => In(p, t, "setDone")
                                         /\ In(p, t, "delete")' => In(p, t, "delete")
    BY <1>6 DEF In
  <2> QED
    BY <1>1, <1>2, <2>1, SameEntries DEF IInv, TypeInv, TypeOK, wire, objects
<1>12. TargetInv' /\ SendInv' /\ FaultInv'
  BY <1>1 DEF IInv, TargetInv, SendInv, FaultInv, wire, guiVars, objects
<1>13. CountInv'
  BY <1>1, <1>2, SameCount DEF CountInv, OkReads, AllConnected, wire
<1> QED
  BY <1>7, <1>8, <1>9, <1>10, <1>11, <1>12, <1>13 DEF IInv

LEMMA StartWriteKeeps ==
  ASSUME IInv, NEW q \in Queues, NEW s \in Streams, StartWrite(q, s)
  PROVE  IInv'
<1>1. /\ At(q, s, "write") /\ Goto(q, NoStream, "next")
      /\ IF link[s] = "open"
         THEN /\ writes' = writes \cup {s}
              /\ fault' = IF s \in writes THEN "overlap" ELSE fault
              /\ UNCHANGED tags
         ELSE Deliver("cq", s, "WRITE", FALSE) /\ UNCHANGED <<writes, fault>>
      /\ UNCHANGED <<objects, link, peer, reads, alarms, heard, activeNotifs, guiVars, fate>>
  BY DEF StartWrite, Return
<1>2. /\ TypeInv /\ PlacesInv /\ CountInv /\ StreamInv(s) /\ FaultInv
      /\ fault = "none" /\ at[q] = "write" /\ call[q] = s /\ life[s] = "live" /\ s # NoStream
  BY <1>1, OnIt
<1>3. q = "notify"
  BY <1>2 DEF PlacesInv, Queues
<1>4. /\ Up(s) /\ Started(s) /\ link[s] \in {"open", "closed"} /\ s \notin writes
  <2>1. Up(s) /\ s \notin writes
    BY <1>2, <1>3 DEF StreamInv, SpokeInv, WriteInv, Writing, OnTheWire, In
  <2>2. Started(s)
    BY <2>1 DEF Up, Started
  <2> QED
    BY <1>2, <2>1, <2>2 DEF StreamInv, AcceptInv, TypeInv, TypeOK
<1>5. /\ TagsTyped(tags') /\ writes' \subseteq Streams /\ fault' = "none"
      /\ OkReads' = OkReads /\ IsFiniteSet(tags'["cq"])
      /\ s \in writes' <=> link[s] = "open"
      /\ \A t \in Streams \ {s} : t \in writes' <=> t \in writes
      /\ \A p \in Queues, t \in Streams, l \in Kinds :
           /\ Waits(p, t, l)' <=> Waits(p, t, l)
           /\ Fails(p, t, l)' <=>
                Fails(p, t, l) \/ (p = "cq" /\ t = s /\ l = "WRITE" /\ link[s] = "closed")
  <2>0. writes \subseteq Streams
    BY <1>2 DEF TypeInv, TypeOK
  <2>1. CASE link[s] = "open"
    <3>1. writes' = writes \cup {s} /\ fault' = "none" /\ tags' = tags
      BY <1>1, <1>2, <1>4, <2>1
    <3> QED
      BY <1>2, <2>0, <2>1, <3>1, TypeFacts DEF OkReads, CountInv, Waits, Fails
  <2>2. CASE link[s] = "closed"
    <3>1. Deliver("cq", s, "WRITE", FALSE) /\ writes' = writes /\ fault' = "none"
      BY <1>1, <1>2, <2>2
    <3>2. TagsTyped(tags) /\ "cq" \in Queues /\ "WRITE" \in TagKinds["cq"]
      BY <1>2, TypeFacts, KindsOf
    <3>3. /\ TagsTyped(tags') /\ tags'["cq"] = tags["cq"] \cup {Bad(s, "WRITE")}
          /\ \A p \in Queues, t \in Streams, l \in Kinds :
               /\ Fails(p, t, l)' <=> Fails(p, t, l) \/ (p = "cq" /\ t = s /\ l = "WRITE")
               /\ Waits(p, t, l)' <=> Waits(p, t, l)
      BY <3>1, <3>2, Failed
    <3>4. OkReads' = OkReads /\ IsFiniteSet(tags'["cq"])
      <4>1. ~Bad(s, "WRITE").ok
        BY DEF Bad, Tag
      <4> QED
        BY <1>2, <3>3, <4>1, OtherTag
    <3> QED
      BY <1>4, <2>0, <2>2, <3>1, <3>3, <3>4
  <2> QED
    BY <1>4, <2>1, <2>2
<1>6. /\ at' \in [Queues -> Places] /\ call' \in [Queues -> Streams \cup {NoStream}]
      /\ \A p \in Queues : call'[p] = NoStream <=> at'[p] = "next"
      /\ at'[q] = "next" /\ call'[q] = NoStream
      /\ \A p \in Queues : p # q => at'[p] = at[p] /\ call'[p] = call[p]
      /\ \A t \in Streams \ {s} : \A p \in Queues :
           (call'[p] = t <=> call[p] = t) /\ (call[p] = t => at'[p] = at[p])
  <2>1. "next" \in Places /\ call[q] \in {s, NoStream} /\ NoStream \in {s, NoStream}
        /\ ("next" = "next" <=> NoStream = NoStream)
    BY <1>2 DEF Places
  <2> QED
    BY <1>1, <1>2, <2>1, Going
<1>7. TypeInv'
  BY <1>1, <1>2, <1>5, <1>6, TypeWithTags DEF TypeInv, TypeOK, heard, objects, guiVars, Faults
<1>8. PlacesInv'
  BY <1>2, <1>3, <1>6 DEF PlacesInv, Queues
<1>9. ASSUME NEW t \in Streams, t # s
      PROVE  StreamInv(t)'
  <2>1. StreamInv(t)
    BY DEF IInv
  <2> QED
    BY <1>1, <1>5, <1>6, <1>9, <2>1, SameStream DEF guiVars, objects, heard
<1>10. StreamInv(s)'
  <2>1. Up(s)' /\ Started(s)'
    BY <1>1, <1>4 DEF Started, Up, objects
  <2>2. FreshInv(s)' /\ SpokeInv(s)'
    BY <2>1 DEF FreshInv, SpokeInv
  <2>3. AcceptInv(s)'
    BY <1>1, <1>2, <1>3, <1>4, <1>5, <1>6, <2>1 DEF StreamInv, AcceptInv, In, Queues, Kinds, objects
  <2>5. FailInv(s)'
    BY <1>1, <1>2, <1>3, <1>5, <1>6, <2>1 DEF StreamInv, FailInv, In, Queues, Kinds, objects
  <2>6. ReadInv(s)'
    BY <1>1, <1>2, <1>3, <1>5, <1>6, <2>1 DEF StreamInv, ReadInv, Reading, In, Queues, Kinds
  <2>7. WriteInv(s)'
    BY <1>1, <1>2, <1>3, <1>4, <1>5, <1>6 DEF StreamInv, WriteInv, Given, Alarmed, Fired, Writing,
         OnTheWire, Done, Ending, In, Queues, Kinds, guiVars, objects
  <2>20. EarlyInv(s)'
    BY <1>1, <1>2, <1>3, <1>5, <1>6, <2>1 DEF StreamInv, EarlyInv, ReadInv, Again, Reading, Up,
         In, Queues, Kinds, objects, wire, heard
  <2> QED
    BY <2>2, <2>3, <2>5, <2>6, <2>7, <2>20 DEF StreamInv
<1>11. \A n \in Keys : EntryInv(n)'
  <2>1. \A t \in Streams, p \in Queues : /\ In(p, t, "setDone")' => In(p, t, "setDone")
                                         /\ In(p, t, "delete")' => In(p, t, "delete")
    BY <1>6 DEF In
  <2> QED
    BY <1>1, <1>2, <2>1, SameEntries DEF IInv, TypeInv, TypeOK, objects
<1>12. TargetInv' /\ SendInv' /\ FaultInv'
  BY <1>1, <1>5 DEF IInv, TargetInv, SendInv, FaultInv, guiVars, objects
<1>13. CountInv'
  BY <1>1, <1>2, <1>5, SameCount DEF AllConnected
<1> QED
  BY <1>7, <1>8, <1>9, <1>10, <1>11, <1>12, <1>13 DEF IInv

LEMMA WriteDoneKeeps ==
  ASSUME IInv, NEW q \in Queues, NEW s \in Streams, WriteDone(q, s)
  PROVE  IInv'
<1>1. /\ At(q, s, "writeDone") /\ writePending' = [writePending EXCEPT ![s] = FALSE]
      /\ Goto(q, NoStream, "next")
      /\ UNCHANGED <<life, state, pendingNotif, wire, tags, activeNotifs, guiVars, fate, fault>>
  BY DEF WriteDone, Return
<1>2. /\ TypeInv /\ PlacesInv /\ CountInv /\ StreamInv(s) /\ FaultInv
      /\ fault = "none" /\ at[q] = "writeDone" /\ call[q] = s /\ life[s] = "live" /\ s # NoStream
  BY <1>1, OnIt
<1>3. q = "cq"
  BY <1>2 DEF PlacesInv, Queues
<1>4. /\ writePending' \in [Streams -> BOOLEAN]
      /\ \A t \in Streams : t # s => writePending'[t] = writePending[t]
  BY <1>1, <1>2 DEF TypeInv, TypeOK
<1>5. \A p \in Queues, t \in Streams, l \in Kinds :
         (Waits(p, t, l)' <=> Waits(p, t, l)) /\ (Fails(p, t, l)' <=> Fails(p, t, l))
  BY <1>1 DEF Waits, Fails
<1>6. /\ at' \in [Queues -> Places] /\ call' \in [Queues -> Streams \cup {NoStream}]
      /\ \A p \in Queues : call'[p] = NoStream <=> at'[p] = "next"
      /\ at'[q] = "next" /\ call'[q] = NoStream
      /\ \A p \in Queues : p # q => at'[p] = at[p] /\ call'[p] = call[p]
      /\ \A t \in Streams \ {s} : \A p \in Queues :
           (call'[p] = t <=> call[p] = t) /\ (call[p] = t => at'[p] = at[p])
  <2>1. "next" \in Places /\ call[q] \in {s, NoStream} /\ NoStream \in {s, NoStream}
        /\ ("next" = "next" <=> NoStream = NoStream)
    BY <1>2 DEF Places
  <2> QED
    BY <1>1, <1>2, <2>1, Going
<1>7. TypeInv'
  BY <1>1, <1>2, <1>4, <1>6 DEF TypeInv, TypeOK, heard, wire, guiVars
<1>8. PlacesInv'
  BY <1>2, <1>3, <1>6 DEF PlacesInv, Queues
<1>9. ASSUME NEW t \in Streams, t # s
      PROVE  StreamInv(t)'
  <2>1. StreamInv(t)
    BY DEF IInv
  <2> QED
    BY <1>1, <1>4, <1>5, <1>6, <1>9, <2>1, SameStream DEF wire, guiVars, heard
<1>10. StreamInv(s)'
  <2>1. (Started(s)' <=> Started(s)) /\ (Up(s)' <=> Up(s)) /\ Started(s)
    BY <1>1, <1>2, <1>3, <1>6 DEF StreamInv, FreshInv, Started, Starting, In, Up, wire, Queues
  <2>2. FreshInv(s)'
    BY <2>1 DEF FreshInv
  <2>3. AcceptInv(s)'
    BY <1>1, <1>2, <1>3, <1>5, <1>6, <2>1 DEF StreamInv, AcceptInv, In, Queues, Kinds, wire
  <2>4. SpokeInv(s)'
    BY <1>1, <1>2, <1>3, <1>5, <1>6, <2>1 DEF StreamInv, SpokeInv, In, Queues, Kinds, wire
  <2>5. FailInv(s)'
    BY <1>1, <1>2, <1>3, <1>5, <1>6 DEF StreamInv, FailInv, In, Queues, Kinds, wire
  <2>6. ReadInv(s)'
    BY <1>1, <1>2, <1>3, <1>5, <1>6 DEF StreamInv, ReadInv, Reading, In, Queues, Kinds, wire
  <2>7. WriteInv(s)'
    BY <1>1, <1>2, <1>3, <1>5, <1>6 DEF StreamInv, WriteInv, Given, Alarmed, Fired, Writing,
         OnTheWire, Done, Ending, In, Queues, Kinds, wire, guiVars
  <2>20. EarlyInv(s)'
    BY <1>1, <1>2, <1>3, <1>5, <1>6, <2>1 DEF StreamInv, EarlyInv, ReadInv, Again, Reading, Up,
         In, Queues, Kinds, objects, wire, heard
  <2> QED
    BY <2>2, <2>3, <2>4, <2>5, <2>6, <2>7, <2>20 DEF StreamInv
<1>11. \A n \in Keys : EntryInv(n)'
  <2>1. \A t \in Streams, p \in Queues : /\ In(p, t, "setDone")' => In(p, t, "setDone")
                                         /\ In(p, t, "delete")' => In(p, t, "delete")
    BY <1>6 DEF In
  <2> QED
    BY <1>1, <1>2, <2>1, SameEntries DEF IInv, TypeInv, TypeOK, wire
<1>12. TargetInv' /\ SendInv' /\ FaultInv'
  BY <1>1 DEF IInv, TargetInv, SendInv, FaultInv, wire, guiVars
<1>13. CountInv'
  BY <1>1, <1>2, SameCount DEF CountInv, OkReads, AllConnected, wire
<1> QED
  BY <1>7, <1>8, <1>9, <1>10, <1>11, <1>12, <1>13 DEF IInv

LEMMA ReadAgainKeeps ==
  ASSUME IInv, NEW q \in Queues, NEW s \in Streams, ReadAgain(q, s)
  PROVE  IInv'
<1>1. /\ At(q, s, "readAgain") /\ StartRead(s) /\ Goto(q, NoStream, "next")
      /\ UNCHANGED <<objects, link, peer, writes, alarms, heard, activeNotifs, guiVars, fate>>
  BY DEF ReadAgain, Return
<1>2. /\ TypeInv /\ PlacesInv /\ CountInv /\ StreamInv(s) /\ FaultInv
      /\ fault = "none" /\ at[q] = "readAgain" /\ call[q] = s /\ life[s] = "live" /\ s # NoStream
  BY <1>1, OnIt
<1>3. q = "cq"
  BY <1>2 DEF PlacesInv, Queues
<1>4. /\ Started(s) /\ link[s] # "idle" /\ s \notin reads
  BY <1>2, <1>3 DEF StreamInv, FreshInv, AcceptInv, ReadInv, In
<1>5. /\ TagsTyped(tags') /\ reads' \subseteq Streams /\ fault' = "none"
      /\ OkReads' = OkReads /\ IsFiniteSet(tags'["cq"])
      /\ s \in reads' <=> link[s] = "open"
      /\ \A t \in Streams \ {s} : t \in reads' <=> t \in reads
      /\ \A p \in Queues, t \in Streams, l \in Kinds :
           /\ Waits(p, t, l)' <=> Waits(p, t, l)
           /\ Fails(p, t, l)' <=>
                Fails(p, t, l) \/ (p = "cq" /\ t = s /\ l = "READ" /\ link[s] = "closed")
  BY <1>1, <1>2, <1>4, ReadStarts
<1>6. /\ at' \in [Queues -> Places] /\ call' \in [Queues -> Streams \cup {NoStream}]
      /\ \A p \in Queues : call'[p] = NoStream <=> at'[p] = "next"
      /\ at'[q] = "next" /\ call'[q] = NoStream
      /\ \A p \in Queues : p # q => at'[p] = at[p] /\ call'[p] = call[p]
      /\ \A t \in Streams \ {s} : \A p \in Queues :
           (call'[p] = t <=> call[p] = t) /\ (call[p] = t => at'[p] = at[p])
  <2>1. "next" \in Places /\ call[q] \in {s, NoStream} /\ NoStream \in {s, NoStream}
        /\ ("next" = "next" <=> NoStream = NoStream)
    BY <1>2 DEF Places
  <2> QED
    BY <1>1, <1>2, <2>1, Going
<1>7. TypeInv'
  BY <1>1, <1>2, <1>5, <1>6, TypeWithTags DEF TypeInv, TypeOK, heard, objects, guiVars, Faults
<1>8. PlacesInv'
  BY <1>2, <1>3, <1>6 DEF PlacesInv, Queues
<1>9. ASSUME NEW t \in Streams, t # s
      PROVE  StreamInv(t)'
  <2>1. StreamInv(t)
    BY DEF IInv
  <2> QED
    BY <1>1, <1>5, <1>6, <1>9, <2>1, SameStream DEF objects, guiVars, heard
<1>10. StreamInv(s)'
  <2>1. /\ Started(s)' /\ (Up(s)' <=> Up(s))
        /\ ~In("notify", s, "firstRead")'
    BY <1>1, <1>2, <1>3, <1>4, <1>6 DEF StreamInv, ReadInv, Started, Starting, In, objects, Up, Queues
  <2>2. FreshInv(s)'
    BY <2>1 DEF FreshInv
  <2>3. AcceptInv(s)'
    BY <1>1, <1>2, <1>3, <1>4, <1>5, <1>6 DEF StreamInv, AcceptInv, In, Queues, Kinds, objects
  <2>4. SpokeInv(s)'
    BY <1>1, <1>2, <1>3, <1>5, <1>6, <2>1 DEF StreamInv, SpokeInv, In, Queues, Kinds
  <2>5. FailInv(s)'
    BY <1>1, <1>2, <1>3, <1>5, <1>6 DEF StreamInv, FailInv, In, Queues, Kinds, objects
  <2>6. ReadInv(s)'
    BY <1>2, <1>3, <1>5, <1>6, <2>1 DEF StreamInv, ReadInv, Reading, In, Queues, Kinds
  <2>7. WriteInv(s)'
    BY <1>1, <1>2, <1>3, <1>5, <1>6 DEF StreamInv, WriteInv, Given, Alarmed, Fired, Writing,
         OnTheWire, Done, Ending, In, Queues, Kinds, objects, guiVars
  <2>20. EarlyInv(s)'
    BY <1>1, <1>2, <1>3, <1>5, <1>6, <2>1 DEF StreamInv, EarlyInv, ReadInv, Again, Reading, Up,
         In, Queues, Kinds, objects, wire, heard
  <2> QED
    BY <2>2, <2>3, <2>4, <2>5, <2>6, <2>7, <2>20 DEF StreamInv
<1>11. \A n \in Keys : EntryInv(n)'
  <2>1. \A t \in Streams, p \in Queues : /\ In(p, t, "setDone")' => In(p, t, "setDone")
                                         /\ In(p, t, "delete")' => In(p, t, "delete")
    BY <1>6 DEF In
  <2> QED
    BY <1>1, <1>2, <2>1, SameEntries DEF IInv, TypeInv, TypeOK, objects
<1>12. TargetInv' /\ SendInv' /\ FaultInv'
  BY <1>1, <1>5 DEF IInv, TargetInv, SendInv, FaultInv, objects, guiVars
<1>13. CountInv'
  BY <1>1, <1>2, <1>5, SameCount DEF AllConnected
<1> QED
  BY <1>7, <1>8, <1>9, <1>10, <1>11, <1>12, <1>13 DEF IInv

LEMMA UnregisterKeeps ==
  ASSUME IInv, NEW q \in Queues, NEW s \in Streams, Unregister(q, s)
  PROVE  IInv'
<1>1. /\ At(q, s, "unregister") /\ LockFree /\ Goto(q, s, "setDone")
      /\ activeNotifs' = IF activeNotifs[peer[s]] = s
                         THEN [activeNotifs EXCEPT ![peer[s]] = NoStream]
                         ELSE activeNotifs
      /\ UNCHANGED <<objects, wire, tags, guiVars, fate, fault>>
  BY DEF Unregister, OwnsEntry
<1>2. /\ TypeInv /\ PlacesInv /\ CountInv /\ StreamInv(s) /\ FaultInv
      /\ fault = "none" /\ at[q] = "unregister" /\ call[q] = s /\ life[s] = "live" /\ s # NoStream
  BY <1>1, OnIt
<1>3. q = "cq"
  BY <1>2 DEF PlacesInv, Queues
<1>4. /\ activeNotifs' \in [Keys -> Streams \cup {NoStream}]
      /\ \A k \in Keys : activeNotifs'[k] # NoStream => activeNotifs'[k] = activeNotifs[k]
      /\ \A k \in Keys : activeNotifs'[k] # s
  <2>1. activeNotifs \in [Keys -> Streams \cup {NoStream}] /\ peer[s] \in Keys
    BY <1>2 DEF TypeInv, TypeOK
  <2>2. \A k \in Keys : activeNotifs[k] = s => k = peer[s]
    BY <1>2 DEF IInv, EntryInv
  <2> QED
    BY <1>1, <1>2, <2>1, <2>2
<1>5. \A p \in Queues, t \in Streams, l \in Kinds :
         (Waits(p, t, l)' <=> Waits(p, t, l)) /\ (Fails(p, t, l)' <=> Fails(p, t, l))
  BY <1>1 DEF Waits, Fails
<1>6. /\ at' \in [Queues -> Places] /\ call' \in [Queues -> Streams \cup {NoStream}]
      /\ \A p \in Queues : call'[p] = NoStream <=> at'[p] = "next"
      /\ at'[q] = "setDone" /\ call'[q] = s
      /\ \A p \in Queues : p # q => at'[p] = at[p] /\ call'[p] = call[p]
      /\ \A t \in Streams \ {s} : \A p \in Queues :
           (call'[p] = t <=> call[p] = t) /\ (call[p] = t => at'[p] = at[p])
  <2>1. "setDone" \in Places /\ call[q] \in {s, NoStream} /\ s \in {s, NoStream}
        /\ ("setDone" = "next" <=> s = NoStream)
    BY <1>2 DEF Places
  <2> QED
    BY <1>1, <1>2, <2>1, Going
<1>7. TypeInv'
  BY <1>1, <1>2, <1>4, <1>6 DEF TypeInv, TypeOK, heard, wire, guiVars, objects
<1>8. PlacesInv'
  BY <1>2, <1>3, <1>6 DEF PlacesInv, Queues
<1>9. ASSUME NEW t \in Streams, t # s
      PROVE  StreamInv(t)'
  <2>1. StreamInv(t) /\ \A k \in Keys : activeNotifs'[k] = t => activeNotifs[k] = t
    BY <1>4, StreamsAssumption DEF IInv
  <2> QED
    BY <1>1, <1>5, <1>6, <1>9, <2>1, SameStream DEF wire, guiVars, objects, heard
<1>10. StreamInv(s)'
  <2>1. (Started(s)' <=> Started(s)) /\ (Up(s)' <=> Up(s)) /\ Started(s)
    BY <1>1, <1>2, <1>3, <1>6 DEF StreamInv, FreshInv, Started, Starting, In, Up, wire, objects, Queues
  <2>2. FreshInv(s)'
    BY <2>1 DEF FreshInv
  <2>3. AcceptInv(s)'
    BY <1>1, <1>2, <1>3, <1>5, <1>6, <2>1 DEF StreamInv, AcceptInv, In, Queues, Kinds, wire, objects
  <2>4. SpokeInv(s)'
    BY <1>1, <1>2, <1>3, <1>5, <1>6, <2>1 DEF StreamInv, SpokeInv, In, Queues, Kinds, wire
  <2>5. FailInv(s)'
    BY <1>1, <1>2, <1>3, <1>5, <1>6 DEF StreamInv, FailInv, In, Queues, Kinds, wire, objects
  <2>6. ReadInv(s)'
    BY <1>1, <1>2, <1>3, <1>5, <1>6 DEF StreamInv, ReadInv, Reading, In, Queues, Kinds, wire
  <2>7. WriteInv(s)'
    BY <1>1, <1>2, <1>3, <1>5, <1>6 DEF StreamInv, WriteInv, Given, Alarmed, Fired, Writing,
         OnTheWire, Done, Ending, In, Queues, Kinds, wire, guiVars, objects
  <2>20. EarlyInv(s)'
    BY <1>1, <1>2, <1>3, <1>5, <1>6, <2>1 DEF StreamInv, EarlyInv, ReadInv, Again, Reading, Up,
         In, Queues, Kinds, objects, wire, heard
  <2> QED
    BY <2>2, <2>3, <2>4, <2>5, <2>6, <2>7, <2>20 DEF StreamInv
<1>11. ASSUME NEW k \in Keys, activeNotifs'[k] # NoStream
       PROVE  EntryInv(k)'
  <2>1. PICK t \in Streams : activeNotifs'[k] = t
    BY <1>4, <1>11
  <2>2. t # s /\ activeNotifs[k] = t /\ EntryInv(k) /\ t # NoStream
    BY <1>4, <1>11, <2>1 DEF IInv
  <2>3. peer'[t] = k /\ life'[t] = "live" /\ state'[t] # "DONE"
    BY <1>1, <2>2 DEF EntryInv, wire, objects
  <2>4. \A p \in Queues : ~In(p, t, "setDone")' /\ ~In(p, t, "delete")'
    BY <1>6, <2>2 DEF EntryInv, In
  <2> QED
    BY <2>1, <2>3, <2>4 DEF EntryInv
<1>12. \A k \in Keys : EntryInv(k)'
  BY <1>11 DEF EntryInv
<1>13. TargetInv' /\ SendInv' /\ FaultInv'
  BY <1>1 DEF IInv, LockFree, TargetInv, SendInv, FaultInv, wire, guiVars, objects
<1>14. CountInv'
  BY <1>1, <1>2, SameCount DEF CountInv, OkReads, AllConnected, wire
<1> QED
  BY <1>7, <1>8, <1>9, <1>10, <1>12, <1>13, <1>14 DEF IInv

LEMMA SetDoneKeeps ==
  ASSUME IInv, NEW q \in Queues, NEW s \in Streams, SetDone(q, s)
  PROVE  IInv'
<1>1. /\ At(q, s, "setDone") /\ state' = [state EXCEPT ![s] = "DONE"]
      /\ Goto(q, s, "delete")
      /\ UNCHANGED <<life, writePending, pendingNotif, wire, tags, activeNotifs, guiVars, fate, fault>>
  BY DEF SetDone
<1>2. /\ TypeInv /\ PlacesInv /\ CountInv /\ StreamInv(s) /\ FaultInv
      /\ fault = "none" /\ at[q] = "setDone" /\ call[q] = s /\ life[s] = "live" /\ s # NoStream
  BY <1>1, OnIt
<1>3. q = "cq"
  BY <1>2 DEF PlacesInv, Queues
<1>4. /\ state' \in [Streams -> {"CREATE", "CONNECTED", "ACTIVE", "DONE"}]
      /\ \A t \in Streams : state'[t] = IF t = s THEN "DONE" ELSE state[t]
  BY <1>1, <1>2 DEF TypeInv, TypeOK
<1>5. \A p \in Queues, t \in Streams, l \in Kinds :
         (Waits(p, t, l)' <=> Waits(p, t, l)) /\ (Fails(p, t, l)' <=> Fails(p, t, l))
  BY <1>1 DEF Waits, Fails
<1>6. /\ at' \in [Queues -> Places] /\ call' \in [Queues -> Streams \cup {NoStream}]
      /\ \A p \in Queues : call'[p] = NoStream <=> at'[p] = "next"
      /\ at'[q] = "delete" /\ call'[q] = s
      /\ \A p \in Queues : p # q => at'[p] = at[p] /\ call'[p] = call[p]
      /\ \A t \in Streams \ {s} : \A p \in Queues :
           (call'[p] = t <=> call[p] = t) /\ (call[p] = t => at'[p] = at[p])
  <2>1. "delete" \in Places /\ call[q] \in {s, NoStream} /\ s \in {s, NoStream}
        /\ ("delete" = "next" <=> s = NoStream)
    BY <1>2 DEF Places
  <2> QED
    BY <1>1, <1>2, <2>1, Going
<1>7. TypeInv'
  BY <1>1, <1>2, <1>4, <1>6 DEF TypeInv, TypeOK, heard, wire, guiVars
<1>8. PlacesInv'
  BY <1>2, <1>3, <1>6 DEF PlacesInv, Queues
<1>9. ASSUME NEW t \in Streams, t # s
      PROVE  StreamInv(t)'
  <2>1. StreamInv(t)
    BY DEF IInv
  <2> QED
    BY <1>1, <1>4, <1>5, <1>6, <1>9, <2>1, SameStream DEF wire, guiVars, heard
<1>10. Started(s) /\ link[s] = "closed" /\ ~In("notify", s, "firstRead")
  BY <1>2, <1>3 DEF StreamInv, FreshInv, FailInv, ReadInv, In
<1>11. StreamInv(s)'
  <2>1. Started(s)' /\ Up(s)' /\ state'[s] = "DONE"
    BY <1>4 DEF Started, Up
  <2>2. FreshInv(s)' /\ SpokeInv(s)'
    BY <2>1 DEF FreshInv, SpokeInv
  <2>3. AcceptInv(s)'
    <3>1. ~Waits("notify", s, "ACCEPT") /\ ~In("notify", s, "register")
      BY <1>2, <1>3, <1>10 DEF StreamInv, AcceptInv, FreshInv, In, Started, Starting
    <3> QED
      BY <1>1, <1>2, <1>3, <1>5, <1>6, <1>10, <2>1, <3>1 DEF StreamInv, AcceptInv, In, Queues, Kinds, wire
  <2>5. FailInv(s)'
    BY <1>1, <1>10 DEF FailInv, wire
  <2>6. ReadInv(s)'
    BY <1>1, <1>2, <1>3, <1>5, <1>6, <1>10 DEF StreamInv, ReadInv, Reading, In, Queues, Kinds, wire
  <2>7. WriteInv(s)'
    BY <1>1, <1>2, <1>3, <1>5, <1>6 DEF StreamInv, WriteInv, Given, Alarmed, Fired, Writing,
         OnTheWire, Done, Ending, In, Queues, Kinds, wire, guiVars
  <2>20. EarlyInv(s)'
    BY <1>1, <1>2, <1>3, <1>5, <1>6, <1>10, <2>1 DEF StreamInv, EarlyInv, ReadInv, Again, Reading, Up,
         In, Queues, Kinds, objects, wire, heard
  <2> QED
    BY <2>2, <2>3, <2>5, <2>6, <2>7, <2>20 DEF StreamInv
<1>12. \A n \in Keys : EntryInv(n)'
  <2>1. \A n \in Keys : activeNotifs[n] # s
    BY <1>2 DEF IInv, EntryInv, In
  <2>2. \A t \in Streams \ {s} : \A p \in Queues :
           /\ In(p, t, "setDone")' => In(p, t, "setDone")
           /\ In(p, t, "delete")' => In(p, t, "delete")
    BY <1>6 DEF In
  <2>3. \A t \in Streams \ {s} : state'[t] = state[t]
    BY <1>4
  <2> QED
    BY <1>1, <1>2, <2>1, <2>2, <2>3, SameEntries DEF IInv, TypeInv, TypeOK, wire
<1>13. TargetInv' /\ SendInv' /\ FaultInv'
  BY <1>1 DEF IInv, TargetInv, SendInv, FaultInv, wire, guiVars
<1>14. CountInv'
  BY <1>1, <1>2, SameCount DEF CountInv, OkReads, AllConnected, wire
<1> QED
  BY <1>7, <1>8, <1>9, <1>11, <1>12, <1>13, <1>14 DEF IInv

LEMMA DeleteKeeps ==
  ASSUME IInv, NEW q \in Queues, NEW s \in Streams, Delete(q, s)
  PROVE  IInv'
<1>1. /\ At(q, s, "delete") /\ life' = [life EXCEPT ![s] = "freed"] /\ alarms' = alarms \ {s}
      /\ IF s \in alarms THEN Deliver("notify", s, "ALARM", FALSE) ELSE UNCHANGED tags
      /\ Goto(q, NoStream, "next")
      /\ UNCHANGED <<state, writePending, pendingNotif, link, peer, reads, writes, heard,
                     activeNotifs, guiVars, fate, fault>>
  BY DEF Delete, Return
<1>2. /\ TypeInv /\ PlacesInv /\ CountInv /\ StreamInv(s) /\ FaultInv
      /\ fault = "none" /\ at[q] = "delete" /\ call[q] = s /\ life[s] = "live" /\ s # NoStream
  BY <1>1, OnIt
<1>3. Started(s) /\ link[s] = "closed"
  BY <1>2 DEF StreamInv, FreshInv, FailInv, In, Queues
<1>4. /\ life' \in [Streams -> {"none", "live", "freed"}]
      /\ \A t \in Streams : life'[t] = IF t = s THEN "freed" ELSE life[t]
  BY <1>1, <1>2 DEF TypeInv, TypeOK
<1>5. /\ TagsTyped(tags') /\ tags'["cq"] = tags["cq"]
      /\ \A p \in Queues, t \in Streams, l \in Kinds :
           /\ Waits(p, t, l)' <=> Waits(p, t, l)
           /\ Fails(p, t, l)' <=>
                Fails(p, t, l) \/ (p = "notify" /\ t = s /\ l = "ALARM" /\ s \in alarms)
  <2>1. CASE s \in alarms
    <3>1. /\ TagsTyped(tags) /\ "notify" \in Queues /\ "cq" \in Queues /\ "cq" # "notify"
          /\ "ALARM" \in TagKinds["notify"]
      BY <1>2, TypeFacts, KindsOf
    <3>2. Deliver("notify", s, "ALARM", FALSE)
      BY <1>1, <2>1
    <3>3. /\ TagsTyped(tags') /\ tags'["cq"] = tags["cq"]
          /\ \A p \in Queues, t \in Streams, l \in Kinds :
               /\ Fails(p, t, l)' <=> Fails(p, t, l) \/ (p = "notify" /\ t = s /\ l = "ALARM")
               /\ Waits(p, t, l)' <=> Waits(p, t, l)
      BY <3>1, <3>2, Failed
    <3> QED
      BY <2>1, <3>3
  <2>2. CASE s \notin alarms
    BY <1>1, <1>2, <2>2, TypeFacts DEF Waits, Fails
  <2> QED
    BY <2>1, <2>2
<1>6. /\ at' \in [Queues -> Places] /\ call' \in [Queues -> Streams \cup {NoStream}]
      /\ \A p \in Queues : call'[p] = NoStream <=> at'[p] = "next"
      /\ at'[q] = "next" /\ call'[q] = NoStream
      /\ \A p \in Queues : p # q => at'[p] = at[p] /\ call'[p] = call[p]
      /\ \A t \in Streams \ {s} : \A p \in Queues :
           (call'[p] = t <=> call[p] = t) /\ (call[p] = t => at'[p] = at[p])
  <2>1. "next" \in Places /\ call[q] \in {s, NoStream} /\ NoStream \in {s, NoStream}
        /\ ("next" = "next" <=> NoStream = NoStream)
    BY <1>2 DEF Places
  <2> QED
    BY <1>1, <1>2, <2>1, Going
<1>7. TypeInv'
  BY <1>1, <1>2, <1>4, <1>5, <1>6, TypeWithTags DEF TypeInv, TypeOK, heard, guiVars
<1>8. PlacesInv'
  BY <1>2, <1>6 DEF PlacesInv, Queues
<1>9. ASSUME NEW t \in Streams, t # s
      PROVE  StreamInv(t)'
  <2>1. StreamInv(t) /\ (t \in alarms' <=> t \in alarms)
    BY <1>1, <1>9 DEF IInv
  <2> QED
    BY <1>1, <1>4, <1>5, <1>6, <1>9, <2>1, SameStream DEF guiVars, heard
<1>10. StreamInv(s)'
  <2>1. (Started(s)' <=> Started(s)) /\ (Up(s)' <=> Up(s))
    BY <1>1, <1>2, <1>6 DEF Started, Starting, In, Up, Queues
  <2>2. FreshInv(s)'
    BY <1>3, <2>1 DEF FreshInv
  <2>3. AcceptInv(s)'
    BY <1>1, <1>2, <1>3, <1>4, <1>5, <1>6, <2>1 DEF StreamInv, AcceptInv, In, Queues, Kinds
  <2>4. SpokeInv(s)'
    BY <1>1, <1>2, <1>3, <1>5, <1>6, <2>1 DEF StreamInv, SpokeInv, In, Queues, Kinds
  <2>5. FailInv(s)'
    BY <1>1, <1>3 DEF FailInv
  <2>6. ReadInv(s)'
    BY <1>1, <1>2, <1>3, <1>5, <1>6 DEF StreamInv, ReadInv, Reading, In, Queues, Kinds
  <2>7. WriteInv(s)'
    BY <1>1, <1>2, <1>3, <1>5, <1>6 DEF StreamInv, WriteInv, Given, Alarmed, Fired, Writing,
         OnTheWire, Done, Ending, In, Queues, Kinds, guiVars
  <2>20. EarlyInv(s)'
    BY <1>1, <1>2, <1>3, <1>5, <1>6, <2>1 DEF StreamInv, EarlyInv, ReadInv, Again, Reading, Up,
         In, Queues, Kinds, objects, wire, heard
  <2> QED
    BY <2>2, <2>3, <2>4, <2>5, <2>6, <2>7, <2>20 DEF StreamInv
<1>11. \A n \in Keys : EntryInv(n)'
  <2>1. \A n \in Keys : activeNotifs[n] # s
    BY <1>2 DEF IInv, EntryInv, In
  <2>2. \A t \in Streams, p \in Queues : /\ In(p, t, "setDone")' => In(p, t, "setDone")
                                         /\ In(p, t, "delete")' => In(p, t, "delete")
    BY <1>6 DEF In
  <2>3. \A t \in Streams \ {s} : life'[t] = life[t]
    BY <1>4
  <2> QED
    BY <1>1, <1>2, <2>1, <2>2, <2>3, SameEntries DEF IInv, TypeInv, TypeOK
<1>12. TargetInv' /\ SendInv' /\ FaultInv'
  BY <1>1, <1>2 DEF IInv, TargetInv, SendInv, FaultInv, guiVars
<1>13. CountInv'
  BY <1>1, <1>2, <1>5, SameCount DEF CountInv, OkReads, AllConnected
<1> QED
  BY <1>7, <1>8, <1>9, <1>10, <1>11, <1>12, <1>13 DEF IInv

LEMMA ThreadFaultsKeeps ==
  ASSUME IInv, NEW q \in Queues, ThreadFaults(q)
  PROVE  IInv'
<1>1. /\ fault' \in {"alarmOnFreed", "useAfterFree", "doubleDelete"}
      /\ UNCHANGED <<objects, wire, tags, at, call, activeNotifs, guiVars, fate>>
  BY DEF ThreadFaults
<1>2. TypeInv /\ CountInv
  BY DEF IInv
<1>3. \E s \in Streams : life[s] = "freed"
  <2>1. ASSUME NEW m \in tags[q], life[m.call] = "freed"
        PROVE  \E s \in Streams : life[s] = "freed"
    <3>1. m.call \in Streams
      BY <1>2, <2>1 DEF TypeInv, TypeOK
    <3> QED
      BY <2>1, <3>1
  <2>2. ASSUME at[q] # "next", life[call[q]] = "freed"
        PROVE  \E s \in Streams : life[s] = "freed"
    BY <1>2, <2>2, TypeFacts
  <2> QED
    BY <2>1, <2>2 DEF ThreadFaults
<1>4. TypeInv' /\ PlacesInv' /\ FaultInv' /\ TargetInv' /\ SendInv'
  BY <1>1, <1>3 DEF IInv, TypeInv, TypeOK, heard, Faults, PlacesInv, FaultInv, TargetInv, SendInv,
       objects, wire, guiVars
<1>5. ASSUME NEW t \in Streams
      PROVE  StreamInv(t)'
  <2>1. StreamInv(t)
    BY DEF IInv
  <2> QED
    BY <1>1, <2>1, SameStream DEF objects, wire, guiVars, Waits, Fails, heard
<1>6. \A n \in Keys : EntryInv(n)'
  BY <1>1, <1>2, SameEntries DEF IInv, TypeInv, TypeOK, In, objects, wire
<1>7. CountInv'
  BY <1>1, <1>2, SameCount DEF CountInv, OkReads, AllConnected, wire
<1> QED
  BY <1>4, <1>5, <1>6, <1>7 DEF IInv

\* What the GUI finds in the registry is alive.
LEMMA SentToLive ==
  ASSUME IInv, NEW k \in Keys, NEW s, s = activeNotifs[k], s # NoStream
  PROVE  /\ s \in Streams /\ peer[s] = k /\ life[s] = "live" /\ Started(s)
         /\ SendFault(s) = fault /\ StreamInv(s)
<1>1. s \in Streams
  BY DEF IInv, TypeInv, TypeOK
<1>2. peer[s] = k /\ life[s] = "live"
  BY DEF IInv, EntryInv
<1>3. StreamInv(s)
  BY <1>1 DEF IInv
<1>4. Started(s)
  BY <1>3 DEF StreamInv, FreshInv
<1> QED
  BY <1>1, <1>2, <1>3, <1>4 DEF SendFault

LEMMA BeginSendKeeps ==
  ASSUME IInv, BeginSend
  PROVE  IInv'
<1>1. /\ todo = {} /\ target = NoStream /\ sends < MaxSends /\ sends' = sends + 1
      /\ todo' \in SUBSET Keys
      /\ UNCHANGED <<objects, wire, tags, at, call, activeNotifs, target, fate, fault>>
  BY DEF BeginSend, LockFree
<1>2. TypeInv /\ CountInv /\ SendInv
  BY DEF IInv
<1>3. sends \in Nat /\ sends' \in 0 .. MaxSends /\ sends' # 0
  BY <1>1, <1>2, LimitsAssumption DEF TypeInv, TypeOK
<1>4. TypeInv'
  BY <1>1, <1>2, <1>3 DEF TypeInv, TypeOK, heard, objects, wire
<1>5. SendInv'
  BY <1>3 DEF SendInv
<1>6. PlacesInv' /\ TargetInv' /\ FaultInv'
  BY <1>1 DEF IInv, PlacesInv, TargetInv, FaultInv, objects, wire
<1>7. ASSUME NEW t \in Streams
      PROVE  StreamInv(t)'
  <2>1. StreamInv(t)
    BY DEF IInv
  <2> QED
    BY <1>1, <2>1, SameStream DEF objects, wire, Waits, Fails, heard
<1>8. \A n \in Keys : EntryInv(n)'
  BY <1>1, <1>2, SameEntries DEF IInv, TypeInv, TypeOK, In, objects, wire
<1>9. CountInv'
  BY <1>1, <1>2, SameCount DEF CountInv, OkReads, AllConnected, wire
<1> QED
  BY <1>4, <1>5, <1>6, <1>7, <1>8, <1>9 DEF IInv

LEMMA SetAlarmKeeps ==
  ASSUME IInv, SetAlarm
  PROVE  IInv'
<1>1. /\ target # NoStream /\ fault' = SendFault(target)
      /\ IF target \in alarms THEN Deliver("notify", target, "ALARM", FALSE) ELSE UNCHANGED tags
      /\ alarms' = alarms \cup {target} /\ target' = NoStream
      /\ UNCHANGED <<objects, link, peer, reads, writes, heard, at, call, activeNotifs,
                     todo, sends, fate>>
  BY DEF SetAlarm
<1>2. TypeInv /\ CountInv
  BY DEF IInv
<1>3. PICK s \in Streams : s = target
  BY <1>1, <1>2 DEF TypeInv, TypeOK
<1>4. /\ s # NoStream /\ Started(s) /\ SendFault(s) = fault /\ StreamInv(s)
  <2>1. peer[s] \in Keys /\ s = activeNotifs[peer[s]]
    BY <1>1, <1>2, <1>3 DEF IInv, TargetInv, TypeInv, TypeOK
  <2> QED
    BY <1>1, <1>3, <2>1, SentToLive
<1>5. s \notin alarms /\ tags' = tags /\ fault' = fault
  <2>1. s \notin alarms
    BY <1>3, <1>4 DEF StreamInv, WriteInv, Given, Alarmed
  <2> QED
    BY <1>1, <1>3, <1>4, <2>1
<1>6. \A p \in Queues, t \in Streams, l \in Kinds :
         (Waits(p, t, l)' <=> Waits(p, t, l)) /\ (Fails(p, t, l)' <=> Fails(p, t, l))
  BY <1>5 DEF Waits, Fails
<1>7. TypeInv'
  BY <1>1, <1>2, <1>3, <1>5 DEF TypeInv, TypeOK, heard, objects
<1>8. ASSUME NEW t \in Streams, t # s
      PROVE  StreamInv(t)'
  <2>1. StreamInv(t) /\ (t \in alarms' <=> t \in alarms) /\ (target' = t <=> target = t)
    BY <1>1, <1>3, <1>8, StreamsAssumption DEF IInv
  <2> QED
    BY <1>1, <1>6, <1>8, <2>1, SameStream DEF objects, heard
<1>9. StreamInv(s)'
  <2>1. Started(s)' /\ (Up(s)' <=> Up(s))
    BY <1>1, <1>4 DEF Started, Starting, Up, In, objects
  <2>2. FreshInv(s)'
    BY <2>1 DEF FreshInv
  <2>3. AcceptInv(s)'
    BY <1>1, <1>4, <1>6, <2>1 DEF StreamInv, AcceptInv, In, Queues, Kinds, objects
  <2>4. SpokeInv(s)'
    BY <1>1, <1>4, <1>6, <2>1 DEF StreamInv, SpokeInv, In, Queues, Kinds, objects
  <2>5. FailInv(s)'
    BY <1>1, <1>4, <1>6 DEF StreamInv, FailInv, In, Queues, Kinds, objects
  <2>6. ReadInv(s)'
    BY <1>1, <1>4, <1>6 DEF StreamInv, ReadInv, Reading, In, Queues, Kinds, objects
  <2>7. WriteInv(s)'
    <3>1. s # NoStream /\ target' # s /\ Given(s)
      BY <1>1, <1>3, <1>4 DEF Given
    <3>2. /\ writePending'[s] /\ pendingNotif'[s] # 0 /\ ~Given(s)'
          /\ ~(Fired(s) \/ Writing(s) \/ OnTheWire(s) \/ Done(s) \/ Ending(s))
          /\ ~(Waits("cq", s, "WRITE") /\ Fails("cq", s, "WRITE"))
      BY <1>1, <1>4, <3>1 DEF StreamInv, WriteInv, Given, objects
    <3>3. /\ (Fired(s)' <=> Fired(s)) /\ (Writing(s)' <=> Writing(s))
          /\ (OnTheWire(s)' <=> OnTheWire(s)) /\ (Ending(s)' <=> Ending(s))
          /\ Done(s)' <=> Done(s)
          /\ Waits("cq", s, "WRITE")' <=> Waits("cq", s, "WRITE")
          /\ Fails("cq", s, "WRITE")' <=> Fails("cq", s, "WRITE")
      BY <1>1, <1>6 DEF Fired, Writing, OnTheWire, Done, Ending, In, Queues, Kinds
    <3> QED
      BY <3>2, <3>3 DEF WriteInv
  <2>20. EarlyInv(s)'
    BY <1>1, <1>4, <1>6, <2>1 DEF StreamInv, EarlyInv, ReadInv, Again, Reading, Up,
         In, Queues, Kinds, objects, wire, heard
  <2> QED
    BY <2>2, <2>3, <2>4, <2>5, <2>6, <2>7, <2>20 DEF StreamInv
<1>10. PlacesInv' /\ TargetInv' /\ SendInv' /\ FaultInv'
  BY <1>1, <1>5 DEF IInv, PlacesInv, TargetInv, SendInv, FaultInv, objects
<1>11. \A n \in Keys : EntryInv(n)'
  BY <1>1, <1>2, SameEntries DEF IInv, TypeInv, TypeOK, In, objects
<1>12. CountInv'
  BY <1>1, <1>2, <1>5, SameCount DEF CountInv, OkReads, AllConnected
<1> QED
  BY <1>7, <1>8, <1>9, <1>10, <1>11, <1>12 DEF IInv

LEMMA QueueKeeps ==
  ASSUME IInv, NEW k \in Keys, Queue(k)
  PROVE  IInv'
<1>0. PICK s \in Streams \cup {NoStream} : s = activeNotifs[k]
  BY DEF IInv, TypeInv, TypeOK
<1>1. /\ target = NoStream /\ k \in todo /\ todo' = todo \ {k} /\ fault' = SendFault(s)
      /\ UNCHANGED <<life, state, wire, tags, at, call, activeNotifs, sends>>
  BY <1>0 DEF Queue
<1>2. TypeInv /\ CountInv /\ SendInv
  BY DEF IInv
<1>3. sends \in 1 .. MaxSends /\ fault' = fault
  <2>1. s = NoStream => SendFault(s) = fault
    BY DEF SendFault
  <2>2. s # NoStream => SendFault(s) = fault
    BY <1>0, SentToLive
  <2> QED
    BY <1>1, <1>2, <2>1, <2>2, LimitsAssumption DEF TypeInv, TypeOK, SendInv
<1>4. PICK f \in {"noStream", "dropped", "pending"} :
        fate' = [fate EXCEPT ![sends][k] = f]
  BY DEF Queue
<1>5. fate' \in [1 .. MaxSends -> [Keys -> Fates]]
  BY <1>2, <1>3, <1>4 DEF TypeInv, TypeOK, Fates
<1>6. PlacesInv' /\ FaultInv'
  BY <1>1, <1>3 DEF IInv, PlacesInv, FaultInv
<1>7. CountInv'
  BY <1>1, <1>2, SameCount DEF CountInv, OkReads, AllConnected, wire
<1>8. \A n \in Keys : EntryInv(n)'
  BY <1>1, <1>2, SameEntries DEF IInv, TypeInv, TypeOK, In, wire
<1>9. \A p \in Queues, t \in Streams, l \in Kinds :
         (Waits(p, t, l)' <=> Waits(p, t, l)) /\ (Fails(p, t, l)' <=> Fails(p, t, l))
  BY <1>1 DEF Waits, Fails
<1>11. CASE UNCHANGED <<writePending, pendingNotif, target>>
  <2>1. TypeInv'
    BY <1>1, <1>2, <1>3, <1>5, <1>11 DEF TypeInv, TypeOK, heard, wire
  <2>2. ASSUME NEW t \in Streams
        PROVE  StreamInv(t)'
    <3>1. StreamInv(t)
      BY DEF IInv
    <3> QED
      BY <1>1, <1>9, <1>11, <3>1, SameStream DEF wire, heard
  <2>3. TargetInv' /\ SendInv'
    BY <1>1, <1>11 DEF IInv, TargetInv, SendInv, wire
  <2> QED
    BY <1>6, <1>7, <1>8, <2>1, <2>2, <2>3 DEF IInv
<1>12. CASE /\ s # NoStream /\ ~Busy(s)
            /\ writePending' = [writePending EXCEPT ![s] = TRUE]
            /\ pendingNotif' = [pendingNotif EXCEPT ![s] = sends]
            /\ target' = s
  <2>1. /\ s \in Streams /\ peer[s] = k /\ Started(s) /\ StreamInv(s) /\ ~writePending[s]
    BY <1>0, <1>12, SentToLive DEF Busy
  <2>2. /\ writePending' \in [Streams -> BOOLEAN] /\ writePending'[s]
        /\ pendingNotif' \in [Streams -> 0 .. MaxSends] /\ pendingNotif'[s] = sends
        /\ \A t \in Streams \ {s} :
             writePending'[t] = writePending[t] /\ pendingNotif'[t] = pendingNotif[t]
    BY <1>2, <1>3, <1>12, <2>1 DEF TypeInv, TypeOK
  <2>3. TypeInv'
    BY <1>1, <1>2, <1>3, <1>5, <1>12, <2>1, <2>2 DEF TypeInv, TypeOK, heard, wire
  <2>4. ASSUME NEW t \in Streams, t # s
        PROVE  StreamInv(t)'
    <3>1. /\ StreamInv(t) /\ (target' = t <=> target = t)
          /\ writePending'[t] = writePending[t] /\ pendingNotif'[t] = pendingNotif[t]
      BY <1>1, <1>12, <2>2, <2>4, StreamsAssumption DEF IInv
    <3> QED
      BY <1>1, <1>9, <3>1, SameStream DEF wire, heard
  <2>5. StreamInv(s)'
    <3>1. Started(s)' /\ (Up(s)' <=> Up(s))
      BY <1>1, <2>1 DEF Started, Starting, Up, In
    <3>3. FreshInv(s)'
      BY <3>1 DEF FreshInv
    <3>4. AcceptInv(s)'
      BY <1>1, <1>9, <2>1, <3>1 DEF StreamInv, AcceptInv, In, Queues, Kinds, wire
    <3>5. SpokeInv(s)'
      BY <1>1, <1>9, <2>1, <3>1 DEF StreamInv, SpokeInv, In, Queues, Kinds, wire
    <3>6. FailInv(s)'
      BY <1>1, <1>9, <2>1 DEF StreamInv, FailInv, In, Queues, Kinds, wire
    <3>7. ReadInv(s)'
      BY <1>1, <1>9, <2>1 DEF StreamInv, ReadInv, Reading, In, Queues, Kinds, wire
    <3>8. WriteInv(s)'
      <4>1. /\ ~(Alarmed(s) \/ Fired(s) \/ Writing(s) \/ OnTheWire(s) \/ Done(s) \/ Ending(s))
        BY <2>1 DEF StreamInv, WriteInv
      <4>2. /\ (Alarmed(s)' <=> Alarmed(s)) /\ (Fired(s)' <=> Fired(s))
            /\ (Writing(s)' <=> Writing(s)) /\ (OnTheWire(s)' <=> OnTheWire(s))
            /\ (Ending(s)' <=> Ending(s)) /\ (Done(s)' <=> Done(s))
        BY <1>1, <1>9, <2>1 DEF Alarmed, Fired, Writing, OnTheWire, Done, Ending, In, Queues, Kinds, wire
      <4>3. ~(Waits("cq", s, "WRITE")' /\ Fails("cq", s, "WRITE")')
        BY <4>1, <4>2 DEF Done
      <4>4. writePending'[s] /\ pendingNotif'[s] # 0
        BY <1>3, <2>2
      <4> QED
        BY <4>1, <4>2, <4>3, <4>4 DEF WriteInv
    <3>9. EarlyInv(s)'
      BY <1>1, <1>9, <2>1, <3>1 DEF StreamInv, EarlyInv, Again, Up, In, Queues, Kinds, wire, heard
    <3> QED
      BY <3>3, <3>4, <3>5, <3>6, <3>7, <3>8, <3>9 DEF StreamInv
  <2>6. TargetInv'
    BY <1>0, <1>1, <1>12, <2>1 DEF TargetInv, wire
  <2>7. SendInv'
    BY <1>1, <1>3 DEF SendInv
  <2> QED
    BY <1>6, <1>7, <1>8, <2>3, <2>4, <2>5, <2>6, <2>7 DEF IInv
<1> QED
  BY <1>0, <1>11, <1>12 DEF Queue
-----------------------------------------------------------------------------
(* The theorems.                                                            *)

LEMMA NextKeeps ==
  ASSUME IInv, [Next]_vars
  PROVE  IInv'
<1>1. CASE Daemon
  <2>1. PICK s \in Streams : (\E k \in Keys : Connect(s, k)) \/ Reply(s) \/ Disconnect(s)
    BY <1>1 DEF Daemon
  <2> QED
    BY <2>1, ConnectKeeps, ReplyKeeps, DisconnectKeeps
<1>2. CASE Grpc
  BY <1>2, WriteCompletesKeeps, AlarmFiresKeeps DEF Grpc
<1>3. ASSUME NEW q \in Queues, Thread(q)
      PROVE  IInv'
  <2>1. CASE \E m \in tags[q] : Take(q, m)
    BY <2>1, TakeKeeps
  <2>2. ASSUME NEW s \in Streams,
               \/ Register(q, s) \/ FirstRead(q, s) \/ SetActive(q, s)
               \/ OnAlarm(q, s) \/ StartWrite(q, s) \/ WriteDone(q, s) \/ ReadAgain(q, s)
               \/ Unregister(q, s) \/ SetDone(q, s) \/ Delete(q, s)
        PROVE  IInv'
    BY <2>2, RegisterKeeps, FirstReadKeeps, SetActiveKeeps, OnAlarmKeeps, StartWriteKeeps,
       WriteDoneKeeps, ReadAgainKeeps, UnregisterKeeps, SetDoneKeeps, DeleteKeeps
  <2>3. CASE ThreadFaults(q)
    BY <2>3, ThreadFaultsKeeps
  <2> QED
    BY <1>3, <2>1, <2>2, <2>3 DEF Thread
<1>4. CASE Gui
  BY <1>4, QueueKeeps, SetAlarmKeeps DEF Gui
<1>5. CASE BeginSend
  BY <1>5, BeginSendKeeps
<1>6. CASE UNCHANGED vars
  <2>1. UNCHANGED <<objects, wire, tags, at, call, activeNotifs, guiVars, fate, fault>>
    BY <1>6 DEF vars
  <2>2. TypeInv /\ CountInv
    BY DEF IInv
  <2>3. TypeInv' /\ PlacesInv' /\ FaultInv' /\ TargetInv' /\ SendInv'
    BY <2>1 DEF IInv, TypeInv, TypeOK, heard, PlacesInv, FaultInv, TargetInv, SendInv, objects, wire, guiVars
  <2>4. ASSUME NEW t \in Streams
        PROVE  StreamInv(t)'
    <3>1. StreamInv(t)
      BY DEF IInv
    <3> QED
      BY <2>1, <3>1, SameStream DEF objects, wire, guiVars, Waits, Fails, heard
  <2>5. \A n \in Keys : EntryInv(n)'
    BY <2>1, <2>2, SameEntries DEF IInv, TypeInv, TypeOK, In, objects, wire
  <2>6. CountInv'
    BY <2>1, <2>2, SameCount DEF CountInv, OkReads, AllConnected, wire
  <2> QED
    BY <2>3, <2>4, <2>5, <2>6 DEF IInv
<1> QED
  BY <1>1, <1>2, <1>3, <1>4, <1>5, <1>6 DEF Next

LEMMA Implied ==
  ASSUME IInv
  PROVE  Safe
<1>1. TypeOK /\ SendReachesLiveObject
  BY DEF IInv, TypeInv, FaultInv, SendReachesLiveObject
<1>2. RegistryIsLive
  BY DEF IInv, EntryInv, RegistryIsLive
<1>3. ConnectedNoFault
  <2>1. SUFFICES ASSUME AllConnected, fault # "none"
                 PROVE  FALSE
    BY DEF ConnectedNoFault
  <2>2. PICK s \in Streams : life[s] = "freed"
    BY <2>1 DEF IInv, FaultInv
  <2> QED
    BY <2>1, <2>2 DEF IInv, StreamInv, FailInv, AllConnected
<1>4. RepliesForwarded
  BY DEF IInv, CountInv, OkReads, RepliesForwarded
<1> QED
  BY <1>1, <1>2, <1>3, <1>4 DEF Safe

\* The invariant of every execution in which a daemon speaks only after it has been
\* spoken to: what state, tags, places of the threads and registry say of each other.
THEOREM Invariance ==
  Spec => []IInv
<1>1. Init => IInv
  BY InitKeeps
<1>2. IInv /\ [Next]_vars => IInv'
  BY NextKeeps
<1> QED
  BY <1>1, <1>2, PTL DEF Spec

\* The registry only ever leads the GUI to objects that are alive, no object is
\* deleted under the GUI's hands, and while the daemons stay connected nothing is
\* touched after it was freed, no second Read or Write is started, and every reply
\* is forwarded once (295-395, 533-582).
THEOREM StreamsSafe ==
  Spec => []Safe
<1>1. IInv => Safe
  BY Implied
<1> QED
  BY <1>1, Invariance, PTL

\* Tearing a stream down never takes the entry of a stream that is connected, be it
\* another one of the same daemon (572-582).
THEOREM ReconnectKept ==
  Spec => ReconnectKeepsStream
<1>1. ASSUME IInv, [Next]_vars,
             NEW k \in Keys, NEW s \in Streams, activeNotifs[k] = s, link[s] = "open"
      PROVE  activeNotifs'[k] # NoStream
  <2>1. CASE activeNotifs' = activeNotifs
    BY <1>1, <2>1, StreamsAssumption
  <2>2. ASSUME NEW q \in Queues, NEW t \in Streams, Register(q, t)
        PROVE  activeNotifs'[k] # NoStream
    BY <1>1, <2>2, StreamsAssumption DEF Register, IInv, TypeInv, TypeOK
  <2>3. ASSUME NEW q \in Queues, NEW t \in Streams, Unregister(q, t)
        PROVE  activeNotifs'[k] # NoStream
    <3>1. q = "cq" /\ In("cq", t, "unregister") /\ StreamInv(t)
      BY <1>1, <2>3 DEF Unregister, At, IInv, PlacesInv, Queues, In
    <3>2. t # s
      BY <1>1, <3>1 DEF StreamInv, FailInv
    <3> QED
      BY <1>1, <2>3, <3>2, StreamsAssumption DEF Unregister, OwnsEntry, IInv, TypeInv, TypeOK
  <2>4. CASE Daemon \/ Grpc \/ Gui \/ BeginSend \/ UNCHANGED vars
    BY <2>1, <2>4 DEF vars, Daemon, Grpc, Gui, Connect, Reply, Disconnect, WriteCompletes,
                      AlarmFires, Queue, SetAlarm, BeginSend
  <2>5. ASSUME NEW q \in Queues, Thread(q)
        PROVE  activeNotifs'[k] # NoStream
    <3>1. ASSUME NEW t \in Streams,
                 \/ FirstRead(q, t) \/ SetActive(q, t) \/ OnAlarm(q, t) \/ StartWrite(q, t)
                 \/ WriteDone(q, t) \/ ReadAgain(q, t) \/ SetDone(q, t) \/ Delete(q, t)
          PROVE  activeNotifs' = activeNotifs
      BY <3>1 DEF FirstRead, SetActive, OnAlarm, StartWrite, WriteDone, ReadAgain, SetDone, Delete
    <3>2. (\E m \in tags[q] : Take(q, m)) \/ ThreadFaults(q) => activeNotifs' = activeNotifs
      BY DEF Take, ThreadFaults
    <3> QED
      BY <2>1, <2>2, <2>3, <2>5, <3>1, <3>2 DEF Thread
  <2> QED
    BY <1>1, <2>4, <2>5 DEF Next
<1>2. IInv /\ [Next]_vars =>
        [\A k \in Keys : \A s \in Streams :
           activeNotifs[k] = s /\ link[s] = "open" => activeNotifs'[k] # NoStream]_vars
  BY <1>1
<1> QED
  BY <1>2, Invariance, PTL DEF Spec, ReconnectKeepsStream

-----------------------------------------------------------------------------
(***************************************************************************)
(* The rule dialog.                                                        *)
(***************************************************************************)


-----------------------------------------------------------------------------
(* Places in a sequence.                                                   *)

\* In a finite set of numbers each has its place, and each place its number.
LEMMA PlacesAreNumbers ==
  ASSUME NEW I \in SUBSET Nat, IsFiniteSet(I)
  PROVE  LET n == Cardinality(I)
             place(i) == Cardinality({j \in I : j < i})
         IN /\ n \in Nat
            /\ \A i \in I : place(i) \in Nat /\ place(i) < n
            /\ \A i, k \in I : place(i) = place(k) => i = k
            /\ \A p \in 0 .. n - 1 : \E i \in I : place(i) = p
<1> DEFINE n == Cardinality(I)
           below(i) == {j \in I : j < i}
           place == [i \in I |-> Cardinality(below(i))]
<1>1. n \in Nat
  BY FS_CardinalityType
<1>2. ASSUME NEW i \in I
      PROVE  IsFiniteSet(below(i)) /\ Cardinality(below(i)) \in Nat
  BY FS_Subset, FS_CardinalityType
<1>3. ASSUME NEW i \in I
      PROVE  place[i] \in 0 .. n - 1
  <2>1. below(i) \in SUBSET I /\ below(i) # I
    OBVIOUS
  <2>2. Cardinality(below(i)) <= n /\ Cardinality(below(i)) # n
    BY <2>1, FS_Subset
  <2> QED
    BY <1>1, <1>2, <2>2
<1>4. ASSUME NEW i \in I, NEW k \in I, i < k
      PROVE  place[i] < place[k]
  <2>1. i \in Nat /\ k \in Nat /\ \A j \in I : j \in Nat /\ (j < i => j < k)
    BY <1>4
  <2>2. ~ (i < i)
    BY <2>1
  <2>3. i \in below(k) /\ i \notin below(i)
    BY <1>4, <2>2
  <2>4. \A j \in below(i) : j \in below(k)
    BY <2>1
  <2>5. Cardinality(below(i)) <= Cardinality(below(k))
        /\ Cardinality(below(i)) # Cardinality(below(k))
    BY <1>2, <2>3, <2>4, FS_Subset
  <2>6. Cardinality(below(i)) \in Nat /\ Cardinality(below(k)) \in Nat
    BY <1>2
  <2>7. place[i] = Cardinality(below(i)) /\ place[k] = Cardinality(below(k))
    OBVIOUS
  <2> HIDE DEF below, place
  <2> QED
    BY <2>5, <2>6, <2>7
<1>5. ASSUME NEW i \in I, NEW k \in I, place[i] = place[k] PROVE i = k
  <2>1. place[i] \in Nat /\ place[k] \in Nat
    BY <1>1, <1>3
  <2> HIDE DEF place
  <2>2. ~ (i < k) /\ ~ (k < i)
    BY <1>4, <1>5, <2>1
  <2> QED
    BY <2>2
<1>6. place \in Injection(I, 0 .. n - 1)
  <2>1. place \in [I -> 0 .. n - 1]
    BY <1>3
  <2> QED
    BY <1>5, <2>1 DEF Injection, IsInjective
<1> HIDE DEF n, place
<1>7. place \in Surjection(I, 0 .. n - 1)
  <2>1. IsFiniteSet(0 .. n - 1) /\ Cardinality(0 .. n - 1) = n
    BY <1>1, FS_Interval
  <2> QED
    BY <1>6, <2>1, FS_Injection DEF n
<1>8. \A p \in 0 .. n - 1 : \E i \in I : place[i] = p
  BY <1>7 DEF Surjection
<1>9. \A i \in I : place[i] = Cardinality({j \in I : j < i})
  BY DEF place
<1>10. \A i \in I : place[i] \in Nat /\ place[i] < n
  BY <1>1, <1>3
<1> QED
  BY <1>1, <1>5, <1>8, <1>9, <1>10 DEF n

\* What is picked of a sequence is what it has of the set, each place once.
LEMMA PickedIsPart ==
  ASSUME NEW n \in Nat, NEW s, DOMAIN s = 1 .. n, NEW S
  PROVE  /\ Picked(s, S) \in Seq(S) /\ Len(Picked(s, S)) \in Nat
         /\ \A k \in 1 .. Len(Picked(s, S)) : \E i \in DOMAIN s : Picked(s, S)[k] = s[i]
         /\ \A i \in DOMAIN s :
              s[i] \in S => \E k \in 1 .. Len(Picked(s, S)) : Picked(s, S)[k] = s[i]
<1> DEFINE pos == {i \in DOMAIN s : s[i] \in S}
           m == Cardinality(pos)
           place(i) == Cardinality({j \in pos : j < i})
           by(k) == CHOOSE i \in pos : place(i) = k - 1
<1>1. pos \in SUBSET Nat /\ IsFiniteSet(pos)
  BY FS_Interval, FS_Subset
<1>2. /\ m \in Nat
      /\ \A i \in pos : place(i) \in Nat /\ place(i) < m
      /\ \A i, k \in pos : place(i) = place(k) => i = k
      /\ \A p \in 0 .. m - 1 : \E i \in pos : place(i) = p
  BY <1>1, PlacesAreNumbers
<1>3. Picked(s, S) = [k \in 1 .. m |-> s[by(k)]]
  BY DEF Picked
<1>4. \A i \in pos : s[i] \in S
  OBVIOUS
<1> HIDE DEF pos, m, place
<1>5. ASSUME NEW k \in 1 .. m PROVE by(k) \in pos /\ place(by(k)) = k - 1
  <2>1. k - 1 \in 0 .. m - 1
    BY <1>2
  <2>2. \E i \in pos : place(i) = k - 1
    BY <1>2, <2>1
  <2> QED
    BY <2>2
<1>6. ASSUME NEW i \in pos PROVE place(i) + 1 \in 1 .. m /\ by(place(i) + 1) = i
  <2>1. place(i) + 1 \in 1 .. m /\ (place(i) + 1) - 1 = place(i)
    BY <1>2
  <2>2. by(place(i) + 1) \in pos /\ place(by(place(i) + 1)) = place(i)
    BY <1>5, <2>1
  <2> QED
    BY <1>2, <2>1, <2>2
<1> HIDE DEF by
<1>7. Picked(s, S) \in [1 .. m -> S]
  BY <1>3, <1>4, <1>5
<1>8. Picked(s, S) \in Seq(S) /\ Len(Picked(s, S)) = m
  BY <1>2, <1>7
<1>9. \A k \in 1 .. m : by(k) \in pos /\ Picked(s, S)[k] = s[by(k)]
  BY <1>3, <1>5
<1>10. \A i \in pos : place(i) + 1 \in 1 .. m /\ Picked(s, S)[place(i) + 1] = s[i]
  BY <1>3, <1>6
<1>11. \A i \in pos : i \in DOMAIN s
  BY DEF pos
<1>12. \A i \in DOMAIN s : s[i] \in S => i \in pos
  BY DEF pos
<1> QED
  BY <1>2, <1>8, <1>9, <1>10, <1>11, <1>12

\* The first and the last of some numbers.
LEMMA LeastOf ==
  ASSUME NEW I \in SUBSET Nat, I # {}
  PROVE  Min(I) \in I /\ \A i \in I : Min(I) <= i
<1>1. PICK x \in I : \A y \in I : <<y, x>> \notin OpToRel(<, Nat)
  BY NatLessThanWellFounded, WFMin, Zenon
<1>2. \A y \in I : ~ (y < x)
  BY <1>1, Zenon DEF OpToRel
<1>3. \A y \in I : x <= y
  BY <1>2
<1> QED
  BY <1>3 DEF Min

LEMMA GreatestOf ==
  ASSUME NEW n \in Nat, NEW I \in SUBSET (1 .. n), I # {}
  PROVE  Max(I) \in I /\ \A i \in I : i <= Max(I)
<1> DEFINE J == {n - i : i \in I}
<1>1. J \in SUBSET Nat /\ J # {}
  <2>1. \A i \in I : n - i \in Nat
    OBVIOUS
  <2> QED
    BY <2>1
<1>2. Min(J) \in J /\ \A j \in J : Min(J) <= j
  BY <1>1, LeastOf
<1>3. PICK x \in I : Min(J) = n - x
  BY <1>2
<1>4. \A i \in I : n - x <= n - i
  BY <1>2, <1>3
<1>5. \A i \in I : x >= i
  BY <1>4
<1>6. Max(I) \in I /\ \A y \in I : Max(I) >= y
  BY <1>5 DEF Max
<1> QED
  BY <1>6

-----------------------------------------------------------------------------
(* From the form to a rule.                                                *)

LEMMA FieldsAre ==
  /\ DOMAIN FieldOrder = 1 .. 12 /\ Fields \subseteq Operands
  /\ \A field \in Fields : \E i \in 1 .. 12 : FieldOrder[i] = field
  /\ \A i \in 1 .. 12 : FieldOrder[i] \in Fields
  /\ Processes \subseteq Fields /\ "dest.ip" \in Fields \ (Processes \cup Lists)
<1>1. /\ FieldOrder[1] = "process.path" /\ FieldOrder[2] = "process.command"
      /\ FieldOrder[8] = "dest.ip"
  BY DEF FieldOrder
<1>2. DOMAIN FieldOrder = 1 .. 12
  BY DEF FieldOrder
<1>3. Fields = {FieldOrder[i] : i \in 1 .. 12}
  BY <1>2 DEF Fields, ToSet
<1>4. "process.path" \in Fields /\ "process.command" \in Fields /\ "dest.ip" \in Fields
  BY <1>1, <1>3
<1> QED
  BY <1>2, <1>3, <1>4 DEF Processes, Lists, Operands

LEMMA FieldsAreFinite == IsFiniteSet(Fields)
<1> DEFINE nth == [i \in 1 .. 12 |-> FieldOrder[i]]
<1>1. nth \in Surjection(1 .. 12, Fields)
  <2>1. nth \in [1 .. 12 -> Fields]
    BY FieldsAre
  <2>2. \A field \in Fields : \E i \in 1 .. 12 : nth[i] = field
    BY FieldsAre
  <2> QED
    BY <2>1, <2>2 DEF Surjection
<1>2. \A n \in Nat : IsFiniteSet(1 .. n)
  BY FS_Interval
<1>3. IsFiniteSet(1 .. 12)
  BY <1>2
<1> QED
  BY <1>1, <1>3, FS_Surjection

\* A form whose combo boxes have a current item, and no address typed in.
GoodForm ==
  {f \in Form : /\ f.node \in DOMAIN f.nodeItems /\ f.duration \in DOMAIN f.durations
                /\ f.text["dest.ip"] = Empty}

LEMMA FormFields ==
  ASSUME NEW f \in GoodForm
  PROVE  /\ f.name \in Names \cup {""} /\ f.nodeItems \in Seq(Nodes)
         /\ f.node \in 1 .. Len(f.nodeItems) /\ f.nodeItems[f.node] \in Nodes
         /\ f.all \in BOOLEAN /\ f.enabled \in BOOLEAN /\ f.sensitive \in BOOLEAN
         /\ f.action \in Actions /\ f.durations \in Seq(DurationTexts)
         /\ f.duration \in 1 .. Len(f.durations) /\ f.durations[f.duration] \in DurationTexts
         /\ f.checked \in SUBSET Fields /\ f.text \in [Fields -> Texts]
         /\ f.regexp \in SUBSET Processes /\ f.text["dest.ip"] = Empty
<1>1. f \in Form /\ f.node \in DOMAIN f.nodeItems /\ f.duration \in DOMAIN f.durations
      /\ f.text["dest.ip"] = Empty
  BY DEF GoodForm
<1>2. /\ f.name \in Names \cup {""} /\ f.nodeItems \in Seq(Nodes)
      /\ f.all \in BOOLEAN /\ f.enabled \in BOOLEAN /\ f.sensitive \in BOOLEAN
      /\ f.action \in Actions /\ f.durations \in Seq(DurationTexts)
      /\ f.checked \in SUBSET Fields /\ f.text \in [Fields -> Texts]
      /\ f.regexp \in SUBSET Processes
  BY <1>1 DEF Form
<1>3. ASSUME NEW T, NEW s \in Seq(T), NEW pos \in DOMAIN s
      PROVE  pos \in 1 .. Len(s) /\ s[pos] \in T
  OBVIOUS
<1>4. f.node \in 1 .. Len(f.nodeItems) /\ f.nodeItems[f.node] \in Nodes
  BY <1>1, <1>2, <1>3
<1>5. f.duration \in 1 .. Len(f.durations) /\ f.durations[f.duration] \in DurationTexts
  BY <1>1, <1>2, <1>3
<1> QED
  BY <1>1, <1>2, <1>4, <1>5

LEMMA CriterionOfForm ==
  ASSUME NEW f \in GoodForm, NEW field \in f.checked
  PROVE  /\ CriterionOf(f, field) \in Criterion
         /\ CriterionOf(f, field).operand = field
         /\ CriterionOf(f, field).data = f.text[field]
         /\ CriterionOf(f, field).type = TypeOf(f, field)
<1>1. field \in Fields /\ field \in Operands /\ f.text[field] \in Texts /\ f.sensitive \in BOOLEAN
  BY FormFields, FieldsAre
<1>2. TypeOf(f, field) \in OperatorTypes
  BY DEF TypeOf, OperatorTypes
<1> QED
  BY <1>1, <1>2 DEF CriterionOf, Criterion

LEMMA CollectedFields ==
  ASSUME NEW f, f.checked \in SUBSET Fields
  PROVE  LET n == Len(Picked(FieldOrder, f.checked))
         IN /\ n \in Nat
            /\ Collected(f) =
                 [k \in 1 .. n |-> CriterionOf(f, Picked(FieldOrder, f.checked)[k])]
            /\ \A k \in 1 .. n : Picked(FieldOrder, f.checked)[k] \in f.checked
            /\ \A field \in f.checked :
                 \E k \in 1 .. n : Picked(FieldOrder, f.checked)[k] = field
<1> DEFINE p == Picked(FieldOrder, f.checked)
<1>1. PICK n \in Nat : DOMAIN FieldOrder = 1 .. n
  BY FieldsAre
<1>2. /\ p \in Seq(f.checked) /\ Len(p) \in Nat
      /\ \A i \in DOMAIN FieldOrder : FieldOrder[i] \in f.checked =>
           \E k \in 1 .. Len(p) : p[k] = FieldOrder[i]
  BY <1>1, PickedIsPart
<1> HIDE DEF p
<1>3. DOMAIN p = 1 .. Len(p) /\ \A k \in 1 .. Len(p) : p[k] \in f.checked
  BY <1>2
<1>4. ASSUME NEW field \in f.checked PROVE \E k \in 1 .. Len(p) : p[k] = field
  <2>1. \E i \in DOMAIN FieldOrder : FieldOrder[i] = field
    BY FieldsAre
  <2> QED
    BY <1>2, <2>1
<1>5. Collected(f) = [k \in 1 .. Len(p) |-> CriterionOf(f, p[k])]
  BY <1>3, Zenon DEF Collected, p
<1> QED
  BY <1>2, <1>3, <1>4, <1>5 DEF p

LEMMA AloneKeeps ==
  ASSUME NEW f, NEW c \in Criterion
  PROVE  /\ Alone(f, c) \in Criterion
         /\ Alone(f, c).operand = c.operand /\ Alone(f, c).data = c.data
<1>1. "regexp" \in OperatorTypes
  BY DEF OperatorTypes
<1>2. [c EXCEPT !.type = "regexp"] \in Criterion
      /\ [c EXCEPT !.type = "regexp"].operand = c.operand
      /\ [c EXCEPT !.type = "regexp"].data = c.data
  BY <1>1 DEF Criterion
<1> QED
  BY <1>2 DEF Alone

LEMMA IsRule ==
  ASSUME NEW enabled \in BOOLEAN, NEW action \in Actions, NEW duration \in DurationTexts,
         NEW list \in BOOLEAN, NEW sensitive \in BOOLEAN, NEW criteria \in Seq(Criterion)
  PROVE  [enabled |-> enabled, action |-> action, duration |-> duration, list |-> list,
          sensitive |-> sensitive, criteria |-> criteria] \in Rule
  BY DEF Rule

\* A rule the form stores has a criterion for each box that is checked, with
\* the text of its field, and no other.
LEMMA RuleOfForm ==
  ASSUME NEW f \in GoodForm, f.checked # {}
  PROVE  LET r == RuleOf(f)
         IN /\ r \in Rule /\ r.criteria \in Seq(Criterion) /\ r.criteria # <<>>
            /\ r.enabled = f.enabled /\ r.action = f.action
            /\ r.duration = f.durations[f.duration]
            /\ \A k \in DOMAIN r.criteria :
                 /\ r.criteria[k].operand \in f.checked
                 /\ r.criteria[k].data = f.text[r.criteria[k].operand]
                 /\ r.criteria[k].operand \in Processes =>
                      r.criteria[k].type = TypeOf(f, r.criteria[k].operand)
            /\ \A field \in f.checked :
                 \E k \in DOMAIN r.criteria : r.criteria[k].operand = field
<1> DEFINE p == Picked(FieldOrder, f.checked)
           several == Cardinality(f.checked) >= 2
           cs == RuleOf(f).criteria
<1>1. f.checked \in SUBSET Fields
  BY FormFields
<1>2. /\ Len(p) \in Nat
      /\ Collected(f) = [k \in 1 .. Len(p) |-> CriterionOf(f, p[k])]
      /\ \A k \in 1 .. Len(p) : p[k] \in f.checked
      /\ \A field \in f.checked : \E k \in 1 .. Len(p) : p[k] = field
  BY <1>1, CollectedFields
<1> HIDE DEF p
<1>3. 1 \in 1 .. Len(p)
  BY <1>2
<1>4. \A field \in f.checked : /\ CriterionOf(f, field) \in Criterion
                              /\ CriterionOf(f, field).operand = field
                              /\ CriterionOf(f, field).data = f.text[field]
                              /\ CriterionOf(f, field).type = TypeOf(f, field)
  BY CriterionOfForm
<1>5. Collected(f) \in [1 .. Len(p) -> Criterion]
  <2>1. \A k \in 1 .. Len(p) : CriterionOf(f, p[k]) \in Criterion
    BY <1>2, <1>4
  <2> QED
    BY <1>2, <2>1
<1>6. Collected(f) \in Seq(Criterion)
  <2>1. \A n \in Nat : \A s \in [1 .. n -> Criterion] : s \in Seq(Criterion)
    OBVIOUS
  <2> QED
    BY <1>2, <1>5, <2>1
<1>7. /\ RuleOf(f) = [enabled |-> f.enabled, action |-> f.action,
                      duration |-> f.durations[f.duration], list |-> several,
                      sensitive |-> f.sensitive /\ ~several, criteria |-> cs]
      /\ cs = IF several THEN Collected(f) ELSE <<Alone(f, Collected(f)[1])>>
  BY DEF RuleOf
<1>8. several \in BOOLEAN
  OBVIOUS
<1> HIDE DEF several, cs
<1> DEFINE Result == /\ cs \in Seq(Criterion) /\ cs # <<>>
                     /\ \A k \in DOMAIN cs : /\ cs[k].operand \in f.checked
                                            /\ cs[k].data = f.text[cs[k].operand]
                     /\ \A k \in DOMAIN cs : cs[k].operand \in Processes =>
                                                cs[k].type = TypeOf(f, cs[k].operand)
                     /\ \A field \in f.checked : \E k \in DOMAIN cs : cs[k].operand = field
<1> HIDE DEF Result
<1>9. ASSUME several PROVE Result
  <2>1. cs = Collected(f)
    BY <1>7, <1>9
  <2>2. cs \in Seq(Criterion) /\ cs # <<>> /\ DOMAIN cs = 1 .. Len(p)
    BY <1>3, <1>5, <1>6, <2>1
  <2>3. \A k \in DOMAIN cs : cs[k] = CriterionOf(f, p[k]) /\ p[k] \in f.checked
    BY <1>2, <2>1, <2>2
  <2>4. \A k \in DOMAIN cs : cs[k].operand \in f.checked /\ cs[k].data = f.text[cs[k].operand]
    BY <1>4, <2>3
  <2>5. ASSUME NEW field \in f.checked PROVE \E k \in DOMAIN cs : cs[k].operand = field
    <3>1. PICK k \in 1 .. Len(p) : p[k] = field
      BY <1>2
    <3>2. k \in DOMAIN cs /\ cs[k].operand = field
      BY <1>4, <2>2, <2>3, <3>1
    <3> QED
      BY <3>2
  <2>6. \A k \in DOMAIN cs : cs[k].type = TypeOf(f, cs[k].operand)
    BY <1>4, <2>3
  <2> QED
    BY <2>2, <2>4, <2>5, <2>6 DEF Result
<1>10. ASSUME ~several PROVE Result
  <2>1. PICK field \in f.checked : f.checked = {field}
    <3>1. IsFiniteSet(f.checked)
      BY <1>1, FieldsAreFinite, FS_Subset
    <3>2. Cardinality(f.checked) \in Nat /\ Cardinality(f.checked) # 0
      BY <3>1, FS_CardinalityType, FS_EmptySet
    <3>3. Cardinality(f.checked) = 1
      BY <1>10, <3>2 DEF several
    <3> QED
      BY <3>1, <3>3, FS_Singleton
  <2>2. Collected(f)[1] = CriterionOf(f, field)
    BY <1>2, <1>3, <2>1
  <2>3. /\ Collected(f)[1] \in Criterion /\ Collected(f)[1].operand = field
        /\ Collected(f)[1].data = f.text[field]
        /\ Collected(f)[1].type = TypeOf(f, field)
    BY <1>4, <2>2
  <2>4. /\ Alone(f, Collected(f)[1]) \in Criterion
        /\ Alone(f, Collected(f)[1]).operand = field
        /\ Alone(f, Collected(f)[1]).data = f.text[field]
    BY <2>3, AloneKeeps
  <2>5. cs = <<Alone(f, Collected(f)[1])>>
    BY <1>7, <1>10
  <2>6. cs \in Seq(Criterion) /\ cs # <<>> /\ DOMAIN cs = {1}
        /\ cs[1] = Alone(f, Collected(f)[1])
    BY <2>4, <2>5
  <2>7. \A k \in DOMAIN cs : k = 1
    BY <2>6
  <2>8. \A k \in DOMAIN cs : cs[k].operand \in f.checked /\ cs[k].data = f.text[cs[k].operand]
    BY <2>1, <2>4, <2>6, <2>7
  <2>9. \A g \in f.checked : cs[1].operand = g /\ 1 \in DOMAIN cs
    BY <2>1, <2>4, <2>6
  <2>10. field \in Processes => Alone(f, Collected(f)[1]) = Collected(f)[1]
    BY <2>1 DEF Alone
  <2>11. \A k \in DOMAIN cs : cs[k].operand \in Processes =>
                                cs[k].type = TypeOf(f, cs[k].operand)
    BY <2>3, <2>4, <2>6, <2>7, <2>10
  <2> QED
    BY <2>6, <2>8, <2>9, <2>11 DEF Result
<1>11. Result
  BY <1>9, <1>10
<1>12. RuleOf(f) \in Rule
  <2>1. f.enabled \in BOOLEAN /\ f.action \in Actions /\ f.sensitive \in BOOLEAN
        /\ f.durations[f.duration] \in DurationTexts
    BY FormFields
  <2>2. cs \in Seq(Criterion)
    BY <1>11 DEF Result
  <2>3. \E list \in BOOLEAN, sensitive \in BOOLEAN :
          RuleOf(f) = [enabled |-> f.enabled, action |-> f.action,
                       duration |-> f.durations[f.duration], list |-> list,
                       sensitive |-> sensitive, criteria |-> cs]
    <3>1. CASE several
      <4>1. RuleOf(f) = [enabled |-> f.enabled, action |-> f.action,
                       duration |-> f.durations[f.duration], list |-> TRUE,
                       sensitive |-> FALSE, criteria |-> cs]
        BY <1>7, <3>1, Zenon
      <4> QED
        BY <4>1, Zenon
    <3>2. CASE ~several /\ f.sensitive
      <4>1. several = FALSE
        BY <3>2
      <4>2. (f.sensitive /\ ~several) = TRUE
        BY <3>2
      <4>3. RuleOf(f) = [enabled |-> f.enabled, action |-> f.action,
                       duration |-> f.durations[f.duration], list |-> FALSE,
                       sensitive |-> TRUE, criteria |-> cs]
        BY <1>7, <4>1, <4>2, Zenon
      <4> QED
        BY <4>3, Zenon
    <3>3. CASE ~several /\ ~f.sensitive
      <4>1. several = FALSE
        BY <3>3
      <4>2. (f.sensitive /\ ~several) = FALSE
        BY <3>3
      <4>3. RuleOf(f) = [enabled |-> f.enabled, action |-> f.action,
                       duration |-> f.durations[f.duration], list |-> FALSE,
                       sensitive |-> FALSE, criteria |-> cs]
        BY <1>7, <4>1, <4>2, Zenon
      <4> QED
        BY <4>3, Zenon
    <3> QED
      BY <3>1, <3>2, <3>3
  <2> QED
    BY <2>1, <2>2, <2>3, IsRule
<1>13. /\ RuleOf(f).enabled = f.enabled /\ RuleOf(f).action = f.action
       /\ RuleOf(f).duration = f.durations[f.duration]
  BY DEF RuleOf
<1> QED
  BY <1>11, <1>12, <1>13 DEF cs, Result

-----------------------------------------------------------------------------
(* From a rule to the form.                                                *)

LEMMA PlaceInSeq ==
  ASSUME NEW T, NEW s \in Seq(T), NEW pos \in DOMAIN s
  PROVE  pos \in Nat /\ pos \in 1 .. Len(s) /\ s[pos] \in T /\ 1 \in DOMAIN s
OBVIOUS

\* A record with the fields of a form, of the right kind, is a good one.
LEMMA IsGoodForm ==
  ASSUME NEW f,
         f = [name |-> f.name, nodeItems |-> f.nodeItems, node |-> f.node, all |-> f.all,
              enabled |-> f.enabled, sensitive |-> f.sensitive, action |-> f.action,
              durations |-> f.durations, duration |-> f.duration, checked |-> f.checked,
              text |-> f.text, regexp |-> f.regexp],
         f.name \in Names \cup {""}, f.nodeItems \in Seq(Nodes), f.node \in DOMAIN f.nodeItems,
         f.all \in BOOLEAN, f.enabled \in BOOLEAN, f.sensitive \in BOOLEAN,
         f.action \in Actions, f.durations \in Seq(DurationTexts),
         f.duration \in DOMAIN f.durations, f.checked \in SUBSET Fields,
         f.text \in [Fields -> Texts], f.regexp \in SUBSET Processes,
         f.text["dest.ip"] = Empty
  PROVE  f \in GoodForm
<1>1. f.duration \in Nat /\ f.node \in Nat
  BY PlaceInSeq
<1>2. f \in Form
  BY <1>1 DEF Form
<1> QED
  BY <1>2 DEF GoodForm

LEMMA FormIsItsFields ==
  ASSUME NEW f \in GoodForm
  PROVE  f = [name |-> f.name, nodeItems |-> f.nodeItems, node |-> f.node, all |-> f.all,
              enabled |-> f.enabled, sensitive |-> f.sensitive, action |-> f.action,
              durations |-> f.durations, duration |-> f.duration, checked |-> f.checked,
              text |-> f.text, regexp |-> f.regexp]
<1>1. f \in Form
  BY DEF GoodForm
<1> QED
  BY <1>1 DEF Form

LEMMA TextsAre ==
  /\ Empty \in Texts /\ \A w \in Words \cup {""} : Plain(w) \in Texts
  /\ Plain("tcp") \in Texts /\ Plain(Sample) \in Texts
  /\ \A w \in Words : Plain(w) # Empty
  /\ \A t \in Texts : Reread(t) \in Texts
<1>1. "tcp" \in Words /\ Sample \in Words /\ "" \notin Words
  BY WordsAssumption
<1>2. \A w \in Words \cup {""} : Plain(w) \in Texts
  BY DEF Plain, Texts
<1>3. Empty \in Texts
  BY <1>2 DEF Empty
<1>4. \A w \in Words : Plain(w) # Empty
  BY <1>1 DEF Plain, Empty
<1>5. ASSUME NEW t \in Texts PROVE Reread(t) \in Texts
  <2> DEFINE d == t.doubled + 1
  <2>0. t.doubled \in Nat
    BY DEF Texts
  <2>1. t \in Texts /\ d \in Nat
    BY <2>0
  <2> HIDE DEF d
  <2>2. [t EXCEPT !.doubled = d] \in Texts
    BY <2>1 DEF Texts
  <2>3. Reread(t) = Empty \/ Reread(t) = t \/ Reread(t) = [t EXCEPT !.doubled = d]
    BY DEF Reread, d
  <2> QED
    BY <1>3, <2>1, <2>2, <2>3
<1> QED
  BY <1>1, <1>2, <1>3, <1>4, <1>5

\* A text that is handed on is the same word, and the same text in ASCII.
LEMMA RecodeIs ==
  ASSUME NEW t \in Texts
  PROVE  /\ Recode(t) \in Texts /\ Recode(t).word = t.word
         /\ (t.word \notin NonAscii => Recode(t) = t) /\ (t # Empty => Recode(t) # Empty)
<1> DEFINE d == t.recoded + 1
<1>1. t.recoded \in Nat
  BY DEF Texts
<1>2. d \in Nat
  BY <1>1
<1>3. Recode(t) = IF t.word \in NonAscii THEN [t EXCEPT !.recoded = d] ELSE t
  BY DEF Recode
<1> HIDE DEF d
<1>4. [t EXCEPT !.recoded = d] \in Texts /\ [t EXCEPT !.recoded = d].word = t.word
  BY <1>2 DEF Texts
<1>5. t.word \in NonAscii => t.word # ""
  BY WordsAssumption
<1>6. Empty.word = ""
  BY DEF Empty, Plain
<1> QED
  BY <1>3, <1>4, <1>5, <1>6

\* A combo box one cannot type in takes any text.
LEMMA ChosenIsThere ==
  ASSUME NEW T, NEW items \in Seq(T), NEW pos \in DOMAIN items, NEW t \in T
  PROVE  LET c == Chosen(items, pos, t)
         IN c.items \in Seq(T) /\ c.pos \in DOMAIN c.items /\ c.items[c.pos] = t
<1> DEFINE I == {i \in DOMAIN items : items[i] = t}
           new == [items EXCEPT ![pos] = t]
<1>1. CASE t \in ToSet(items)
  <2>1. I \in SUBSET Nat /\ I # {}
    BY <1>1 DEF ToSet
  <2>2. Min(I) \in I
    BY <2>1, LeastOf
  <2>3. Chosen(items, pos, t) = [items |-> items, pos |-> Min(I)]
    BY <1>1, Zenon DEF Chosen
  <2> HIDE DEF I
  <2>4. Chosen(items, pos, t).items = items /\ Chosen(items, pos, t).pos = Min(I)
    BY <2>3
  <2> QED
    BY <2>2, <2>4 DEF I
<1>2. CASE t \notin ToSet(items)
  <2>1. Chosen(items, pos, t) = [items |-> new, pos |-> pos]
    BY <1>2, Zenon DEF Chosen
  <2>2. Chosen(items, pos, t).items = new /\ Chosen(items, pos, t).pos = pos
    BY <2>1
  <2>3. new \in Seq(T) /\ pos \in DOMAIN new /\ new[pos] = t
    OBVIOUS
  <2> QED
    BY <2>2, <2>3
<1> QED
  BY <1>1, <1>2

LEMMA PickedFirst ==
  ASSUME NEW n \in Nat, NEW s, DOMAIN s = 1 .. n, NEW S, NEW i \in DOMAIN s, s[i] \in S
  PROVE  Picked(s, S) \in Seq(S) /\ 1 \in DOMAIN Picked(s, S)
<1>1. Picked(s, S) \in Seq(S)
  BY PickedIsPart
<1>2. Len(Picked(s, S)) \in Nat
  BY PickedIsPart
<1>3. \E k \in 1 .. Len(Picked(s, S)) : Picked(s, S)[k] = s[i]
  BY PickedIsPart, SMTT(60)
<1> DEFINE p == Picked(s, S)
<1> HIDE DEF p
<1>4. 1 \in DOMAIN p
  <2>1. p \in Seq(S) /\ Len(p) \in Nat /\ \E k \in 1 .. Len(p) : p[k] = s[i]
    BY <1>1, <1>2, <1>3 DEF p
  <2> QED
    BY <2>1
<1> QED
  BY <1>1, <1>4 DEF p

LEMMA NodesPicked ==
  ASSUME NEW S \in SUBSET Nodes, S # {}
  PROVE  Picked(NodeOrder, S) \in Seq(Nodes) /\ 1 \in DOMAIN Picked(NodeOrder, S)
<1> DEFINE order == NodeOrder
           p == Picked(order, S)
<1>1. order \in Seq(Nodes)
  BY ItemsAssumption
<1>2. PICK i \in DOMAIN order : order[i] \in S
  BY DEF Nodes, ToSet
<1> HIDE DEF order
<1>3. PICK n \in Nat : DOMAIN order = 1 .. n
  BY <1>1
<1>4. p \in Seq(S) /\ 1 \in DOMAIN p
  BY <1>2, <1>3, PickedFirst
<1> HIDE DEF p
<1>5. p \in Seq(Nodes)
  BY <1>4
<1> QED
  BY <1>4, <1>5 DEF p, order

LEMMA NewFormIsGood ==
  ASSUME nodes \in SUBSET Nodes
  PROVE  NewForm \in GoodForm
<1> DEFINE items == IF nodes = {} THEN <<NodeOrder[1]>> ELSE Picked(NodeOrder, nodes)
           text == [field \in Fields |->
                      CASE field = "dest.host" -> Plain(Sample)
                        [] field = "protocol" -> Plain("tcp")
                        [] OTHER -> Empty]
<1>1. NodeOrder \in Seq(Nodes) /\ NodeOrder # <<>> /\ 1 \in DOMAIN NodeOrder
  BY ItemsAssumption
<1>3. items \in Seq(Nodes) /\ 1 \in DOMAIN items
  <2>1. CASE nodes = {}
    BY <1>1, <2>1
  <2>2. CASE nodes # {}
    <3>1. items = Picked(NodeOrder, nodes)
      BY <2>2
    <3> HIDE DEF items
    <3> QED
      BY <2>2, <3>1, NodesPicked
  <2> QED
    BY <2>1, <2>2
<1>4. text \in [Fields -> Texts] /\ text["dest.ip"] = Empty
  <2>1. Plain(Sample) \in Texts /\ Plain("tcp") \in Texts /\ Empty \in Texts
    BY TextsAre
  <2>2. text \in [Fields -> Texts]
    BY <2>1
  <2>3. "dest.ip" \in Fields
    BY FieldsAre
  <2> QED
    BY <2>2, <2>3
<1>5. Durations \in Seq(DurationTexts) /\ 1 \in DOMAIN Durations /\ "deny" \in Actions
      /\ "" \in Names \cup {""}
  BY ItemsAssumption DEF Actions
<1> DEFINE g == NewForm
           off == FALSE
<1>6. g = [name |-> "", nodeItems |-> items, node |-> 1, all |-> off,
           enabled |-> off, sensitive |-> off, action |-> "deny",
           durations |-> Durations, duration |-> 1, checked |-> {},
           text |-> text, regexp |-> {}]
  BY DEF NewForm
<1>7. off \in BOOLEAN
  OBVIOUS
<1> HIDE DEF g, items, text, off
<1>8. /\ g.name = "" /\ g.nodeItems = items /\ g.node = 1 /\ g.all = off /\ g.enabled = off
      /\ g.sensitive = off /\ g.action = "deny" /\ g.durations = Durations
      /\ g.duration = 1 /\ g.checked = {} /\ g.text = text /\ g.regexp = {}
  BY <1>6
<1>9. g = [name |-> g.name, nodeItems |-> g.nodeItems, node |-> g.node, all |-> g.all,
           enabled |-> g.enabled, sensitive |-> g.sensitive, action |-> g.action,
           durations |-> g.durations, duration |-> g.duration, checked |-> g.checked,
           text |-> g.text, regexp |-> g.regexp]
  BY <1>6, <1>8
<1>10. g \in GoodForm
  BY <1>3, <1>4, <1>5, <1>7, <1>8, <1>9, IsGoodForm
<1> QED
  BY <1>10 DEF g

LEMMA ClearedIsGood ==
  ASSUME NEW f \in GoodForm
  PROVE  /\ Cleared(f) \in GoodForm /\ Cleared(f).checked = {} /\ Cleared(f).regexp = {}
         /\ Cleared(f).nodeItems = f.nodeItems /\ Cleared(f).durations = f.durations
<1> DEFINE text == [field \in Fields |-> IF field = "protocol" THEN Plain("tcp") ELSE Empty]
           name == ""
           first == 1
           off == FALSE
           deny == "deny"
           none == {}
<1>1. text \in [Fields -> Texts] /\ text["dest.ip"] = Empty
  BY TextsAre, FieldsAre
<1>2. Cleared(f) = [f EXCEPT !.name = name, !.node = first, !.enabled = off, !.action = deny,
                             !.duration = first, !.checked = none, !.regexp = none,
                             !.text = text]
  BY DEF Cleared
<1>3. first \in DOMAIN f.nodeItems /\ first \in DOMAIN f.durations
  <2>1. /\ f.nodeItems \in Seq(Nodes) /\ f.durations \in Seq(DurationTexts)
        /\ f.node \in DOMAIN f.nodeItems /\ f.duration \in DOMAIN f.durations
    BY FormFields DEF GoodForm
  <2> QED
    BY <2>1, PlaceInSeq
<1>4. /\ deny \in Actions /\ name \in Names \cup {""} /\ off \in BOOLEAN
      /\ none \in SUBSET Fields /\ none \in SUBSET Processes
  BY DEF Actions
<1>6. first \in Nat
  OBVIOUS
<1> HIDE DEF text, name, first, off, deny, none
<1>5. f \in Form /\ first \in Nat
  BY <1>6 DEF GoodForm
<1> DEFINE g == Cleared(f)
<1>7. g \in Form
  BY <1>1, <1>2, <1>4, <1>5, ZenonT(60) DEF Form
<1>8. /\ g.checked = none /\ g.regexp = none /\ g.nodeItems = f.nodeItems
      /\ g.durations = f.durations /\ g.node = first /\ g.duration = first
      /\ g.text = text
  BY <1>2, <1>5 DEF Form
<1> HIDE DEF g
<1>9. g \in GoodForm
  BY <1>1, <1>3, <1>7, <1>8 DEF GoodForm
<1> QED
  BY <1>8, <1>9 DEF none, g
LEMMA LastForIs ==
  ASSUME NEW cs \in Seq(Criterion), NEW field \in FieldsOf(cs)
  PROVE  \E i \in DOMAIN cs :
           /\ LastFor(cs, field) = cs[i] /\ FieldFor(cs[i].operand) = field
           /\ \A j \in DOMAIN cs : j > i => FieldFor(cs[j].operand) # field
<1> DEFINE I == {i \in DOMAIN cs : FieldFor(cs[i].operand) = field}
<1>1. DOMAIN cs = 1 .. Len(cs) /\ Len(cs) \in Nat
  OBVIOUS
<1>2. I \in SUBSET (1 .. Len(cs)) /\ I # {}
  BY <1>1 DEF FieldsOf
<1>3. LastFor(cs, field) = cs[Max(I)]
  BY DEF LastFor
<1>4. \A j \in DOMAIN cs : FieldFor(cs[j].operand) = field => j \in I
  OBVIOUS
<1>5. \A j \in I : j \in DOMAIN cs /\ FieldFor(cs[j].operand) = field
  OBVIOUS
<1> HIDE DEF I
<1>6. Max(I) \in I /\ \A j \in I : j <= Max(I)
  BY <1>1, <1>2, GreatestOf
<1>7. \A j \in DOMAIN cs : j > Max(I) => j \notin I
  <2>0. \A j \in 1 .. Len(cs) : j \in Int
    OBVIOUS
  <2>3. Max(I) \in 1 .. Len(cs) /\ \A j \in I : j \in 1 .. Len(cs)
    BY <1>2, <1>6
  <2>1. \A j \in I : j \in Int /\ Max(I) \in Int
    BY <2>0, <2>3
  <2>2. \A j \in I : ~ (j > Max(I))
    BY <1>6, <2>1
  <2> QED
    BY <2>2
<1> QED
  BY <1>3, <1>4, <1>5, <1>6, <1>7

LEMMA CriterionParts ==
  ASSUME NEW cs \in Seq(Criterion), NEW i \in DOMAIN cs
  PROVE  /\ cs[i] \in Criterion /\ cs[i].type \in OperatorTypes /\ cs[i].operand \in Operands
         /\ cs[i].data \in Texts /\ cs[i].sensitive \in BOOLEAN
<1>1. cs[i] \in Criterion
  OBVIOUS
<1> QED
  BY <1>1 DEF Criterion

LEMMA RuleParts ==
  ASSUME NEW r \in Rule
  PROVE  /\ r.criteria \in Seq(Criterion) /\ r.enabled \in BOOLEAN /\ r.action \in Actions
         /\ r.duration \in DurationTexts /\ r.list \in BOOLEAN /\ r.sensitive \in BOOLEAN
BY DEF Rule

\* What the criteria of a rule are when its JSON is parsed.
LEMMA ParsedCriteria ==
  ASSUME NEW r \in Rule
  PROVE  /\ Parsed(r) \in Seq(Criterion) /\ DOMAIN Parsed(r) = DOMAIN r.criteria
         /\ \A i \in DOMAIN r.criteria :
              /\ Parsed(r)[i].operand = r.criteria[i].operand
              /\ Parsed(r)[i].type = r.criteria[i].type
              /\ Parsed(r)[i].data = IF r.list THEN Reread(r.criteria[i].data)
                                               ELSE r.criteria[i].data
<1>1. r.criteria \in Seq(Criterion)
  BY RuleParts
<1> DEFINE cs == r.criteria
           new(i) == [cs[i] EXCEPT !.data = Reread(cs[i].data)]
<1>2. CASE ~r.list
  BY <1>1, <1>2 DEF Parsed
<1>3. CASE r.list
  <2>1. Parsed(r) = [i \in DOMAIN cs |-> new(i)]
    BY <1>3, Zenon DEF Parsed
  <2>2. ASSUME NEW i \in DOMAIN cs
        PROVE  /\ new(i) \in Criterion /\ new(i).operand = cs[i].operand
               /\ new(i).type = cs[i].type /\ new(i).data = Reread(cs[i].data)
    <3> DEFINE t == Reread(cs[i].data)
    <3>1. cs[i] \in Criterion /\ cs[i].data \in Texts
      BY <1>1, CriterionParts
    <3>2. t \in Texts
      BY <3>1, TextsAre
    <3> HIDE DEF t, cs
    <3>3. /\ [cs[i] EXCEPT !.data = t] \in Criterion
          /\ [cs[i] EXCEPT !.data = t].operand = cs[i].operand
          /\ [cs[i] EXCEPT !.data = t].type = cs[i].type
          /\ [cs[i] EXCEPT !.data = t].data = t
      BY <3>1, <3>2 DEF Criterion
    <3> QED
      BY <3>3 DEF t
  <2>3. DOMAIN cs = 1 .. Len(cs) /\ Len(cs) \in Nat
    BY <1>1
  <2> HIDE DEF new, cs
  <2>4. Parsed(r) \in [1 .. Len(cs) -> Criterion]
    BY <2>1, <2>2, <2>3
  <2>5. \A n \in Nat : \A s \in [1 .. n -> Criterion] : s \in Seq(Criterion)
    OBVIOUS
  <2>6. Parsed(r) \in Seq(Criterion)
    BY <2>3, <2>4, <2>5
  <2>7. \A i \in DOMAIN cs : Parsed(r)[i] = new(i)
    BY <2>1
  <2>8. DOMAIN Parsed(r) = DOMAIN cs
    BY <2>1
  <2>9. \A i \in DOMAIN cs :
          /\ Parsed(r)[i].operand = cs[i].operand /\ Parsed(r)[i].type = cs[i].type
          /\ Parsed(r)[i].data = Reread(cs[i].data)
    BY <2>2, <2>7
  <2> QED
    BY <1>3, <2>6, <2>8, <2>9 DEF cs
<1> QED
  BY <1>2, <1>3

\* A rule that is handed on is a rule, with each text handed on.
LEMMA RecodedIs ==
  ASSUME NEW r \in Rule
  PROVE  LET a == Recoded(r)
         IN /\ a \in Rule /\ a.enabled = r.enabled /\ a.action = r.action
            /\ a.duration = r.duration /\ a.list = r.list
            /\ DOMAIN a.criteria = DOMAIN r.criteria
            /\ \A i \in DOMAIN r.criteria :
                 /\ r.criteria[i].data \in Texts /\ a.criteria[i] \in Criterion
                 /\ a.criteria[i].type = r.criteria[i].type
                 /\ a.criteria[i].operand = r.criteria[i].operand
                 /\ a.criteria[i].data = Recode(r.criteria[i].data)
<1> DEFINE cs == r.criteria
           new(i) == [cs[i] EXCEPT !.data = Recode(cs[i].data)]
           ds == [i \in DOMAIN cs |-> new(i)]
           a == [r EXCEPT !.criteria = ds]
<1>1. Recoded(r) = a
  BY DEF Recoded
<1>2. cs \in Seq(Criterion)
  BY RuleParts
<1>3. DOMAIN cs = 1 .. Len(cs) /\ Len(cs) \in Nat
      /\ \A i \in DOMAIN cs : cs[i] \in Criterion /\ cs[i].data \in Texts
  BY <1>2, CriterionParts
<1> HIDE DEF cs
<1>4. ASSUME NEW i \in DOMAIN cs
      PROVE  /\ new(i) \in Criterion /\ new(i).type = cs[i].type
             /\ new(i).operand = cs[i].operand /\ new(i).data = Recode(cs[i].data)
  <2> DEFINE t == Recode(cs[i].data)
  <2>1. cs[i] \in Criterion /\ t \in Texts
    BY <1>3, RecodeIs
  <2> HIDE DEF t
  <2>2. /\ [cs[i] EXCEPT !.data = t] \in Criterion
        /\ [cs[i] EXCEPT !.data = t].operand = cs[i].operand
        /\ [cs[i] EXCEPT !.data = t].type = cs[i].type
        /\ [cs[i] EXCEPT !.data = t].data = t
    BY <2>1 DEF Criterion
  <2> QED
    BY <2>2 DEF t
<1> HIDE DEF new
<1>5. ds \in [1 .. Len(cs) -> Criterion]
  BY <1>3, <1>4
<1>6. \A n \in Nat : \A u \in [1 .. n -> Criterion] : u \in Seq(Criterion)
  OBVIOUS
<1>7. ds \in Seq(Criterion)
  BY <1>3, <1>5, <1>6
<1>8. DOMAIN ds = DOMAIN cs /\ \A i \in DOMAIN cs : ds[i] = new(i)
  OBVIOUS
<1> HIDE DEF ds
<1>9. a \in Rule
  BY <1>7 DEF Rule
<1>10. /\ a.enabled = r.enabled /\ a.action = r.action /\ a.duration = r.duration
       /\ a.list = r.list /\ a.criteria = ds
  BY DEF Rule
<1> HIDE DEF a
<1> QED
  BY <1>1, <1>3, <1>4, <1>8, <1>9, <1>10 DEF cs

\* What a rule's criteria are when they are read.
LEMMA AsReadCriteria ==
  ASSUME NEW r \in Rule
  PROVE  /\ AsRead(r) \in Seq(Criterion) /\ DOMAIN AsRead(r) = DOMAIN r.criteria
         /\ \A i \in DOMAIN r.criteria :
              /\ AsRead(r)[i].operand = r.criteria[i].operand
              /\ AsRead(r)[i].type = r.criteria[i].type
              /\ AsRead(r)[i].data = IF r.list THEN Reread(Recode(r.criteria[i].data))
                                               ELSE Recode(r.criteria[i].data)
<1> DEFINE a == Recoded(r)
<1>1. /\ a \in Rule /\ a.list = r.list /\ DOMAIN a.criteria = DOMAIN r.criteria
      /\ \A i \in DOMAIN r.criteria :
           /\ a.criteria[i].type = r.criteria[i].type
           /\ a.criteria[i].operand = r.criteria[i].operand
           /\ a.criteria[i].data = Recode(r.criteria[i].data)
  BY RecodedIs
<1>2. AsRead(r) = Parsed(a)
  BY DEF AsRead
<1> HIDE DEF a
<1>3. /\ Parsed(a) \in Seq(Criterion) /\ DOMAIN Parsed(a) = DOMAIN a.criteria
      /\ \A i \in DOMAIN a.criteria :
           /\ Parsed(a)[i].operand = a.criteria[i].operand
           /\ Parsed(a)[i].type = a.criteria[i].type
           /\ Parsed(a)[i].data = IF a.list THEN Reread(a.criteria[i].data)
                                             ELSE a.criteria[i].data
  BY <1>1, ParsedCriteria
<1> QED
  BY <1>1, <1>2, <1>3

\* Criteria put into a form.
LEMMA WithCriteriaIs ==
  ASSUME NEW f \in GoodForm, NEW cs \in Seq(Criterion)
  PROVE  /\ WithCriteria(f, cs) \in GoodForm
         /\ WithCriteria(f, cs).checked = f.checked \cup FieldsOf(cs)
         /\ \A field \in FieldsOf(cs) \ {"dest.ip"} :
              WithCriteria(f, cs).text[field] = LastFor(cs, field).data
         /\ \A field \in FieldsOf(cs) \cap Processes :
              field \in WithCriteria(f, cs).regexp <=> LastFor(cs, field).type = "regexp"
         /\ WithCriteria(f, cs).name = f.name /\ WithCriteria(f, cs).enabled = f.enabled
         /\ WithCriteria(f, cs).action = f.action
         /\ WithCriteria(f, cs).nodeItems = f.nodeItems /\ WithCriteria(f, cs).node = f.node
         /\ WithCriteria(f, cs).durations = f.durations
         /\ WithCriteria(f, cs).duration = f.duration
<1> DEFINE boxes == f.checked \cup FieldsOf(cs)
           old == f.text
           text == [field \in Fields |->
                      IF field \in FieldsOf(cs) \ {"dest.ip"}
                      THEN LastFor(cs, field).data ELSE old[field]]
           regexp == {field \in Processes :
                        IF field \in FieldsOf(cs)
                        THEN LastFor(cs, field).type = "regexp" ELSE field \in f.regexp}
           g == WithCriteria(f, cs)
<1>1. f \in Form /\ f.node \in DOMAIN f.nodeItems /\ f.duration \in DOMAIN f.durations
      /\ old["dest.ip"] = Empty
  BY DEF GoodForm
<1>2. f.checked \in SUBSET Fields /\ old \in [Fields -> Texts]
  BY FormFields
<1>3. FieldsOf(cs) \in SUBSET Fields
  BY DEF FieldsOf
<1>4. ASSUME NEW field \in FieldsOf(cs) PROVE LastFor(cs, field).data \in Texts
  BY LastForIs, CriterionParts
<1>5. g = [f EXCEPT !.checked = boxes, !.text = text, !.regexp = regexp]
  BY DEF WithCriteria
<1>6. boxes \in SUBSET Fields
  BY <1>2, <1>3
<1> HIDE DEF old
<1>7. text \in [Fields -> Texts]
  BY <1>2, <1>4
<1>8. text["dest.ip"] = Empty
  BY <1>1, FieldsAre
<1>9. regexp \in SUBSET Processes
  OBVIOUS
<1>10. \A field \in FieldsOf(cs) \ {"dest.ip"} : text[field] = LastFor(cs, field).data
  BY <1>3
<1>11. \A field \in FieldsOf(cs) \cap Processes :
         field \in regexp <=> LastFor(cs, field).type = "regexp"
  OBVIOUS
<1> HIDE DEF boxes, text, regexp, g
<1>12. g \in Form
  BY <1>1, <1>5, <1>6, <1>7, <1>9 DEF Form
<1>13. /\ g.checked = boxes /\ g.text = text /\ g.regexp = regexp /\ g.name = f.name
       /\ g.enabled = f.enabled /\ g.action = f.action /\ g.nodeItems = f.nodeItems
       /\ g.node = f.node /\ g.durations = f.durations /\ g.duration = f.duration
  BY <1>1, <1>5 DEF Form
<1>14. g \in GoodForm
  BY <1>1, <1>8, <1>12, <1>13 DEF GoodForm
<1> QED
  BY <1>10, <1>11, <1>13, <1>14 DEF g, boxes
\* A rule opened in the dialog: its criteria, each with the text it is read
\* with, are the boxes checked, and the rest is shown as it is.
Shows(f, r) ==
  /\ f.checked = FieldsOf(AsRead(r))
  /\ \A field \in FieldsOf(AsRead(r)) \ {"dest.ip"} :
       f.text[field] = LastFor(AsRead(r), field).data
  /\ \A field \in FieldsOf(AsRead(r)) \cap Processes :
       field \in f.regexp <=> LastFor(AsRead(r), field).type = "regexp"
  /\ f.enabled = r.enabled /\ f.action = r.action
  /\ f.durations[f.duration] = r.duration

LEMMA LoadedIs ==
  ASSUME NEW f \in GoodForm, NEW n \in Nodes, NEW x \in Names, NEW r \in Rule
  PROVE  /\ Loaded(f, n, x, r) \in GoodForm /\ Shows(Loaded(f, n, x, r), r)
         /\ Loaded(f, n, x, r).name = Reencoded[x] /\ NodeOf(Loaded(f, n, x, r)) = n
<1> DEFINE g == Cleared(f)
           pos == Chosen(g.nodeItems, g.node, n)
           d == Chosen(g.durations, g.duration, r.duration)
           name == Reencoded[x]
           on == r.enabled
           a == r.action
           items == pos.items
           node == pos.pos
           durations == d.items
           duration == d.pos
           h == [g EXCEPT !.name = name, !.enabled = on, !.action = a,
                          !.nodeItems = items, !.node = node,
                          !.durations = durations, !.duration = duration]
           cs == AsRead(r)
<1>1. g \in GoodForm /\ g.checked = {} /\ g.regexp = {}
  BY ClearedIsGood
<1>2. g \in Form /\ g.nodeItems \in Seq(Nodes) /\ g.durations \in Seq(DurationTexts)
      /\ g.node \in DOMAIN g.nodeItems /\ g.duration \in DOMAIN g.durations
      /\ g.text["dest.ip"] = Empty
  BY <1>1, FormFields DEF GoodForm
<1>3. on \in BOOLEAN /\ a \in Actions /\ r.duration \in DurationTexts /\ name \in Names
  BY RuleParts, NamesAssumption
<1>4. Loaded(f, n, x, r) = WithCriteria(h, cs)
  BY Zenon DEF Loaded
<1>5. cs \in Seq(Criterion)
  BY AsReadCriteria
<1> HIDE DEF g
<1>6. items \in Seq(Nodes) /\ node \in DOMAIN items /\ items[node] = n
  BY <1>2, ChosenIsThere
<1>7. durations \in Seq(DurationTexts) /\ duration \in DOMAIN durations
      /\ durations[duration] = r.duration
  BY <1>2, <1>3, ChosenIsThere
<1> HIDE DEF pos, d, name, on, a, items, node, durations, duration, cs
<1>8. node \in Nat /\ duration \in Nat
  BY <1>6, <1>7, PlaceInSeq
<1>9. h \in Form
  BY <1>2, <1>3, <1>6, <1>7, <1>8 DEF Form
<1>10. /\ h.name = name /\ h.enabled = on /\ h.action = a /\ h.nodeItems = items
       /\ h.node = node /\ h.durations = durations /\ h.duration = duration
       /\ h.checked = g.checked /\ h.text = g.text
  BY <1>2 DEF Form
<1> HIDE DEF h
<1>11. h \in GoodForm
  BY <1>2, <1>6, <1>7, <1>9, <1>10 DEF GoodForm
<1> DEFINE l == WithCriteria(h, cs)
<1>12. /\ l \in GoodForm /\ l.checked = h.checked \cup FieldsOf(cs)
       /\ \A field \in FieldsOf(cs) \ {"dest.ip"} : l.text[field] = LastFor(cs, field).data
       /\ \A field \in FieldsOf(cs) \cap Processes :
            field \in l.regexp <=> LastFor(cs, field).type = "regexp"
       /\ l.name = h.name /\ l.enabled = h.enabled /\ l.action = h.action
       /\ l.nodeItems = h.nodeItems /\ l.node = h.node
       /\ l.durations = h.durations /\ l.duration = h.duration
  BY <1>5, <1>11, WithCriteriaIs
<1> HIDE DEF l
<1>13. l.checked = FieldsOf(cs)
  BY <1>1, <1>10, <1>12
<1>14. l.enabled = on /\ l.action = a /\ l.durations[l.duration] = r.duration
       /\ l.name = name /\ NodeOf(l) = n
  BY <1>6, <1>7, <1>10, <1>12 DEF NodeOf
<1>15. Shows(l, r)
  BY <1>12, <1>13, <1>14 DEF Shows, cs, on, a
<1> QED
  BY <1>4, <1>12, <1>14, <1>15 DEF l, name

LEMMA NameIsThere ==
  ASSUME NEW f \in GoodForm, f.checked # {}
  PROVE  /\ NameOf(f) \in Names
         /\ f.name \in Names => NameOf(f) = f.name
<1>1. "" \notin Names /\ Slug \in [Actions \X (Words \cup {""}) -> Names]
  BY NamesAssumption
<1>2. f.name \in Names \cup {""} /\ f.action \in Actions
  BY FormFields
<1> DEFINE cs == Parsed(RuleOf(f))
<1>3. RuleOf(f) \in Rule /\ RuleOf(f).criteria # <<>>
  BY RuleOfForm
<1>4. cs \in Seq(Criterion) /\ 1 \in DOMAIN cs
  <2>1. RuleOf(f).criteria \in Seq(Criterion)
    BY <1>3, RuleParts
  <2>2. 1 \in DOMAIN RuleOf(f).criteria
    BY <1>3, <2>1
  <2> QED
    BY <1>3, <2>2, ParsedCriteria
<1> HIDE DEF cs
<1>5. HintOf(cs) \in Words \cup {""}
  <2> DEFINE paths == {i \in DOMAIN cs : cs[i].operand = "process.path"}
             i == IF paths = {} THEN 1 ELSE Min(paths)
  <2>1. HintOf(cs) = cs[i].data.word
    BY Zenon DEF HintOf
  <2>2. i \in DOMAIN cs
    <3>1. paths \in SUBSET Nat
      BY <1>4
    <3>2. \A j \in paths : j \in DOMAIN cs
      OBVIOUS
    <3> HIDE DEF paths
    <3>3. paths # {} => Min(paths) \in paths
      BY <3>1, LeastOf
    <3> QED
      BY <1>4, <3>2, <3>3
  <2> HIDE DEF i
  <2>3. cs[i].data \in Texts
    BY <1>4, <2>2, CriterionParts
  <2>4. \A t \in Texts : t.word \in Words \cup {""}
    BY DEF Texts
  <2> QED
    BY <2>1, <2>3, <2>4
<1>6. Slug[f.action, HintOf(cs)] \in Names
  BY <1>1, <1>2, <1>5
<1> QED
  BY <1>1, <1>2, <1>6 DEF NameOf, cs
-----------------------------------------------------------------------------
(* The rules of daemons and prompts.                                       *)

LEMMA BaseIsCriterion ==
  ASSUME NEW conn \in Connections, NEW chosen \in Asked \cup DefaultTargets \cup {"dest.port", "user.id"}
  PROVE  Base(conn, chosen) \in Criterion
<1> DEFINE type == CASE chosen = "dest.ip" -> "network" [] OTHER -> "simple"
           operand == IF chosen = "process.id" THEN "process.path" ELSE chosen
           data == IF chosen = "process.command" THEN Empty
                   ELSE Recode(Plain(conn.word[chosen]))
           off == FALSE
<1>1. conn.word[chosen] \in Words \cup {""}
  BY ConnectionsAssumption
<1>2. data \in Texts
  BY <1>1, TextsAre, RecodeIs
<1>3. type \in OperatorTypes
  BY DEF OperatorTypes
<1>4. operand \in Operands
  <2>1. "process.path" \in Fields /\ "process.command" \in Fields /\ "dest.ip" \in Fields
        /\ "dest.port" \in Fields /\ "user.id" \in Fields
    <3>1. /\ FieldOrder[1] = "process.path" /\ FieldOrder[2] = "process.command"
          /\ FieldOrder[3] = "user.id" /\ FieldOrder[5] = "dest.port"
          /\ FieldOrder[8] = "dest.ip"
      BY DEF FieldOrder
    <3>2. \A i \in 1 .. 12 : FieldOrder[i] \in Fields
      BY FieldsAre
    <3> QED
      BY <3>1, <3>2
  <2>2. chosen \in Fields
    BY <2>1, BoundsAssumption DEF DefaultTargets
  <2> QED
    BY <2>1, <2>2, FieldsAre
<1>5. off \in BOOLEAN
  OBVIOUS
<1>6. Base(conn, chosen) = [type |-> type, operand |-> operand, data |-> data, sensitive |-> off]
  BY DEF Base
<1> HIDE DEF type, operand, data, off
<1> QED
  BY <1>2, <1>3, <1>4, <1>5, <1>6 DEF Criterion

LEMMA DestinationIsCriterion ==
  ASSUME NEW conn \in Connections, NEW what \in DestinationItems
  PROVE  DestinationOf(conn, what) \in Criterion
<1> DEFINE type == IF what = "wildcard" THEN "regexp" ELSE "network"
           operand == CASE what = "wildcard" -> "dest.host"
                        [] what = "network" -> "dest.network"
                        [] OTHER -> "dest.ip"
           word == CASE what = "wildcard" -> conn.wildcard
                     [] what = "host" -> conn.host
                     [] OTHER -> conn.word["dest.ip"]
           data == Recode(Plain(word))
           off == FALSE
<1>1. conn.wildcard \in Words /\ conn.host \in Words /\ conn.word["dest.ip"] \in Words \cup {""}
  <2>1. "dest.ip" \in DefaultTargets
    BY DEF DefaultTargets
  <2> QED
    BY <2>1, ConnectionsAssumption
<1>2. word \in Words \cup {""}
  BY <1>1
<1>3. data \in Texts
  <2> HIDE DEF word
  <2> QED
    BY <1>2, TextsAre, RecodeIs
<1>4. type \in OperatorTypes
  BY DEF OperatorTypes
<1>5. operand \in Operands
  <2>1. FieldOrder[7] = "dest.host" /\ FieldOrder[8] = "dest.ip"
    BY DEF FieldOrder
  <2>2. "dest.host" \in Fields /\ "dest.ip" \in Fields
    BY <2>1, FieldsAre
  <2> QED
    BY <2>2 DEF Operands
<1>6. off \in BOOLEAN
  OBVIOUS
<1>7. DestinationOf(conn, what) =
        [type |-> type, operand |-> operand, data |-> data, sensitive |-> off]
  BY DEF DestinationOf
<1> HIDE DEF type, operand, data, off
<1> QED
  BY <1>3, <1>4, <1>5, <1>6, <1>7 DEF Criterion

LEMMA PromptMakesRules ==
  ASSUME NEW conn \in Connections, NEW chosen \in Asked, NEW details \in Details,
         NEW what \in DestinationItems
  PROVE  PromptRule(conn, chosen, details, what, "allow", "always") \in Rule
<1> DEFINE base == Base(conn, chosen)
           twice == Recode(base.data)
           again == [base EXCEPT !.data = twice]
           Detail(field) == IF field = "dest.ip" THEN DestinationOf(conn, what)
                                                 ELSE Base(conn, field)
           asked == <<"dest.ip", "dest.port", "user.id">>
           S == details \ {base.operand}
           more == Picked(asked, S)
           cs == IF details = {} THEN <<base>>
                 ELSE Append([i \in DOMAIN more |-> Detail(more[i])], again)
           list == details # {}
           on == TRUE
           off == FALSE
           a == "allow"
           duration == "always"
<1>1. base \in Criterion
  BY BaseIsCriterion
<1>2. ASSUME NEW field \in details PROVE Detail(field) \in Criterion
  <2>1. field \in {"dest.ip", "dest.port", "user.id"}
    BY DEF Details
  <2>2. CASE field = "dest.ip"
    BY <2>2, DestinationIsCriterion
  <2>3. CASE field # "dest.ip"
    BY <2>1, <2>3, BaseIsCriterion
  <2> QED
    BY <2>2, <2>3
<1>3. PICK n \in Nat : DOMAIN asked = 1 .. n
  <2>1. DOMAIN asked = 1 .. 3
    OBVIOUS
  <2> QED
    BY <2>1
<1>4. on \in BOOLEAN /\ off \in BOOLEAN /\ a \in Actions /\ duration \in DurationTexts
  BY ItemsAssumption DEF Actions
<1>5. PICK l \in BOOLEAN : l = list
  BY Zenon
<1>6. PromptRule(conn, chosen, details, what, "allow", "always") =
        [enabled |-> on, action |-> a, duration |-> duration, list |-> l,
         sensitive |-> off, criteria |-> cs]
  BY <1>5, Zenon DEF PromptRule
<1>9. again \in Criterion
  <2>1. base.data \in Texts
    BY <1>1 DEF Criterion
  <2>2. twice \in Texts
    BY <2>1, RecodeIs
  <2> HIDE DEF base, twice
  <2> QED
    BY <1>1, <2>2 DEF Criterion
<1> HIDE DEF base, twice, again, asked, S, list, on, off, a, duration
<1>7. more \in Seq(S) /\ Len(more) \in Nat
  BY <1>3, PickedIsPart
<1> HIDE DEF more, Detail
<1>8. cs \in Seq(Criterion)
  <2>1. CASE details = {}
    BY <1>1, <2>1
  <2>2. CASE details # {}
    <3> DEFINE these == [i \in DOMAIN more |-> Detail(more[i])]
    <3>1. DOMAIN more = 1 .. Len(more) /\ \A i \in 1 .. Len(more) : more[i] \in details
      BY <1>7 DEF S
    <3>2. these \in [1 .. Len(more) -> Criterion]
      BY <1>2, <3>1
    <3>3. \A m \in Nat : \A s \in [1 .. m -> Criterion] : s \in Seq(Criterion)
      OBVIOUS
    <3>4. these \in Seq(Criterion)
      BY <1>7, <3>2, <3>3
    <3> HIDE DEF these
    <3>5. Append(these, again) \in Seq(Criterion)
      BY <1>9, <3>4
    <3>6. cs = Append(these, again)
      BY <2>2 DEF these
    <3> QED
      BY <3>5, <3>6
  <2> QED
    BY <2>1, <2>2
<1> HIDE DEF cs
<1> QED
  BY <1>4, <1>6, <1>8, IsRule

LEMMA DefaultsAreRules ==
  ASSUME NEW conn \in Connections, NEW chosen \in DefaultTargets
  PROVE  DefaultRule(conn, chosen, "allow", "always") \in Rule
<1> DEFINE base == Base(conn, chosen)
           data == Plain(conn.word[chosen])
           c == [base EXCEPT !.data = data]
           cs == <<c>>
           on == TRUE
           off == FALSE
           a == "allow"
           duration == "always"
<1>1. base \in Criterion
  BY BaseIsCriterion
<1>2. conn.word[chosen] \in Words \cup {""}
  BY ConnectionsAssumption
<1>3. data \in Texts
  BY <1>2, TextsAre
<1>4. on \in BOOLEAN /\ off \in BOOLEAN /\ a \in Actions /\ duration \in DurationTexts
  BY ItemsAssumption DEF Actions
<1>5. DefaultRule(conn, chosen, "allow", "always") =
        [enabled |-> on, action |-> a, duration |-> duration, list |-> off,
         sensitive |-> off, criteria |-> cs]
  BY DEF DefaultRule
<1> HIDE DEF base, data, on, off, a, duration
<1>6. c \in Criterion
  BY <1>1, <1>3 DEF Criterion
<1>7. cs \in Seq(Criterion)
  BY <1>6
<1> HIDE DEF cs
<1> QED
  BY <1>4, <1>5, <1>7, IsRule
-----------------------------------------------------------------------------
(* The invariant: the form is one of the dialog's, it has the name and the *)
(* node of the rule being edited and, until it is touched, shows that      *)
(* rule; and the rules it stored are those of forms it accepts.            *)

MadeByForm(r) == \E f \in GoodForm : Accepted(f) /\ r = Recoded(RuleOf(f))

RulesFit ==
  /\ rules \in [Nodes -> [Names -> Rule \cup {NoRule}]]
  /\ nodes \in SUBSET Nodes /\ made \in SUBSET (Nodes \X Names)
  /\ \A n \in Nodes, x \in Names : <<n, x>> \in made => MadeByForm(rules[n][x])

DialogFits ==
  /\ form \in GoodForm \cup {NoForm} /\ open \in BOOLEAN /\ (open => form # NoForm)
  /\ edited \in (Nodes \X Names) \cup {<<>>}
  /\ edited # <<>> => /\ form # NoForm /\ NodeOf(form) = edited[1]
                      /\ form.name = Reencoded[edited[2]]
  /\ loaded \in Rule \cup {NoRule}
  /\ loaded # NoRule => edited # <<>> /\ Shows(form, loaded)
  /\ own \in BOOLEAN /\ (own => loaded # NoRule /\ MadeByForm(loaded))

CountsFit == outside \in 0 .. MaxOutside /\ events \in 0 .. MaxEvents

FormFits == RulesFit /\ DialogFits /\ CountsFit

LEMMA EventCounts ==
  ASSUME CountsFit, Event, outside' = outside \/ Outside
  PROVE  CountsFit'
<1>1. MaxOutside \in Nat /\ MaxEvents \in Nat
  BY BoundsAssumption
<1> QED
  BY <1>1 DEF CountsFit, Event, Outside

LEMMA InitFits ==
  ASSUME RuleFormInit
  PROVE  FormFits
<1>1. RulesFit
  BY DEF RuleFormInit, RulesFit
<1>2. DialogFits
  <2>1. own \in BOOLEAN /\ ~own /\ open \in BOOLEAN /\ ~open
    BY DEF RuleFormInit
  <2>2. form = NoForm /\ edited = <<>> /\ loaded = NoRule
    BY DEF RuleFormInit
  <2> QED
    BY <2>1, <2>2 DEF DialogFits
<1>3. CountsFit
  BY BoundsAssumption DEF RuleFormInit, CountsFit
<1> QED
  BY <1>1, <1>2, <1>3 DEF FormFits

\* A rule comes or goes outside the dialog.
LEMMA OutsideFits ==
  ASSUME FormFits, NEW n \in Nodes, NEW x \in Names, NEW r \in Rule \cup {NoRule}, Outside,
         rules' = [rules EXCEPT ![n][x] = r], made' = made \ {<<n, x>>},
         nodes' \in SUBSET Nodes, UNCHANGED <<form, open, editing>>
  PROVE  FormFits'
<1>1. RulesFit'
  <2>1. rules \in [Nodes -> [Names -> Rule \cup {NoRule}]]
        /\ made \in SUBSET (Nodes \X Names)
        /\ \A m \in Nodes, y \in Names : <<m, y>> \in made => MadeByForm(rules[m][y])
    BY DEF FormFits, RulesFit
  <2>2. rules' \in [Nodes -> [Names -> Rule \cup {NoRule}]]
    BY <2>1
  <2>3. made' \in SUBSET (Nodes \X Names)
    BY <2>1
  <2>4. ASSUME NEW m \in Nodes, NEW y \in Names, <<m, y>> \in made'
        PROVE  MadeByForm(rules'[m][y])
    <3>1. <<m, y>> \in made /\ <<m, y>> # <<n, x>>
      BY <2>4
    <3>2. rules'[m][y] = rules[m][y]
      BY <2>1, <3>1
    <3> QED
      BY <2>1, <3>1, <3>2
  <2>5. \A m \in Nodes, y \in Names : <<m, y>> \in made' => MadeByForm(rules'[m][y])
    BY <2>4
  <2> QED
    BY <2>2, <2>3, <2>5 DEF RulesFit, MadeByForm
<1>2. DialogFits'
  <2>1. UNCHANGED <<form, open, edited, loaded, own>> /\ DialogFits
    BY DEF editing, FormFits
  <2> QED
    BY <2>1 DEF DialogFits, NodeOf
<1>3. CountsFit'
  BY EventCounts DEF FormFits, Outside
<1> QED
  BY <1>1, <1>2, <1>3 DEF FormFits

\* The rules stay, and the dialog changes.
LEMMA DialogStep ==
  ASSUME FormFits, Action, UNCHANGED <<rules, nodes, made>>, DialogFits'
  PROVE  FormFits'
<1>1. RulesFit'
  BY DEF FormFits, RulesFit
<1>2. CountsFit'
  BY EventCounts DEF FormFits, Action
<1> QED
  BY <1>1, <1>2 DEF FormFits

LEMMA GoodIsAForm ==
  ASSUME NEW f \in GoodForm
  PROVE  f # NoForm
<1>1. PICK x, nodeItems, pos, all, on, sensitive, a, durations, till, boxes, text, r :
        f = [name |-> x, nodeItems |-> nodeItems, node |-> pos, all |-> all, enabled |-> on,
             sensitive |-> sensitive, action |-> a, durations |-> durations,
             duration |-> till, checked |-> boxes, text |-> text, regexp |-> r]
  BY FormIsItsFields
<1>2. "name" \in DOMAIN f
  BY <1>1
<1>3. DOMAIN NoForm = {}
  BY DEF NoForm
<1> QED
  BY <1>2, <1>3

LEMMA TouchFits ==
  ASSUME FormFits, NEW g \in GoodForm, NEW same \in BOOLEAN, Touch(g, same),
         same => g.name = form.name /\ NodeOf(g) = NodeOf(form)
  PROVE  FormFits'
<1>1. /\ Action /\ open /\ form' = g /\ edited' = (IF same THEN edited ELSE <<>>)
      /\ loaded' = NoRule /\ own' = FALSE /\ UNCHANGED <<rules, nodes, open, made>>
  BY DEF Touch
<1>2. g # NoForm
  BY GoodIsAForm
<1>3. DialogFits
  BY DEF FormFits
<1>4. DialogFits'
  <2>1. edited' \in (Nodes \X Names) \cup {<<>>}
    BY <1>1, <1>3 DEF DialogFits
  <2>2. edited' # <<>> => NodeOf(g) = edited'[1] /\ g.name = Reencoded[edited'[2]]
    BY <1>1, <1>3 DEF DialogFits
  <2>3. open \in BOOLEAN /\ open' = open
    BY <1>1, <1>3 DEF DialogFits
  <2>4. own' \in BOOLEAN /\ ~own'
    BY <1>1
  <2> QED
    BY <1>1, <1>2, <2>1, <2>2, <2>3, <2>4 DEF DialogFits, NodeOf
<1> QED
  BY <1>1, <1>4, DialogStep

LEMMA TheFormIsGood ==
  ASSUME FormFits
  PROVE  TheForm \in GoodForm
<1>1. nodes \in SUBSET Nodes /\ form \in GoodForm \cup {NoForm}
  BY DEF FormFits, RulesFit, DialogFits
<1>2. NewForm \in GoodForm
  BY <1>1, NewFormIsGood
<1> QED
  BY <1>1, <1>2 DEF TheForm

LEMMA NewFits ==
  ASSUME FormFits, New
  PROVE  FormFits'
<1>1. TheForm \in GoodForm
  BY TheFormIsGood
<1>2. TheForm # NoForm
  BY <1>1, GoodIsAForm
<1>3. /\ Action /\ form' = TheForm /\ open' = TRUE /\ edited' = <<>> /\ loaded' = NoRule
      /\ own' = FALSE /\ UNCHANGED <<rules, nodes, made>>
  BY DEF New
<1>4. own' \in BOOLEAN /\ ~own' /\ open' \in BOOLEAN
  BY <1>3
<1> HIDE DEF TheForm
<1>5. DialogFits'
  BY <1>1, <1>2, <1>3, <1>4 DEF DialogFits
<1> QED
  BY <1>3, <1>5, DialogStep

LEMMA EditFits ==
  ASSUME FormFits, NEW n \in Nodes, NEW x \in Names, Edit(n, x)
  PROVE  FormFits'
<1> DEFINE r == rules[n][x]
           g == Loaded(TheForm, n, x, r)
<1>1. RulesFit
  BY DEF FormFits
<1>2. r \in Rule
  BY <1>1 DEF Edit, RulesFit
<1>3. TheForm \in GoodForm
  BY TheFormIsGood
<1>4. /\ Action /\ r # NoRule /\ form' = g /\ open' = TRUE /\ edited' = <<n, x>>
      /\ loaded' = r /\ own' = (<<n, x>> \in made) /\ UNCHANGED <<rules, nodes, made>>
  BY DEF Edit
<1>5. <<n, x>> \in made => MadeByForm(r)
  BY <1>1 DEF RulesFit
<1> HIDE DEF r, g
<1>6. g \in GoodForm /\ Shows(g, r) /\ g.name = Reencoded[x] /\ NodeOf(g) = n
  BY <1>2, <1>3, LoadedIs DEF g
<1>7. g # NoForm
  BY <1>6, GoodIsAForm
<1>8. own' \in BOOLEAN /\ (own' => MadeByForm(r))
  <2>1. CASE <<n, x>> \in made
    <3>1. own' = TRUE
      BY <1>4, <2>1
    <3> QED
      BY <1>5, <2>1, <3>1
  <2>2. CASE <<n, x>> \notin made
    <3>1. (<<n, x>> \in made) = FALSE
      BY <2>2
    <3>2. own' = (<<n, x>> \in made)
      BY <1>4, Zenon
    <3>3. own' = FALSE
      BY <3>1, <3>2, Zenon
    <3> QED
      BY <3>3
  <2> QED
    BY <2>1, <2>2
<1>9. edited' \in (Nodes \X Names) \cup {<<>>} /\ edited'[1] = n /\ edited'[2] = x
      /\ edited' # <<>>
  BY <1>4
<1>10. DialogFits'
  <2>1. (form \in GoodForm \cup {NoForm} /\ open \in BOOLEAN /\ (open => form # NoForm))'
    BY <1>4, <1>6, <1>7
  <2>2. (edited # <<>> => /\ form # NoForm /\ NodeOf(form) = edited[1]
                          /\ form.name = Reencoded[edited[2]])'
    BY <1>4, <1>6, <1>7, <1>9 DEF NodeOf
  <2>3. (loaded \in Rule \cup {NoRule})'
    BY <1>2, <1>4 DEF r
  <2>4. (loaded # NoRule => edited # <<>> /\ Shows(form, loaded))'
    BY <1>4, <1>6, <1>9 DEF Shows
  <2>5. (own \in BOOLEAN /\ (own => loaded # NoRule /\ MadeByForm(loaded)))'
    BY <1>4, <1>8 DEF MadeByForm
  <2> QED
    BY <1>9, <2>1, <2>2, <2>3, <2>4, <2>5 DEF DialogFits
<1> QED
  BY <1>4, <1>10, DialogStep
\* A form of which only boxes, texts or the action have changed.
LEMMA ChangedForm ==
  ASSUME NEW f \in GoodForm, NEW g \in Form, g.name = f.name, g.nodeItems = f.nodeItems,
         g.node = f.node, g.durations = f.durations, g.duration = f.duration,
         g.text["dest.ip"] = Empty
  PROVE  g \in GoodForm /\ NodeOf(g) = NodeOf(f)
<1>1. f.node \in DOMAIN f.nodeItems /\ f.duration \in DOMAIN f.durations
  BY DEF GoodForm
<1>2. g.node \in DOMAIN g.nodeItems /\ g.duration \in DOMAIN g.durations
  BY <1>1
<1>3. g \in GoodForm
  BY <1>2 DEF GoodForm
<1> QED
  BY <1>3 DEF NodeOf

LEMMA OpenFormIsGood ==
  ASSUME FormFits, open
  PROVE  form \in GoodForm
BY DEF FormFits, DialogFits

LEMMA CheckFits ==
  ASSUME FormFits, open, NEW field \in Checkable, Check(field)
  PROVE  FormFits'
<1>1. field \in Fields
  BY BoundsAssumption
<1>2. form \in GoodForm
  BY OpenFormIsGood
<1> DEFINE on == TRUE
<1>3. on \in BOOLEAN
  OBVIOUS
<1>4. form \in Form /\ form.text["dest.ip"] = Empty
      /\ form.checked \in SUBSET Fields /\ form.regexp \in SUBSET Processes
  BY <1>2, FormFields DEF GoodForm
<1>5. ASSUME Touch([form EXCEPT !.checked = Clicked(@, field)], TRUE)
      PROVE  FormFits'
  <2> DEFINE boxes == Clicked(form.checked, field)
             g == [form EXCEPT !.checked = boxes]
  <2>1. boxes \in SUBSET Fields
    BY <1>1, <1>4 DEF Clicked
  <2>2. Touch(g, on)
    BY <1>5
  <2> HIDE DEF boxes, on
  <2>3. g \in Form
    BY <1>4, <2>1 DEF Form
  <2>4. /\ g.name = form.name /\ g.nodeItems = form.nodeItems /\ g.node = form.node
        /\ g.durations = form.durations /\ g.duration = form.duration /\ g.text = form.text
    BY <1>4 DEF Form
  <2> HIDE DEF g
  <2>5. g \in GoodForm /\ NodeOf(g) = NodeOf(form)
    BY <1>2, <1>4, <2>3, <2>4, ChangedForm
  <2> QED
    BY <1>3, <2>2, <2>4, <2>5, TouchFits
<1>6. ASSUME field \in Processes, Touch([form EXCEPT !.regexp = Clicked(@, field)], TRUE)
      PROVE  FormFits'
  <2> DEFINE boxes == Clicked(form.regexp, field)
             g == [form EXCEPT !.regexp = boxes]
  <2>1. boxes \in SUBSET Processes
    BY <1>4, <1>6 DEF Clicked
  <2>2. Touch(g, on)
    BY <1>6
  <2> HIDE DEF boxes, on
  <2>3. g \in Form
    BY <1>4, <2>1 DEF Form
  <2>4. /\ g.name = form.name /\ g.nodeItems = form.nodeItems /\ g.node = form.node
        /\ g.durations = form.durations /\ g.duration = form.duration /\ g.text = form.text
    BY <1>4 DEF Form
  <2> HIDE DEF g
  <2>5. g \in GoodForm /\ NodeOf(g) = NodeOf(form)
    BY <1>2, <1>4, <2>3, <2>4, ChangedForm
  <2> QED
    BY <1>3, <2>2, <2>4, <2>5, TouchFits
<1> QED
  BY <1>5, <1>6, Zenon DEF Check

LEMMA FillFits ==
  ASSUME FormFits, open, NEW field \in Checkable, NEW w \in Typed[field], Fill(field, w)
  PROVE  FormFits'
<1>1. field \in Fields /\ w \in Words /\ field # "dest.ip"
  BY BoundsAssumption
<1>2. form \in GoodForm
  BY OpenFormIsGood
<1>3. form \in Form /\ form.text["dest.ip"] = Empty
      /\ form.checked \in SUBSET Fields /\ form.text \in [Fields -> Texts]
  BY <1>2, FormFields DEF GoodForm
<1> DEFINE on == TRUE
           boxes == form.checked \cup {field}
           text == [form.text EXCEPT ![field] = Plain(w)]
           g == [form EXCEPT !.checked = boxes, !.text = text]
<1>4. on \in BOOLEAN
  OBVIOUS
<1>5. Touch(g, on)
  BY DEF Fill
<1>6. Plain(w) \in Texts
  BY <1>1, TextsAre
<1>7. boxes \in SUBSET Fields /\ text \in [Fields -> Texts] /\ text["dest.ip"] = Empty
  BY <1>1, <1>3, <1>6, FieldsAre
<1> HIDE DEF boxes, text, on
<1>8. g \in Form
  BY <1>3, <1>7 DEF Form
<1>9. /\ g.name = form.name /\ g.nodeItems = form.nodeItems /\ g.node = form.node
      /\ g.durations = form.durations /\ g.duration = form.duration /\ g.text = text
  BY <1>3 DEF Form
<1> HIDE DEF g
<1>10. g \in GoodForm /\ NodeOf(g) = NodeOf(form)
  BY <1>2, <1>7, <1>8, <1>9, ChangedForm
<1> QED
  BY <1>4, <1>5, <1>9, <1>10, TouchFits

LEMMA ChooseFits ==
  ASSUME FormFits, open, Choose
  PROVE  FormFits'
<1>1. form \in GoodForm
  BY OpenFormIsGood
<1>2. form \in Form /\ form.text["dest.ip"] = Empty /\ form.node \in DOMAIN form.nodeItems
      /\ form.duration \in DOMAIN form.durations
  BY <1>1 DEF GoodForm
<1>3. form.nodeItems \in Seq(Nodes) /\ form.durations \in Seq(DurationTexts)
  BY <1>1, FormFields
<1> DEFINE yes == TRUE
           no == FALSE
<1>4. yes \in BOOLEAN /\ no \in BOOLEAN /\ ~no
  OBVIOUS
\* Four of the changes leave the name, the node and the duration.
<1>5. ASSUME NEW g \in Form, Touch(g, TRUE), g.name = form.name,
             g.nodeItems = form.nodeItems, g.node = form.node,
             g.durations = form.durations, g.duration = form.duration, g.text = form.text
      PROVE  FormFits'
  <2>1. g \in GoodForm /\ NodeOf(g) = NodeOf(form)
    BY <1>1, <1>2, <1>5, ChangedForm
  <2>2. Touch(g, yes)
    BY <1>5
  <2> HIDE DEF yes
  <2> QED
    BY <1>4, <1>5, <2>1, <2>2, TouchFits
<1>6. ASSUME NEW on \in BOOLEAN, Touch([form EXCEPT !.enabled = on], TRUE)
      PROVE  FormFits'
  <2> DEFINE g == [form EXCEPT !.enabled = on]
  <2>1. g \in Form
    BY <1>2 DEF Form
  <2>2. /\ g.name = form.name /\ g.nodeItems = form.nodeItems /\ g.node = form.node
        /\ g.durations = form.durations /\ g.duration = form.duration /\ g.text = form.text
    BY <1>2 DEF Form
  <2> HIDE DEF yes, no
  <2>3. Touch(g, TRUE)
    BY <1>6
  <2> HIDE DEF g
  <2> QED
    BY <1>5, <2>1, <2>2, <2>3
<1>7. ASSUME NEW on \in BOOLEAN, Touch([form EXCEPT !.sensitive = on], TRUE)
      PROVE  FormFits'
  <2> DEFINE g == [form EXCEPT !.sensitive = on]
  <2>1. g \in Form
    BY <1>2 DEF Form
  <2>2. /\ g.name = form.name /\ g.nodeItems = form.nodeItems /\ g.node = form.node
        /\ g.durations = form.durations /\ g.duration = form.duration /\ g.text = form.text
    BY <1>2 DEF Form
  <2>3. Touch(g, TRUE)
    BY <1>7
  <2> HIDE DEF g
  <2> QED
    BY <1>5, <2>1, <2>2, <2>3
<1>8. ASSUME NEW on \in BOOLEAN, Touch([form EXCEPT !.all = on], TRUE)
      PROVE  FormFits'
  <2> DEFINE g == [form EXCEPT !.all = on]
  <2>1. g \in Form
    BY <1>2 DEF Form
  <2>2. /\ g.name = form.name /\ g.nodeItems = form.nodeItems /\ g.node = form.node
        /\ g.durations = form.durations /\ g.duration = form.duration /\ g.text = form.text
    BY <1>2 DEF Form
  <2>3. Touch(g, TRUE)
    BY <1>8
  <2> HIDE DEF g
  <2> QED
    BY <1>5, <2>1, <2>2, <2>3
<1>9. ASSUME NEW a \in Actions, Touch([form EXCEPT !.action = a], TRUE)
      PROVE  FormFits'
  <2> DEFINE g == [form EXCEPT !.action = a]
  <2>1. g \in Form
    BY <1>2 DEF Form
  <2>2. /\ g.name = form.name /\ g.nodeItems = form.nodeItems /\ g.node = form.node
        /\ g.durations = form.durations /\ g.duration = form.duration /\ g.text = form.text
    BY <1>2 DEF Form
  <2>3. Touch(g, TRUE)
    BY <1>9
  <2> HIDE DEF g
  <2> QED
    BY <1>5, <2>1, <2>2, <2>3
<1>10. ASSUME NEW i \in DOMAIN form.durations, Touch([form EXCEPT !.duration = i], TRUE)
       PROVE  FormFits'
  <2> DEFINE g == [form EXCEPT !.duration = i]
  <2>1. i \in Nat
    BY <1>3, PlaceInSeq
  <2>2. g \in Form
    BY <1>2, <2>1 DEF Form
  <2>3. /\ g.name = form.name /\ g.nodeItems = form.nodeItems /\ g.node = form.node
        /\ g.durations = form.durations /\ g.duration = i /\ g.text = form.text
    BY <1>2 DEF Form
  <2>4. Touch(g, yes)
    BY <1>10
  <2> HIDE DEF g, yes
  <2>5. g \in GoodForm
    BY <1>2, <2>2, <2>3 DEF GoodForm
  <2>6. NodeOf(g) = NodeOf(form)
    BY <2>3 DEF NodeOf
  <2> QED
    BY <1>4, <2>3, <2>4, <2>5, <2>6, TouchFits
<1>11. ASSUME NEW i \in DOMAIN form.nodeItems, Touch([form EXCEPT !.node = i], FALSE)
       PROVE  FormFits'
  <2> DEFINE g == [form EXCEPT !.node = i]
  <2>1. i \in Nat
    BY <1>3, PlaceInSeq
  <2>2. g \in Form
    BY <1>2, <2>1 DEF Form
  <2>3. /\ g.nodeItems = form.nodeItems /\ g.node = i
        /\ g.durations = form.durations /\ g.duration = form.duration /\ g.text = form.text
    BY <1>2 DEF Form
  <2>4. Touch(g, no)
    BY <1>11
  <2> HIDE DEF g, no
  <2>5. g \in GoodForm
    BY <1>2, <2>2, <2>3 DEF GoodForm
  <2> QED
    BY <1>4, <2>4, <2>5, TouchFits
<1>12. ASSUME NEW x \in TypedNames \cup {""}, Touch([form EXCEPT !.name = x], FALSE)
       PROVE  FormFits'
  <2> DEFINE g == [form EXCEPT !.name = x]
  <2>1. x \in Names \cup {""}
    BY BoundsAssumption
  <2>2. g \in Form
    BY <1>2, <2>1 DEF Form
  <2>3. /\ g.nodeItems = form.nodeItems /\ g.node = form.node
        /\ g.durations = form.durations /\ g.duration = form.duration /\ g.text = form.text
    BY <1>2 DEF Form
  <2>4. Touch(g, no)
    BY <1>12
  <2> HIDE DEF g, no
  <2>5. g \in GoodForm
    BY <1>2, <2>2, <2>3 DEF GoodForm
  <2> QED
    BY <1>4, <2>4, <2>5, TouchFits
<1> QED
  BY <1>6, <1>7, <1>8, <1>9, <1>10, <1>11, <1>12, Zenon DEF Choose

LEMMA ResetFits ==
  ASSUME FormFits, open, ResetForm
  PROVE  FormFits'
<1> DEFINE no == FALSE
           g == Cleared(form)
<1>1. g \in GoodForm
  BY OpenFormIsGood, ClearedIsGood
<1>2. Touch(g, no)
  BY DEF ResetForm
<1>3. no \in BOOLEAN /\ ~no
  OBVIOUS
<1> HIDE DEF no, g
<1> QED
  BY <1>1, <1>2, <1>3, TouchFits
\* What applying the form does.
LEMMA ApplyStores ==
  ASSUME FormFits, Apply
  PROVE  /\ form \in GoodForm /\ Accepted(form) /\ Recoded(RuleOf(form)) \in Rule
         /\ NameOf(form) \in Names /\ Reencoded[NameOf(form)] \in Names
         /\ edited # <<>> => NameOf(form) = Reencoded[edited[2]]
         /\ Targets(form) \in SUBSET Nodes
         /\ \A n \in Nodes, x \in Names :
              rules'[n][x] = IF n \in Targets(form) /\ x = Reencoded[NameOf(form)]
                             THEN Recoded(RuleOf(form)) ELSE rules[n][x]
<1>1. open /\ Accepted(form)
  BY DEF Apply
<1>2. form \in GoodForm
  BY <1>1, OpenFormIsGood
<1>3. form.checked # {}
  BY <1>1 DEF Accepted
<1>4. Recoded(RuleOf(form)) \in Rule
  BY <1>2, <1>3, RuleOfForm, RecodedIs
<1>5. NameOf(form) \in Names /\ (form.name \in Names => NameOf(form) = form.name)
  BY <1>2, <1>3, NameIsThere
<1>6. edited # <<>> => Reencoded[edited[2]] \in Names /\ form.name = Reencoded[edited[2]]
  <2>1. edited # <<>> => edited[2] \in Names /\ form.name = Reencoded[edited[2]]
    BY DEF FormFits, DialogFits
  <2> QED
    BY <2>1, NamesAssumption
<1>11. Reencoded[NameOf(form)] \in Names
  BY <1>5, NamesAssumption
<1>7. Targets(form) \in SUBSET Nodes
  <2>1. nodes \in SUBSET Nodes
    BY DEF FormFits, RulesFit
  <2>2. NodeOf(form) \in Nodes
    BY <1>2, FormFields DEF NodeOf
  <2> QED
    BY <2>1, <2>2 DEF Targets
<1> DEFINE x == Reencoded[NameOf(form)]
           r == Recoded(RuleOf(form))
           to == Targets(form)
<1>8. rules' = [n \in Nodes |-> IF n \in to THEN [rules[n] EXCEPT ![x] = r] ELSE rules[n]]
  BY DEF Apply
<1>9. rules \in [Nodes -> [Names -> Rule \cup {NoRule}]]
  BY DEF FormFits, RulesFit
<1> HIDE DEF x, r, to
<1>10. \A n \in Nodes, y \in Names :
         rules'[n][y] = IF n \in to /\ y = x THEN r ELSE rules[n][y]
  BY <1>8, <1>9
<1> QED
  BY <1>1, <1>2, <1>4, <1>5, <1>6, <1>7, <1>10, <1>11 DEF x, r, to

LEMMA ApplyFits ==
  ASSUME FormFits, Apply
  PROVE  FormFits'
<1> DEFINE name == NameOf(form)
           x == Reencoded[name]
           r == Recoded(RuleOf(form))
           to == Targets(form)
           g == [form EXCEPT !.name = name]
<1>1. /\ form \in GoodForm /\ Accepted(form) /\ r \in Rule /\ name \in Names
      /\ x \in Names /\ (edited # <<>> => name = Reencoded[edited[2]])
      /\ to \in SUBSET Nodes
      /\ \A n \in Nodes, y \in Names :
           rules'[n][y] = IF n \in to /\ y = x THEN r ELSE rules[n][y]
  BY ApplyStores
<1>2. /\ rules' = [n \in Nodes |-> IF n \in to THEN [rules[n] EXCEPT ![x] = r] ELSE rules[n]]
      /\ form' = g /\ made' = made \cup (to \X {x}) /\ Action
      /\ UNCHANGED <<nodes, open, edited, loaded, own>>
  BY DEF Apply, editing
<1>3. MadeByForm(r)
  BY <1>1 DEF MadeByForm
<1>4. form \in Form
  BY <1>1 DEF GoodForm
<1> HIDE DEF name, x, r, to
<1>5. RulesFit'
  <2>1. /\ rules \in [Nodes -> [Names -> Rule \cup {NoRule}]]
        /\ nodes \in SUBSET Nodes /\ made \in SUBSET (Nodes \X Names)
        /\ \A n \in Nodes, y \in Names : <<n, y>> \in made => MadeByForm(rules[n][y])
    BY DEF FormFits, RulesFit
  <2>2. rules' \in [Nodes -> [Names -> Rule \cup {NoRule}]]
    BY <1>1, <1>2, <2>1
  <2>3. made' \in SUBSET (Nodes \X Names)
    BY <1>1, <1>2, <2>1
  <2>4. ASSUME NEW n \in Nodes, NEW y \in Names, <<n, y>> \in made'
        PROVE  MadeByForm(rules'[n][y])
    <3>1. CASE n \in to /\ y = x
      BY <1>1, <1>3, <3>1
    <3>2. CASE ~ (n \in to /\ y = x)
      <4>1. <<n, y>> \in made
        BY <1>2, <2>4, <3>2
      <4> QED
        BY <1>1, <2>1, <3>2, <4>1
    <3> QED
      BY <3>1, <3>2
  <2>5. \A n \in Nodes, y \in Names : <<n, y>> \in made' => MadeByForm(rules'[n][y])
    BY <2>4
  <2>6. nodes' \in SUBSET Nodes
    BY <1>2, <2>1
  <2> QED
    BY <2>2, <2>3, <2>5, <2>6 DEF RulesFit, MadeByForm
<1>6. g \in Form
  BY <1>1, <1>4 DEF Form
<1>7. /\ g.name = name /\ g.nodeItems = form.nodeItems /\ g.node = form.node
      /\ g.durations = form.durations /\ g.duration = form.duration /\ g.text = form.text
      /\ g.checked = form.checked /\ g.regexp = form.regexp /\ g.enabled = form.enabled
      /\ g.action = form.action
  BY <1>4 DEF Form
<1> HIDE DEF g
<1>8. form.node \in DOMAIN form.nodeItems /\ form.duration \in DOMAIN form.durations
      /\ form.text["dest.ip"] = Empty
  BY <1>1 DEF GoodForm
<1>9. g \in GoodForm
  BY <1>6, <1>7, <1>8 DEF GoodForm
<1>10. g # NoForm /\ NodeOf(g) = NodeOf(form)
  BY <1>7, <1>9, GoodIsAForm DEF NodeOf
<1>11. Shows(form, loaded) => Shows(g, loaded)
  BY <1>7 DEF Shows
<1>12. DialogFits'
  <2>1. DialogFits
    BY DEF FormFits
  <2>2. (form \in GoodForm \cup {NoForm} /\ open \in BOOLEAN /\ (open => form # NoForm))'
    BY <1>2, <1>9, <1>10, <2>1 DEF DialogFits
  <2>3. (edited # <<>> => /\ form # NoForm /\ NodeOf(form) = edited[1]
                          /\ form.name = Reencoded[edited[2]])'
    BY <1>1, <1>2, <1>7, <1>10, <2>1 DEF DialogFits, NodeOf
  <2>4. (loaded # NoRule => edited # <<>> /\ Shows(form, loaded))'
    BY <1>2, <1>11, <2>1 DEF DialogFits, Shows
  <2>5. /\ (edited \in (Nodes \X Names) \cup {<<>>})' /\ (loaded \in Rule \cup {NoRule})'
        /\ (own \in BOOLEAN)'
    BY <1>2, <2>1 DEF DialogFits
  <2>6. (own => loaded # NoRule /\ MadeByForm(loaded))'
    BY <1>2, <2>1 DEF DialogFits, MadeByForm
  <2> QED
    BY <2>2, <2>3, <2>4, <2>5, <2>6 DEF DialogFits
<1>13. CountsFit'
  BY <1>2, EventCounts DEF FormFits, Action
<1> QED
  BY <1>5, <1>12, <1>13 DEF FormFits

\* Nothing but whether the dialog is on the screen changes.
LEMMA ScreenFits ==
  ASSUME FormFits, UNCHANGED <<rules, nodes, form, editing, made>>, Action, open' \in BOOLEAN,
         open' => open
  PROVE  FormFits'
<1>1. DialogFits /\ UNCHANGED <<form, edited, loaded, own>>
  BY DEF FormFits, editing
<1>2. DialogFits'
  BY <1>1 DEF DialogFits, NodeOf, Shows, MadeByForm
<1> QED
  BY <1>2, DialogStep

LEMMA SubscribedFits ==
  ASSUME FormFits, NEW n \in Nodes, NEW brought \in Foreign,
         OnSubscribed(n, brought[1], brought[2])
  PROVE  FormFits'
<1> DEFINE x == brought[1]
           r == brought[2]
<1>1. x \in Names /\ r \in Rule
  BY BoundsAssumption
<1>2. nodes' \in SUBSET Nodes
  BY DEF FormFits, RulesFit, OnSubscribed
<1>3. OnSubscribed(n, x, r)
  OBVIOUS
<1> HIDE DEF x, r
<1> QED
  BY <1>1, <1>2, <1>3, OutsideFits DEF OnSubscribed

LEMMA AnsweredFits ==
  ASSUME FormFits, NEW n \in Nodes, NEW x \in Names, NEW r \in Rule, Outside,
         Added(n, x, r), UNCHANGED <<nodes, form, open, editing>>
  PROVE  FormFits'
<1> DEFINE y == Reencoded[x]
           a == Recoded(r)
<1>1. y \in Names /\ a \in Rule
  BY NamesAssumption, RecodedIs
<1>2. nodes' \in SUBSET Nodes
  BY DEF FormFits, RulesFit
<1>3. rules' = [rules EXCEPT ![n][y] = a] /\ made' = made \ {<<n, y>>}
  BY DEF Added
<1> HIDE DEF y, a
<1> QED
  BY <1>1, <1>2, <1>3, OutsideFits

LEMMA RemovedFits ==
  ASSUME FormFits, NEW n \in Nodes, NEW x \in Names, RemoveRule(n, x)
  PROVE  FormFits'
<1> DEFINE r == NoRule
<1>1. nodes' \in SUBSET Nodes /\ r \in Rule \cup {NoRule}
  BY DEF FormFits, RulesFit, RemoveRule
<1>2. /\ Outside /\ rules' = [rules EXCEPT ![n][x] = r] /\ made' = made \ {<<n, x>>}
      /\ UNCHANGED <<form, open, editing>>
  BY DEF RemoveRule
<1> HIDE DEF r
<1> QED
  BY <1>1, <1>2, OutsideFits

LEMMA StepFits ==
  ASSUME FormFits, [RuleFormNext]_ruleFormVars
  PROVE  FormFits'
<1>1. ASSUME NEW n \in Nodes, NEW brought \in Foreign,
             OnSubscribed(n, brought[1], brought[2])
      PROVE  FormFits'
  BY <1>1, SubscribedFits
<1>2. ASSUME NEW n \in Nodes, NEW conn \in Connections, NEW details \in Details,
             NEW what \in DestinationItems, NEW chosen \in Asked,
             PromptAnswered(n, conn, chosen, details, what, "allow", "always")
      PROVE  FormFits'
  <2> DEFINE r == PromptRule(conn, chosen, details, what, "allow", "always")
             x == Reencoded[conn.name]
  <2>1. r \in Rule
    BY PromptMakesRules
  <2>2. /\ Outside /\ Added(n, x, r) /\ UNCHANGED <<nodes, form, open, editing>>
    BY <1>2 DEF PromptAnswered
  <2>3. x \in Names
    BY ConnectionsAssumption, NamesAssumption
  <2> HIDE DEF r, x
  <2> QED
    BY <2>1, <2>2, <2>3, AnsweredFits
<1>3. ASSUME NEW n \in Nodes, NEW conn \in Connections, NEW chosen \in DefaultTargets,
             DefaultTaken(n, conn, chosen, "allow", "always")
      PROVE  FormFits'
  <2> DEFINE r == DefaultRule(conn, chosen, "allow", "always")
             x == conn.name
  <2>1. r \in Rule
    BY DefaultsAreRules
  <2>2. /\ Outside /\ Added(n, x, r) /\ UNCHANGED <<nodes, form, open, editing>>
    BY <1>3 DEF DefaultTaken
  <2>3. x \in Names
    BY ConnectionsAssumption
  <2> HIDE DEF r, x
  <2> QED
    BY <2>1, <2>2, <2>3, AnsweredFits
<1>4. ASSUME NEW n \in Nodes, NEW x \in Names, RemoveRule(n, x) \/ Edit(n, x)
      PROVE  FormFits'
  BY <1>4, RemovedFits, EditFits
<1>5. CASE New
  BY <1>5, NewFits
<1>6. ASSUME open, NEW field \in Checkable,
             Check(field) \/ \E w \in Typed[field] : Fill(field, w)
      PROVE  FormFits'
  BY <1>6, CheckFits, FillFits
<1>7. CASE open /\ (Choose \/ ResetForm)
  BY <1>7, ChooseFits, ResetFits
<1>8. CASE Apply
  BY <1>8, ApplyFits
<1>9. CASE ApplyRefused
  <2>1. open \in BOOLEAN
    BY DEF FormFits, DialogFits
  <2> QED
    BY <1>9, <2>1, ScreenFits DEF ApplyRefused
<1>10. CASE Close
  <2>1. open' \in BOOLEAN /\ ~open'
    BY <1>10 DEF Close
  <2> QED
    BY <1>10, <2>1, ScreenFits DEF Close
<1>11. CASE UNCHANGED ruleFormVars
  <2>1. UNCHANGED <<rules, nodes, form, open, edited, loaded, own, made, outside, events>>
    BY <1>11 DEF ruleFormVars, editing
  <2>2. RulesFit' /\ CountsFit'
    BY <2>1 DEF FormFits, RulesFit, CountsFit, MadeByForm
  <2>3. DialogFits'
    BY <2>1 DEF FormFits, DialogFits, NodeOf, Shows, MadeByForm
  <2> QED
    BY <2>2, <2>3 DEF FormFits
<1> QED
  BY <1>1, <1>2, <1>3, <1>4, <1>5, <1>6, <1>7, <1>8, <1>9, <1>10, <1>11, Zenon
     DEF RuleFormNext
-----------------------------------------------------------------------------
(* What the invariant says of the rules.                                   *)

LEMMA FormFitsIsSafe == FormFits => RuleFormSafe
<1> SUFFICES ASSUME FormFits PROVE RuleFormSafe
  OBVIOUS
<1>1. RulesFit /\ DialogFits /\ CountsFit
  BY DEF FormFits
<1>2. RuleFormTypeOK
  <2>1. \A n \in Nodes, x \in Names : rules[n][x] = NoRule \/ rules[n][x] \in Rule
    BY <1>1 DEF RulesFit
  <2>2. form \in GoodForm => /\ form \in Form /\ form.node \in DOMAIN form.nodeItems
                             /\ form.duration \in DOMAIN form.durations
    BY DEF GoodForm
  <2>3. form = NoForm \/ form \in GoodForm
    BY <1>1 DEF DialogFits
  <2>4. loaded = NoRule \/ (loaded \in Rule /\ edited # <<>>)
    BY <1>1 DEF DialogFits
  <2>5. open \in BOOLEAN /\ (open => form # NoForm) /\ own \in BOOLEAN
        /\ edited \in (Nodes \X Names) \cup {<<>>}
    BY <1>1 DEF DialogFits
  <2>6. nodes \subseteq Nodes /\ made \subseteq Nodes \X Names
    BY <1>1 DEF RulesFit
  <2>7. outside \in 0 .. MaxOutside /\ events \in 0 .. MaxEvents
    BY <1>1 DEF CountsFit
  <2> QED
    BY <2>1, <2>2, <2>3, <2>4, <2>5, <2>6, <2>7 DEF RuleFormTypeOK
<1>3. ASSUME NEW slot \in made
      PROVE  LET r == rules[slot[1]][slot[2]]
             IN /\ r.criteria # <<>>
                /\ \A i \in DOMAIN r.criteria :
                     LET c == r.criteria[i]
                     IN c.data # Empty /\ (c.operand \in Lists => c.data.word \in Directories)
  <2> DEFINE r == rules[slot[1]][slot[2]]
  <2>1. PICK n \in Nodes, x \in Names : slot = <<n, x>>
    BY <1>1 DEF RulesFit
  <2>2. MadeByForm(r)
    BY <1>1, <2>1 DEF RulesFit
  <2> HIDE DEF r
  <2>3. PICK f \in GoodForm : Accepted(f) /\ r = Recoded(RuleOf(f))
    BY <2>2 DEF MadeByForm
  <2>4. /\ f.checked # {} /\ \A field \in f.checked : f.text[field] # Empty
        /\ \A field \in f.checked \cap Lists : f.text[field].word \in Directories
    BY <2>3 DEF Accepted, IsDirPath
  <2> DEFINE q == RuleOf(f)
  <2>7. /\ q \in Rule /\ q.criteria # <<>>
        /\ \A k \in DOMAIN q.criteria : /\ q.criteria[k].operand \in f.checked
                                       /\ q.criteria[k].data = f.text[q.criteria[k].operand]
    BY <2>3, <2>4, RuleOfForm
  <2>8. r = Recoded(q)
    BY <2>3
  <2> HIDE DEF q
  <2>9. /\ DOMAIN r.criteria = DOMAIN q.criteria
        /\ \A k \in DOMAIN q.criteria :
             /\ q.criteria[k].data \in Texts
             /\ r.criteria[k].operand = q.criteria[k].operand
             /\ r.criteria[k].data = Recode(q.criteria[k].data)
    BY <2>7, <2>8, RecodedIs
  <2>10. q.criteria \in Seq(Criterion)
    BY <2>7, RuleParts
  <2>11. 1 \in DOMAIN q.criteria
    BY <2>7, <2>10
  <2>12. r.criteria # <<>>
    BY <2>9, <2>11
  <2>5. \A k \in DOMAIN r.criteria :
          LET t == f.text[r.criteria[k].operand]
          IN /\ r.criteria[k].operand \in f.checked /\ t \in Texts
             /\ r.criteria[k].data = Recode(t)
    BY <2>7, <2>9
  <2>6. \A k \in DOMAIN r.criteria :
          /\ r.criteria[k].data # Empty
          /\ (r.criteria[k].operand \in Lists => r.criteria[k].data.word \in Directories)
    BY <2>4, <2>5, RecodeIs
  <2> QED
    BY <2>6, <2>12 DEF r
<1>4. FormRulesAreComplete
  BY <1>3, Zenon DEF FormRulesAreComplete
<1> QED
  BY <1>2, <1>4 DEF RuleFormSafe

\* Every state the dialog and the rules reach fits.
LEMMA AllFormsFit == RuleFormSpec => []FormFits
<1>1. RuleFormInit => FormFits
  BY InitFits
<1>2. FormFits /\ [RuleFormNext]_ruleFormVars => FormFits'
  BY StepFits
<1> QED
  BY <1>1, <1>2, PTL DEF RuleFormSpec

\* In every reachable state the rules, the form and the two histories have
\* their types, the combo boxes have a current item, and every rule the form
\* stored and nobody replaced has a criterion, no empty value, and only
\* directories for its lists (RuleDialog::onApplyClicked()).
THEOREM FormRulesComplete == RuleFormSpec => []RuleFormSafe
<1>1. RuleFormSpec => []FormFits
  BY AllFormsFit
<1>2. FormFits => RuleFormSafe
  BY FormFitsIsSafe
<1> QED
  BY <1>1, <1>2, PTL

LEMMA EditedIs ==
  ASSUME FormFits, edited # <<>>
  PROVE  /\ edited[1] \in Nodes /\ edited[2] \in Names /\ NodeOf(form) = edited[1]
         /\ \A n, x : n = edited[1] /\ x = edited[2] => <<n, x>> = edited
<1>1. edited \in Nodes \X Names /\ NodeOf(form) = edited[1]
  BY DEF FormFits, DialogFits
<1>2. PICK n \in Nodes, x \in Names : edited = <<n, x>>
  BY <1>1
<1>3. edited[1] = n /\ edited[2] = x
  BY <1>2
<1> QED
  BY <1>1, <1>2, <1>3

\* Whatever the dialog showed before, applying the form of a rule opened for
\* editing stores that rule under its name and for its node and changes no
\* other, unless the box for all nodes is checked or its name is not in ASCII
\* (RuleDialog::editRule() and onApplyClicked(), Rules::add()).
THEOREM OneRuleChanges == RuleFormSpec => EditChangesOneRule
<1> DEFINE P == Apply /\ edited # <<>> /\ AsciiName(edited[2]) /\ ~form.all =>
                  /\ rules'[edited[1]][edited[2]] = Recoded(RuleOf(form))
                  /\ \A n \in Nodes, x \in Names :
                       <<n, x>> # edited => rules'[n][x] = rules[n][x]
<1>1. FormFits => P
  <2> SUFFICES ASSUME FormFits, Apply, edited # <<>>, AsciiName(edited[2]), ~form.all
               PROVE  /\ rules'[edited[1]][edited[2]] = Recoded(RuleOf(form))
                      /\ \A n \in Nodes, x \in Names :
                           <<n, x>> # edited => rules'[n][x] = rules[n][x]
    OBVIOUS
  <2>1. /\ edited[1] \in Nodes /\ edited[2] \in Names /\ NodeOf(form) = edited[1]
        /\ \A n, x : n = edited[1] /\ x = edited[2] => <<n, x>> = edited
    BY EditedIs
  <2>2. /\ Reencoded[NameOf(form)] = edited[2]
        /\ \A n \in Nodes, x \in Names :
             rules'[n][x] = IF n \in Targets(form) /\ x = Reencoded[NameOf(form)]
                            THEN Recoded(RuleOf(form)) ELSE rules[n][x]
    BY ApplyStores DEF AsciiName
  <2>3. Targets(form) = {edited[1]}
    BY <2>1 DEF Targets
  <2> QED
    BY <2>1, <2>2, <2>3
<1>2. FormFits => [P]_ruleFormVars
  BY <1>1
<1>3. EditChangesOneRule <=> [][P]_ruleFormVars
  BY DEF EditChangesOneRule
<1> HIDE DEF P
<1> QED
  BY <1>2, <1>3, AllFormsFit, PTL
-----------------------------------------------------------------------------
(* What is stored of a rule opened and applied as it is.                   *)

LEMMA StoredIs ==
  ASSUME FormFits, loaded # NoRule, Stores(edited)
  PROVE  /\ form \in GoodForm /\ Accepted(form) /\ Stored(edited) = Recoded(RuleOf(form))
         /\ loaded \in Rule /\ Shows(form, loaded)
<1>1. Apply /\ edited[1] \in Targets(form) /\ Reencoded[edited[2]] = edited[2]
  BY DEF Stores, AsciiName
<1>2. loaded \in Rule /\ edited # <<>> /\ Shows(form, loaded)
  BY DEF FormFits, DialogFits
<1>3. edited[1] \in Nodes /\ edited[2] \in Names
  BY <1>2, EditedIs
<1>4. /\ form \in GoodForm /\ Accepted(form) /\ Reencoded[NameOf(form)] = edited[2]
      /\ \A n \in Nodes, x \in Names :
           rules'[n][x] = IF n \in Targets(form) /\ x = Reencoded[NameOf(form)]
                          THEN Recoded(RuleOf(form)) ELSE rules[n][x]
  BY <1>1, <1>2, ApplyStores
<1>5. rules'[edited[1]][edited[2]] = Recoded(RuleOf(form))
  BY <1>1, <1>3, <1>4
<1> QED
  BY <1>2, <1>4, <1>5 DEF Stored

LEMMA RereadWord ==
  ASSUME NEW t \in Texts, Reread(t) # Empty
  PROVE  Reread(t).word = t.word /\ (t.word \notin Slashed => Reread(t) = t)
<1>1. t.word \notin Braced
  BY DEF Reread
<1>2. CASE t.word \in Slashed
  <2>1. Reread(t) = [t EXCEPT !.doubled = t.doubled + 1]
    BY <1>1, <1>2 DEF Reread
  <2>2. [t EXCEPT !.doubled = t.doubled + 1].word = t.word
    BY DEF Texts
  <2> QED
    BY <1>2, <2>1, <2>2
<1>3. CASE t.word \notin Slashed
  BY <1>1, <1>3 DEF Reread
<1> QED
  BY <1>2, <1>3

\* The text of a field of a rule that is shown and accepted is that of the
\* field's last criterion.
LEMMA ShownText ==
  ASSUME NEW f \in GoodForm, Accepted(f), NEW r \in Rule, Shows(f, r), NEW field \in f.checked
  PROVE  \E i \in DOMAIN r.criteria :
           /\ FieldFor(r.criteria[i].operand) = field
           /\ \A j \in DOMAIN r.criteria :
                j > i => FieldFor(r.criteria[j].operand) # field
           /\ f.text[field].word = r.criteria[i].data.word
           /\ r.criteria[i].data.word \notin Slashed \/ ~r.list =>
                f.text[field] = Recode(r.criteria[i].data)
           /\ field \in Processes => (field \in f.regexp <=> r.criteria[i].type = "regexp")
<1> DEFINE cs == r.criteria
           rs == AsRead(r)
<1>1. /\ rs \in Seq(Criterion) /\ DOMAIN rs = DOMAIN cs
      /\ \A i \in DOMAIN cs :
           /\ rs[i].operand = cs[i].operand /\ rs[i].type = cs[i].type
           /\ rs[i].data = IF r.list THEN Reread(Recode(cs[i].data))
                                     ELSE Recode(cs[i].data)
  BY AsReadCriteria
<1>2. cs \in Seq(Criterion)
  BY RuleParts
<1>3. /\ f.checked = FieldsOf(rs)
      /\ \A g \in FieldsOf(rs) \ {"dest.ip"} : f.text[g] = LastFor(rs, g).data
      /\ \A g \in FieldsOf(rs) \cap Processes :
           g \in f.regexp <=> LastFor(rs, g).type = "regexp"
  BY DEF Shows
<1>4. f.text[field] # Empty /\ f.text["dest.ip"] = Empty
  BY FormFields DEF Accepted
<1>5. field \in FieldsOf(rs) /\ field # "dest.ip"
  BY <1>3, <1>4
<1> HIDE DEF cs, rs
<1>6. PICK i \in DOMAIN rs :
        /\ LastFor(rs, field) = rs[i] /\ FieldFor(rs[i].operand) = field
        /\ \A j \in DOMAIN rs : j > i => FieldFor(rs[j].operand) # field
  BY <1>1, <1>5, LastForIs
<1>7. f.text[field] = rs[i].data /\ rs[i].data # Empty
  BY <1>3, <1>4, <1>5, <1>6
<1> DEFINE t == Recode(cs[i].data)
<1>8. t \in Texts /\ t.word = cs[i].data.word
  BY <1>1, <1>2, <1>6, CriterionParts, RecodeIs
<1>11. rs[i].data = IF r.list THEN Reread(t) ELSE t
  BY <1>1, <1>6
<1> HIDE DEF t
<1>9. CASE r.list
  <2>1. rs[i].data = Reread(t)
    BY <1>9, <1>11
  <2>2. /\ rs[i].data.word = cs[i].data.word
        /\ cs[i].data.word \notin Slashed => rs[i].data = t
    BY <1>7, <1>8, <2>1, RereadWord
  <2>3. field \in Processes => (field \in f.regexp <=> cs[i].type = "regexp")
    BY <1>1, <1>3, <1>5, <1>6
  <2> QED
    BY <1>1, <1>6, <1>7, <1>9, <2>2, <2>3 DEF cs, t
<1>10. CASE ~r.list
  <2>1. rs[i].data = t
    BY <1>10, <1>11
  <2>3. field \in Processes => (field \in f.regexp <=> cs[i].type = "regexp")
    BY <1>1, <1>3, <1>5, <1>6
  <2> QED
    BY <1>1, <1>6, <1>7, <1>8, <2>1, <2>3 DEF cs, t
<1> QED
  BY <1>9, <1>10

\* A criterion of each field is put into the form.
LEMMA ShownFields ==
  ASSUME NEW f, NEW r \in Rule, Shows(f, r)
  PROVE  \A i \in DOMAIN r.criteria :
           FieldFor(r.criteria[i].operand) \in Fields =>
             FieldFor(r.criteria[i].operand) \in f.checked
<1>1. /\ DOMAIN AsRead(r) = DOMAIN r.criteria
      /\ \A i \in DOMAIN r.criteria : AsRead(r)[i].operand = r.criteria[i].operand
  BY AsReadCriteria
<1>2. f.checked = FieldsOf(AsRead(r))
  BY DEF Shows
<1> QED
  BY <1>1, <1>2 DEF FieldsOf

\* The criteria of a rule that nothing later of their field replaces.
LastOnes(r) ==
  {i \in DOMAIN r.criteria :
     /\ FieldFor(r.criteria[i].operand) \in Fields
     /\ \A j \in DOMAIN r.criteria :
          j > i => FieldFor(r.criteria[j].operand) # FieldFor(r.criteria[i].operand)}

\* A rule that is stored has the fields of the form it was made of.
LEMMA StoredOfForm ==
  ASSUME NEW f \in GoodForm, f.checked # {}
  PROVE  LET r == Recoded(RuleOf(f))
         IN /\ r \in Rule /\ r.enabled = f.enabled /\ r.action = f.action
            /\ r.duration = f.durations[f.duration]
            /\ \A k \in DOMAIN r.criteria :
                 /\ r.criteria[k].operand \in f.checked
                 /\ r.criteria[k].data.word = f.text[r.criteria[k].operand].word
                 /\ r.criteria[k].data.word \notin NonAscii =>
                      r.criteria[k].data = f.text[r.criteria[k].operand]
                 /\ r.criteria[k].operand \in Processes =>
                      r.criteria[k].type = TypeOf(f, r.criteria[k].operand)
            /\ \A field \in f.checked :
                 \E k \in DOMAIN r.criteria : r.criteria[k].operand = field
<1> DEFINE q == RuleOf(f)
           r == Recoded(q)
<1>1. /\ q \in Rule /\ q.enabled = f.enabled /\ q.action = f.action
      /\ q.duration = f.durations[f.duration]
      /\ \A k \in DOMAIN q.criteria :
           /\ q.criteria[k].operand \in f.checked
           /\ q.criteria[k].data = f.text[q.criteria[k].operand]
           /\ q.criteria[k].operand \in Processes =>
                q.criteria[k].type = TypeOf(f, q.criteria[k].operand)
      /\ \A field \in f.checked :
           \E k \in DOMAIN q.criteria : q.criteria[k].operand = field
  BY RuleOfForm
<1> HIDE DEF q
<1>2. /\ r \in Rule /\ r.enabled = q.enabled /\ r.action = q.action
      /\ r.duration = q.duration /\ DOMAIN r.criteria = DOMAIN q.criteria
      /\ \A k \in DOMAIN q.criteria :
           /\ q.criteria[k].data \in Texts
           /\ r.criteria[k].type = q.criteria[k].type
           /\ r.criteria[k].operand = q.criteria[k].operand
           /\ r.criteria[k].data = Recode(q.criteria[k].data)
  BY <1>1, RecodedIs
<1> HIDE DEF r
<1>3. \A k \in DOMAIN q.criteria :
        /\ r.criteria[k].data.word = q.criteria[k].data.word
        /\ r.criteria[k].data.word \notin NonAscii => r.criteria[k].data = q.criteria[k].data
  BY <1>2, RecodeIs
<1> QED
  BY <1>1, <1>2, <1>3 DEF r, q

LEMMA SameCriteria ==
  ASSUME NEW f \in GoodForm, Accepted(f), NEW r \in Rule, Shows(f, r)
  PROVE  {<<c.operand, c.data.word>> : c \in ToSet(Recoded(RuleOf(f)).criteria)} =
         {<<FieldFor(r.criteria[i].operand), r.criteria[i].data.word>> : i \in LastOnes(r)}
<1> DEFINE cs == Recoded(RuleOf(f)).criteria
           rs == r.criteria
           new == {<<c.operand, c.data.word>> : c \in ToSet(cs)}
           old == {<<FieldFor(rs[i].operand), rs[i].data.word>> : i \in LastOnes(r)}
<1>1. f.checked # {} /\ f.checked \in SUBSET Fields
  BY FormFields DEF Accepted
<1>2. /\ \A k \in DOMAIN cs : /\ cs[k].operand \in f.checked
                              /\ cs[k].data.word = f.text[cs[k].operand].word
      /\ \A field \in f.checked : \E k \in DOMAIN cs : cs[k].operand = field
  BY <1>1, StoredOfForm
<1>3. \A c \in ToSet(cs) : \E k \in DOMAIN cs : c = cs[k]
  BY DEF ToSet
<1>4. \A k \in DOMAIN cs : cs[k] \in ToSet(cs)
  BY DEF ToSet
<1>5. rs \in Seq(Criterion)
  BY RuleParts
<1>6. \A i \in LastOnes(r) :
        /\ i \in DOMAIN rs /\ FieldFor(rs[i].operand) \in Fields
        /\ \A j \in DOMAIN rs : j > i => FieldFor(rs[j].operand) # FieldFor(rs[i].operand)
  BY DEF LastOnes
<1>7. \A i \in DOMAIN rs :
        /\ FieldFor(rs[i].operand) \in Fields
        /\ \A j \in DOMAIN rs : j > i => FieldFor(rs[j].operand) # FieldFor(rs[i].operand)
        => i \in LastOnes(r)
  BY DEF LastOnes
<1> HIDE DEF cs
<1>8. ASSUME NEW c \in ToSet(cs) PROVE <<c.operand, c.data.word>> \in old
  <2>1. PICK k \in DOMAIN cs : c = cs[k]
    BY <1>3
  <2> DEFINE field == cs[k].operand
  <2>2. field \in f.checked /\ cs[k].data.word = f.text[field].word
    BY <1>2
  <2> HIDE DEF field
  <2>3. PICK i \in DOMAIN rs :
          /\ FieldFor(rs[i].operand) = field
          /\ \A j \in DOMAIN rs : j > i => FieldFor(rs[j].operand) # field
          /\ f.text[field].word = rs[i].data.word
    BY <2>2, ShownText
  <2>4. i \in LastOnes(r)
    BY <1>1, <1>7, <2>2, <2>3
  <2>5. c.operand = FieldFor(rs[i].operand) /\ c.data.word = rs[i].data.word
    BY <2>1, <2>2, <2>3 DEF field
  <2> QED
    BY <2>4, <2>5
<1>9. ASSUME NEW i \in LastOnes(r)
      PROVE  <<FieldFor(rs[i].operand), rs[i].data.word>> \in new
  <2> DEFINE field == FieldFor(rs[i].operand)
  <2>1. /\ i \in DOMAIN rs /\ field \in Fields
        /\ \A j \in DOMAIN rs : j > i => FieldFor(rs[j].operand) # field
    BY <1>6
  <2>2. field \in f.checked
    BY <2>1, ShownFields
  <2> HIDE DEF field
  <2>3. PICK m \in DOMAIN rs :
          /\ FieldFor(rs[m].operand) = field
          /\ \A j \in DOMAIN rs : j > m => FieldFor(rs[j].operand) # field
          /\ f.text[field].word = rs[m].data.word
    BY <2>2, ShownText
  <2>4. i = m
    <3>1. i \in Nat /\ m \in Nat
      BY <1>5, <2>1
    <3>2. ~ (m > i)
      BY <2>1, <2>3
    <3>3. ~ (i > m)
      BY <2>1, <2>3 DEF field
    <3> QED
      BY <3>1, <3>2, <3>3
  <2>5. PICK k \in DOMAIN cs : cs[k].operand = field
    BY <1>2, <2>2
  <2>6. cs[k] \in ToSet(cs) /\ cs[k].data.word = rs[i].data.word
    BY <1>2, <1>4, <2>3, <2>4, <2>5
  <2> QED
    BY <2>5, <2>6 DEF field
<1> HIDE DEF rs
<1>10. \A p \in new : p \in old
  BY <1>8
<1>11. \A p \in old : p \in new
  BY <1>9
<1>12. new = old
  <2> HIDE DEF new, old
  <2> QED
    BY <1>10, <1>11
<1> QED
  BY <1>12 DEF cs, rs

\* Opening any rule and applying the form as it is stores, for each field,
\* the last criterion the rule has for it, and nothing else, or the form is
\* refused (RuleDialog::editRule() and onApplyClicked()).
THEOREM NoCriterionLost == RuleFormSpec => CriteriaKept
<1> DEFINE P == loaded # NoRule /\ Stores(edited) =>
                  LET kept == {i \in DOMAIN loaded.criteria :
                                 LET Field(j) == FieldFor(loaded.criteria[j].operand)
                                 IN Field(i) \in Fields /\ \A j \in DOMAIN loaded.criteria :
                                                             j > i => Field(j) # Field(i)}
                  IN {<<c.operand, c.data.word>> : c \in ToSet(Stored(edited).criteria)} =
                     {<<FieldFor(loaded.criteria[i].operand), loaded.criteria[i].data.word>> :
                        i \in kept}
<1>1. FormFits => P
  <2> SUFFICES ASSUME FormFits, loaded # NoRule, Stores(edited)
               PROVE  {<<c.operand, c.data.word>> : c \in ToSet(Stored(edited).criteria)} =
                      {<<FieldFor(loaded.criteria[i].operand), loaded.criteria[i].data.word>> :
                         i \in LastOnes(loaded)}
    BY Zenon DEF LastOnes
  <2>1. /\ form \in GoodForm /\ Accepted(form) /\ Stored(edited) = Recoded(RuleOf(form))
        /\ loaded \in Rule /\ Shows(form, loaded)
    BY StoredIs
  <2> QED
    BY <2>1, SameCriteria, Zenon
<1>2. FormFits => [P]_ruleFormVars
  BY <1>1
<1>3. CriteriaKept <=> [][P]_ruleFormVars
  BY DEF CriteriaKept
<1> HIDE DEF P
<1> QED
  BY <1>2, <1>3, AllFormsFit, PTL
\* A rule without its case sensitivity is a rule, otherwise the same.
LEMMA CaseAsideIs ==
  ASSUME NEW r \in Rule
  PROVE  LET a == CaseAside(r)
         IN /\ a \in Rule /\ a.enabled = r.enabled /\ a.action = r.action
            /\ a.duration = r.duration /\ a.list = r.list /\ ~a.sensitive
            /\ DOMAIN a.criteria = DOMAIN r.criteria
            /\ \A i \in DOMAIN r.criteria :
                 /\ a.criteria[i] \in Criterion /\ ~a.criteria[i].sensitive
                 /\ a.criteria[i].type = r.criteria[i].type
                 /\ a.criteria[i].operand = r.criteria[i].operand
                 /\ a.criteria[i].data = r.criteria[i].data
<1> DEFINE cs == r.criteria
           off == FALSE
           new(i) == [cs[i] EXCEPT !.sensitive = off]
           ds == [i \in DOMAIN cs |-> new(i)]
           a == [r EXCEPT !.sensitive = off, !.criteria = ds]
<1>1. CaseAside(r) = a
  BY DEF CaseAside
<1>2. cs \in Seq(Criterion)
  BY RuleParts
<1>3. off \in BOOLEAN /\ ~off
  OBVIOUS
<1>4. DOMAIN cs = 1 .. Len(cs) /\ Len(cs) \in Nat /\ \A i \in DOMAIN cs : cs[i] \in Criterion
  BY <1>2
<1> HIDE DEF cs, off
<1>5. \A i \in DOMAIN cs :
        /\ new(i) \in Criterion /\ ~new(i).sensitive /\ new(i).type = cs[i].type
        /\ new(i).operand = cs[i].operand /\ new(i).data = cs[i].data
  BY <1>3, <1>4 DEF Criterion
<1> HIDE DEF new
<1>6. ds \in [1 .. Len(cs) -> Criterion]
  BY <1>4, <1>5
<1>7. \A n \in Nat : \A s \in [1 .. n -> Criterion] : s \in Seq(Criterion)
  OBVIOUS
<1>8. ds \in Seq(Criterion)
  BY <1>4, <1>6, <1>7
<1>9. DOMAIN ds = DOMAIN cs /\ \A i \in DOMAIN cs : ds[i] = new(i)
  OBVIOUS
<1> HIDE DEF ds
<1>10. a \in Rule
  BY <1>3, <1>8 DEF Rule
<1>11. /\ a.enabled = r.enabled /\ a.action = r.action /\ a.duration = r.duration
       /\ a.list = r.list /\ a.sensitive = off /\ a.criteria = ds
  BY DEF Rule
<1> HIDE DEF a
<1>12. ~a.sensitive
  BY <1>3, <1>11
<1> QED
  BY <1>1, <1>5, <1>9, <1>10, <1>11, <1>12 DEF cs

LEMMA SameCriterion ==
  ASSUME NEW c \in Criterion, NEW d \in Criterion, c.type = d.type, c.operand = d.operand,
         c.data = d.data, c.sensitive = d.sensitive
  PROVE  c = d
BY DEF Criterion

LEMMA SameRule ==
  ASSUME NEW r \in Rule, NEW s \in Rule, r.enabled = s.enabled, r.action = s.action,
         r.duration = s.duration, r.list = s.list, r.sensitive = s.sensitive,
         r.criteria = s.criteria
  PROVE  r = s
BY DEF Rule

LEMMA SameCaseAside ==
  ASSUME NEW r \in Rule, NEW s \in Rule, r.enabled = s.enabled, r.action = s.action,
         r.duration = s.duration, r.list = s.list, DOMAIN r.criteria = DOMAIN s.criteria,
         \A i \in DOMAIN r.criteria :
           /\ r.criteria[i].type = s.criteria[i].type
           /\ r.criteria[i].operand = s.criteria[i].operand
           /\ r.criteria[i].data = s.criteria[i].data
  PROVE  CaseAside(r) = CaseAside(s)
<1> DEFINE a == CaseAside(r)
           b == CaseAside(s)
<1>1. /\ a \in Rule /\ a.enabled = r.enabled /\ a.action = r.action
      /\ a.duration = r.duration /\ a.list = r.list /\ ~a.sensitive
      /\ DOMAIN a.criteria = DOMAIN r.criteria
      /\ \A i \in DOMAIN r.criteria :
           /\ a.criteria[i] \in Criterion /\ ~a.criteria[i].sensitive
           /\ a.criteria[i].type = r.criteria[i].type
           /\ a.criteria[i].operand = r.criteria[i].operand
           /\ a.criteria[i].data = r.criteria[i].data
  BY CaseAsideIs
<1>2. /\ b \in Rule /\ b.enabled = s.enabled /\ b.action = s.action
      /\ b.duration = s.duration /\ b.list = s.list /\ ~b.sensitive
      /\ DOMAIN b.criteria = DOMAIN s.criteria
      /\ \A i \in DOMAIN s.criteria :
           /\ b.criteria[i] \in Criterion /\ ~b.criteria[i].sensitive
           /\ b.criteria[i].type = s.criteria[i].type
           /\ b.criteria[i].operand = s.criteria[i].operand
           /\ b.criteria[i].data = s.criteria[i].data
  BY CaseAsideIs
<1> HIDE DEF a, b
<1>3. ASSUME NEW i \in DOMAIN r.criteria PROVE a.criteria[i] = b.criteria[i]
  <2> DEFINE c == a.criteria[i]
             d == b.criteria[i]
  <2>1. /\ c \in Criterion /\ d \in Criterion /\ c.type = d.type /\ c.operand = d.operand
        /\ c.data = d.data /\ ~c.sensitive /\ ~d.sensitive
    BY <1>1, <1>2
  <2> HIDE DEF c, d
  <2>2. c.sensitive \in BOOLEAN /\ d.sensitive \in BOOLEAN
    BY <2>1 DEF Criterion
  <2>3. c.sensitive = d.sensitive
    BY <2>1, <2>2
  <2>4. c = d
    BY <2>1, <2>3, SameCriterion
  <2> QED
    BY <2>4 DEF c, d
<1>4. a.criteria = b.criteria
  <2>1. a.criteria \in Seq(Criterion) /\ b.criteria \in Seq(Criterion)
    BY <1>1, <1>2, RuleParts
  <2>2. DOMAIN a.criteria = DOMAIN b.criteria
        /\ \A i \in DOMAIN a.criteria : a.criteria[i] = b.criteria[i]
    BY <1>1, <1>2, <1>3
  <2>3. ASSUME NEW T, NEW u \in Seq(T), NEW v \in Seq(T), DOMAIN u = DOMAIN v,
               \A i \in DOMAIN u : u[i] = v[i]
        PROVE  u = v
    <3>1. Len(u) = Len(v) /\ \A i \in 1 .. Len(u) : u[i] = v[i]
      BY <2>3
    <3> QED
      BY <3>1, SeqEqual
  <2> QED
    BY <2>1, <2>2, <2>3
<1>5. a.sensitive = b.sensitive
  <2>1. a.sensitive \in BOOLEAN /\ b.sensitive \in BOOLEAN
    BY <1>1, <1>2, RuleParts
  <2> QED
    BY <1>1, <1>2, <2>1
<1>6. a = b
  BY <1>1, <1>2, <1>4, <1>5, SameRule
<1> QED
  BY <1>6 DEF a, b

\* Rules that are the same but for the case stay so when they are stored.
LEMMA SameRecoded ==
  ASSUME NEW r \in Rule, NEW s \in Rule, r.enabled = s.enabled, r.action = s.action,
         r.duration = s.duration, r.list = s.list, DOMAIN s.criteria = DOMAIN r.criteria,
         \A i \in DOMAIN s.criteria :
           /\ s.criteria[i].type = r.criteria[i].type
           /\ s.criteria[i].operand = r.criteria[i].operand
           /\ s.criteria[i].data = r.criteria[i].data
  PROVE  CaseAside(Recoded(s)) = CaseAside(Recoded(r))
<1> DEFINE a == Recoded(r)
           b == Recoded(s)
<1>1. /\ a \in Rule /\ a.enabled = r.enabled /\ a.action = r.action
      /\ a.duration = r.duration /\ a.list = r.list
      /\ DOMAIN a.criteria = DOMAIN r.criteria
      /\ \A i \in DOMAIN r.criteria :
           /\ a.criteria[i].type = r.criteria[i].type
           /\ a.criteria[i].operand = r.criteria[i].operand
           /\ a.criteria[i].data = Recode(r.criteria[i].data)
  BY RecodedIs
<1>2. /\ b \in Rule /\ b.enabled = s.enabled /\ b.action = s.action
      /\ b.duration = s.duration /\ b.list = s.list
      /\ DOMAIN b.criteria = DOMAIN s.criteria
      /\ \A i \in DOMAIN s.criteria :
           /\ b.criteria[i].type = s.criteria[i].type
           /\ b.criteria[i].operand = s.criteria[i].operand
           /\ b.criteria[i].data = Recode(s.criteria[i].data)
  BY RecodedIs
<1> HIDE DEF a, b
<1>3. \A i \in DOMAIN b.criteria :
        /\ b.criteria[i].type = a.criteria[i].type
        /\ b.criteria[i].operand = a.criteria[i].operand
        /\ b.criteria[i].data = a.criteria[i].data
  BY <1>1, <1>2
<1>4. DOMAIN b.criteria = DOMAIN a.criteria
  BY <1>1, <1>2
<1>5. CaseAside(b) = CaseAside(a)
  BY <1>1, <1>2, <1>3, <1>4, SameCaseAside
<1> QED
  BY <1>5 DEF a, b

\* Two forms that show the same make the same rule, but for the case.
LEMMA SameForms ==
  ASSUME NEW f \in GoodForm, NEW g \in GoodForm, f.checked # {}, g.checked = f.checked,
         \A field \in f.checked : g.text[field] = f.text[field],
         \A field \in f.checked \cap Processes : field \in g.regexp <=> field \in f.regexp,
         g.enabled = f.enabled, g.action = f.action,
         g.durations[g.duration] = f.durations[f.duration]
  PROVE  CaseAside(Recoded(RuleOf(g))) = CaseAside(Recoded(RuleOf(f)))
<1> DEFINE p == Picked(FieldOrder, f.checked)
           n == Len(p)
           several == Cardinality(f.checked) >= 2
           r == RuleOf(f)
           s == RuleOf(g)
<1>1. f.checked \in SUBSET Fields
  BY FormFields
<1>2. n \in Nat /\ \A k \in 1 .. n : p[k] \in f.checked
  BY <1>1, CollectedFields
<1>3. Collected(f) = [k \in 1 .. n |-> CriterionOf(f, p[k])]
  BY <1>1, CollectedFields
<1>4. Collected(g) = [k \in 1 .. n |-> CriterionOf(g, p[k])]
  BY <1>1, CollectedFields
<1>5. \E k \in 1 .. n : TRUE
  BY <1>1, CollectedFields
<1> HIDE DEF p, n
<1>6. 1 \in 1 .. n
  BY <1>2, <1>5
<1>7. ASSUME NEW field \in f.checked
      PROVE  /\ CriterionOf(g, field).type = CriterionOf(f, field).type
             /\ CriterionOf(g, field).operand = CriterionOf(f, field).operand
             /\ CriterionOf(g, field).data = CriterionOf(f, field).data
  <2>1. TypeOf(g, field) = TypeOf(f, field)
    BY DEF TypeOf
  <2> QED
    BY <2>1 DEF CriterionOf
<1>8. \A k \in 1 .. n :
        /\ Collected(f)[k] = CriterionOf(f, p[k]) /\ Collected(g)[k] = CriterionOf(g, p[k])
        /\ p[k] \in f.checked
  BY <1>2, <1>3, <1>4
<1>9. \A k \in 1 .. n :
        /\ Collected(g)[k].type = Collected(f)[k].type
        /\ Collected(g)[k].operand = Collected(f)[k].operand
        /\ Collected(g)[k].data = Collected(f)[k].data
  BY <1>7, <1>8
<1>10. DOMAIN Collected(f) = 1 .. n /\ DOMAIN Collected(g) = 1 .. n
  BY <1>3, <1>4
<1>11. r \in Rule /\ s \in Rule
  BY RuleOfForm
<1>12. /\ r.criteria = IF several THEN Collected(f) ELSE <<Alone(f, Collected(f)[1])>>
       /\ s.criteria = IF several THEN Collected(g) ELSE <<Alone(g, Collected(g)[1])>>
       /\ r.enabled = f.enabled /\ s.enabled = g.enabled
       /\ r.action = f.action /\ s.action = g.action
       /\ r.duration = f.durations[f.duration] /\ s.duration = g.durations[g.duration]
  BY DEF RuleOf
<1>13. r.list = s.list
  <2>1. r.list = several
    BY Zenon DEF RuleOf
  <2>2. s.list = several
    BY Zenon DEF RuleOf
  <2> QED
    BY <2>1, <2>2, Zenon
<1> HIDE DEF r, s, several
<1>14. /\ DOMAIN s.criteria = DOMAIN r.criteria
       /\ \A i \in DOMAIN s.criteria :
            /\ s.criteria[i].type = r.criteria[i].type
            /\ s.criteria[i].operand = r.criteria[i].operand
            /\ s.criteria[i].data = r.criteria[i].data
  <2>1. CASE several
    BY <1>9, <1>10, <1>12, <2>1
  <2>2. CASE ~several
    <3> DEFINE c == Collected(f)[1]
               d == Collected(g)[1]
    <3>1. c \in Criterion /\ d \in Criterion
      BY <1>6, <1>8, CriterionOfForm
    <3>2. d.type = c.type /\ d.operand = c.operand /\ d.data = c.data
      BY <1>6, <1>9
    <3>3. r.criteria = <<Alone(f, c)>> /\ s.criteria = <<Alone(g, d)>>
      BY <1>12, <2>2
    <3> HIDE DEF c, d
    <3>4. /\ Alone(g, d).operand = Alone(f, c).operand /\ Alone(g, d).data = Alone(f, c).data
      BY <3>1, <3>2, AloneKeeps
    <3>5. Alone(g, d).type = Alone(f, c).type
      <4>1. CASE f.checked \cap Processes = {} /\ LooksLikeRegexp(c.data)
        <5>1. Alone(f, c) = [c EXCEPT !.type = "regexp"]
          BY <4>1 DEF Alone
        <5>2. Alone(g, d) = [d EXCEPT !.type = "regexp"]
          BY <3>2, <4>1 DEF Alone
        <5>3. [c EXCEPT !.type = "regexp"].type = "regexp"
              /\ [d EXCEPT !.type = "regexp"].type = "regexp"
          BY <3>1 DEF Criterion
        <5> QED
          BY <5>1, <5>2, <5>3
      <4>2. CASE ~ (f.checked \cap Processes = {} /\ LooksLikeRegexp(c.data))
        <5>1. Alone(f, c) = c /\ Alone(g, d) = d
          BY <3>2, <4>2 DEF Alone
        <5> QED
          BY <3>2, <5>1
      <4> QED
        BY <4>1, <4>2
    <3>6. /\ DOMAIN s.criteria = {1} /\ DOMAIN r.criteria = {1}
          /\ s.criteria[1] = Alone(g, d) /\ r.criteria[1] = Alone(f, c)
      BY <3>3
    <3> QED
      BY <3>4, <3>5, <3>6
  <2> QED
    BY <2>1, <2>2
<1>16. r.enabled = s.enabled /\ r.action = s.action /\ r.duration = s.duration
  BY <1>12
<1> HIDE DEF r, s
<1>15. CaseAside(Recoded(s)) = CaseAside(Recoded(r))
  BY <1>11, <1>13, <1>14, <1>16, SameRecoded
<1> QED
  BY <1>15 DEF r, s
\* A rule of an accepted form, opened and accepted as it is: the form shows
\* what it was made from.
LEMMA ReopenedForm ==
  ASSUME NEW f \in GoodForm, Accepted(f), NEW g \in GoodForm, Accepted(g),
         Shows(g, Recoded(RuleOf(f))), KeepsItsTexts(Recoded(RuleOf(f)))
  PROVE  /\ g.checked = f.checked
         /\ \A field \in f.checked : g.text[field] = f.text[field]
         /\ \A field \in f.checked \cap Processes : field \in g.regexp <=> field \in f.regexp
<1> DEFINE r == Recoded(RuleOf(f))
           cs == r.criteria
<1>1. f.checked # {} /\ f.checked \in SUBSET Fields /\ g.checked \in SUBSET Fields
  BY FormFields DEF Accepted
<1>4. \A k \in DOMAIN cs : /\ cs[k].data.word \notin NonAscii
                            /\ (cs[k].data.word \notin Slashed \/ ~r.list)
  BY DEF KeepsItsTexts
<1>7. /\ r \in Rule
      /\ \A k \in DOMAIN cs :
           /\ cs[k].operand \in f.checked
           /\ cs[k].data.word \notin NonAscii => cs[k].data = f.text[cs[k].operand]
           /\ cs[k].operand \in Processes => cs[k].type = TypeOf(f, cs[k].operand)
      /\ \A field \in f.checked : \E k \in DOMAIN cs : cs[k].operand = field
  BY <1>1, StoredOfForm
<1> HIDE DEF r
<1>2. /\ r \in Rule
      /\ \A k \in DOMAIN cs :
           /\ cs[k].operand \in f.checked /\ cs[k].data = f.text[cs[k].operand]
           /\ cs[k].operand \in Processes => cs[k].type = TypeOf(f, cs[k].operand)
      /\ \A field \in f.checked : \E k \in DOMAIN cs : cs[k].operand = field
  BY <1>4, <1>7
<1>8. \A k \in DOMAIN cs : Recode(cs[k].data) = cs[k].data
  <2>1. cs \in Seq(Criterion)
    BY <1>2, RuleParts
  <2> QED
    BY <1>4, <2>1, CriterionParts, RecodeIs
<1>3. \A k \in DOMAIN cs : FieldFor(cs[k].operand) = cs[k].operand
  <2>1. "dest.network" \notin Fields
    BY DEF Fields, FieldOrder, ToSet
  <2> QED
    BY <1>1, <1>2, <2>1 DEF FieldFor
<1>5. \A field \in f.checked : field \in g.checked
  <2>1. \A i \in DOMAIN cs : FieldFor(cs[i].operand) \in Fields =>
                              FieldFor(cs[i].operand) \in g.checked
    BY <1>2, ShownFields DEF r
  <2> QED
    BY <1>1, <1>2, <1>3, <2>1
<1>6. ASSUME NEW field \in g.checked
      PROVE  /\ field \in f.checked /\ g.text[field] = f.text[field]
             /\ field \in Processes => (field \in g.regexp <=> field \in f.regexp)
  <2>1. PICK i \in DOMAIN cs :
          /\ FieldFor(cs[i].operand) = field
          /\ cs[i].data.word \notin Slashed \/ ~r.list => g.text[field] = Recode(cs[i].data)
          /\ field \in Processes => (field \in g.regexp <=> cs[i].type = "regexp")
    BY <1>2, ShownText DEF r
  <2>2. cs[i].operand = field /\ g.text[field] = cs[i].data
    BY <1>3, <1>4, <1>8, <2>1
  <2>3. field \in f.checked /\ cs[i].data = f.text[field]
        /\ (field \in Processes => cs[i].type = TypeOf(f, field))
    BY <1>2, <2>2
  <2>4. field \in Processes => (TypeOf(f, field) = "regexp" <=> field \in f.regexp)
    BY DEF TypeOf, Processes, Lists
  <2> QED
    BY <2>1, <2>2, <2>3, <2>4
<1> QED
  BY <1>5, <1>6

\* A rule the form made, opened again and applied as it is, is stored as it
\* was, but for its case sensitivity, for letters outside ASCII, and for the
\* backslashes of a list (RuleDialog::editRule() and onApplyClicked(),
\* Rules::add()).
THEOREM ReopeningKeeps == RuleFormSpec => ReopenedIsTheSame
<1> DEFINE P == loaded # NoRule /\ Stores(edited) /\ own /\ KeepsItsTexts(loaded) =>
                  CaseAside(Stored(edited)) = CaseAside(loaded)
<1>1. FormFits => P
  <2> SUFFICES ASSUME FormFits, loaded # NoRule, Stores(edited), own, KeepsItsTexts(loaded)
               PROVE  CaseAside(Stored(edited)) = CaseAside(loaded)
    OBVIOUS
  <2>1. /\ form \in GoodForm /\ Accepted(form) /\ Stored(edited) = Recoded(RuleOf(form))
        /\ Shows(form, loaded)
    BY StoredIs
  <2>2. MadeByForm(loaded)
    BY DEF FormFits, DialogFits
  <2>3. PICK f \in GoodForm : Accepted(f) /\ loaded = Recoded(RuleOf(f))
    BY <2>2 DEF MadeByForm
  <2>4. /\ form.checked = f.checked
        /\ \A field \in f.checked : form.text[field] = f.text[field]
        /\ \A field \in f.checked \cap Processes :
             field \in form.regexp <=> field \in f.regexp
    BY <2>1, <2>3, ReopenedForm
  <2>5. f.checked # {}
    BY <2>3 DEF Accepted
  <2>6. /\ loaded.enabled = f.enabled /\ loaded.action = f.action
        /\ loaded.duration = f.durations[f.duration]
    BY <2>3, <2>5, StoredOfForm
  <2>7. /\ form.enabled = f.enabled /\ form.action = f.action
        /\ form.durations[form.duration] = f.durations[f.duration]
    BY <2>1, <2>6 DEF Shows
  <2>8. CaseAside(Recoded(RuleOf(form))) = CaseAside(Recoded(RuleOf(f)))
    BY <2>1, <2>4, <2>5, <2>7, SameForms
  <2> QED
    BY <2>1, <2>3, <2>8
<1>2. FormFits => [P]_ruleFormVars
  BY <1>1
<1>3. ReopenedIsTheSame <=> [][P]_ruleFormVars
  BY DEF ReopenedIsTheSame
<1> HIDE DEF P
<1> QED
  BY <1>2, <1>3, AllFormsFit, PTL
=============================================================================
