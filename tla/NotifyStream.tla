---------------------------- MODULE NotifyStream ----------------------------
(***************************************************************************)
(* The notification streams to the daemons: NotificationsCallData and the  *)
(* registry m_activeNotifs (src/src/grpc_server.cpp).                      *)
(*                                                                         *)
(* RequestNotifications() (317) names both completion queues: the tags of  *)
(* reads and writes come out of m_cq, those of the accept and the alarm    *)
(* out of m_notifyCq.  Each queue has a thread, so proceed() of one object *)
(* runs in two threads, over a plain m_state; the GUI thread is a third    *)
(* party that queues notifications under m_notifsLock.  Each action is one *)
(* access to shared state or one critical section.  A step on a freed      *)
(* object, or a second Read or Write while one is outstanding, sets fault  *)
(* and the model stops there.                                              *)
(***************************************************************************)
EXTENDS Naturals, FiniteSets

CONSTANTS Streams, NoStream,  \* NotificationsCallData objects
          Keys,               \* "proto:addr" of a daemon
          MaxStreams,         \* bound: streams the daemons open
          MaxSends,           \* bound: notifications the GUI sends
          MaxReplies,         \* bound: messages the daemons send
          MayDisconnect       \* TRUE: a daemon may go away

ASSUME StreamsAssumption == NoStream \notin Streams /\ Keys # {}
ASSUME LimitsAssumption ==
  /\ MaxStreams \in Nat /\ MaxSends \in Nat /\ MaxReplies \in Nat
  /\ MayDisconnect \in BOOLEAN

VARIABLES
  life,          \* "none", "live", "freed"
  state,         \* m_state
  writePending,  \* m_writePending
  pendingNotif,  \* m_pendingNotif: the number of the send, 0 if none yet
  link,          \* the stream as gRPC sees it
  peer,          \* peerAddr(), normalised
  reads, writes, \* streams with a Read / a Write outstanding
  alarms,        \* streams whose m_alarm is set
  tags,          \* tags waiting in each queue
  at, call,      \* where each queue's thread is in proceed(), on which object
  activeNotifs,  \* m_activeNotifs: key -> stream
  todo, target,  \* GUI: keys still to serve; the stream whose alarm it is to set
  sends,         \* GUI: notifications sent so far
  fate,          \* what became of send n for key k
  replies,       \* messages the daemons sent, and those forwarded to the GUI
  swallowed,     \* history: streams whose first message was taken for the accept
  fault

objects == <<life, state, writePending, pendingNotif>>
heard == <<replies, swallowed>>
wire == <<link, peer, reads, writes, alarms, heard>>
guiVars == <<todo, target, sends>>
vars == <<objects, wire, tags, at, call, activeNotifs, guiVars, fate, fault>>

Queues == {"cq", "notify"}
TagKinds == [cq |-> {"READ", "WRITE"}, notify |-> {"ACCEPT", "ALARM"}]
Tag(s, k, ok) == [call |-> s, kind |-> k, ok |-> ok]
Places == {"next", "register", "firstRead", "setActive", "alarm", "write",
           "writeDone", "readAgain", "unregister", "setDone", "delete"}
Fates == {"none", "noStream", "dropped", "pending", "written"}
Faults == {"none", "useAfterFree", "doubleDelete", "alarmOnFreed", "sendToFreed",
           "overlap"}

TypeOK ==
  /\ life \in [Streams -> {"none", "live", "freed"}]
  /\ state \in [Streams -> {"CREATE", "CONNECTED", "ACTIVE", "DONE"}]
  /\ writePending \in [Streams -> BOOLEAN]
  /\ pendingNotif \in [Streams -> 0..MaxSends]
  /\ link \in [Streams -> {"idle", "open", "closed"}]
  /\ peer \in [Streams -> Keys]
  /\ reads \subseteq Streams /\ writes \subseteq Streams /\ alarms \subseteq Streams
  /\ \A q \in Queues : tags[q] \subseteq [call: Streams, kind: TagKinds[q], ok: BOOLEAN]
  /\ at \in [Queues -> Places]
  /\ call \in [Queues -> Streams \cup {NoStream}]
  /\ \A q \in Queues : call[q] = NoStream <=> at[q] = "next"
  /\ activeNotifs \in [Keys -> Streams \cup {NoStream}]
  /\ todo \subseteq Keys /\ target \in Streams \cup {NoStream}
  /\ sends \in 0..MaxSends
  /\ fate \in [1..MaxSends -> [Keys -> Fates]]
  /\ replies \in [sent: 0..MaxReplies, forwarded: 0..MaxReplies]
  /\ swallowed \subseteq Streams
  /\ fault \in Faults

FirstStream == CHOOSE s \in Streams : TRUE

\* initAccepts() has run: one object waits for a daemon to connect.
Init ==
  /\ life = [s \in Streams |-> IF s = FirstStream THEN "live" ELSE "none"]
  /\ state = [s \in Streams |-> IF s = FirstStream THEN "CONNECTED" ELSE "CREATE"]
  /\ writePending = [s \in Streams |-> FALSE]
  /\ pendingNotif = [s \in Streams |-> 0]
  /\ link = [s \in Streams |-> "idle"]
  /\ peer = [s \in Streams |-> CHOOSE k \in Keys : TRUE]
  /\ reads = {} /\ writes = {} /\ alarms = {}
  /\ tags = [q \in Queues |-> {}]
  /\ at = [q \in Queues |-> "next"] /\ call = [q \in Queues |-> NoStream]
  /\ activeNotifs = [k \in Keys |-> NoStream]
  /\ todo = {} /\ target = NoStream /\ sends = 0
  /\ fate = [n \in 1..MaxSends |-> [k \in Keys |-> "none"]]
  /\ replies = [sent |-> 0, forwarded |-> 0] /\ swallowed = {}
  /\ fault = "none"

Deliver(q, s, k, ok) == tags' = [tags EXCEPT ![q] = @ \cup {Tag(s, k, ok)}]

-----------------------------------------------------------------------------
\* After undefined behaviour nothing is said any more: every action needs NoFault.
NoFault == fault = "none"

(* The daemons and gRPC (external).                                         *)

Connect(s, k) ==
  /\ NoFault
  /\ life[s] = "live" /\ state[s] = "CONNECTED" /\ link[s] = "idle"
  /\ Cardinality({t \in Streams : link[t] # "idle"}) < MaxStreams
  /\ link' = [link EXCEPT ![s] = "open"]
  /\ peer' = [peer EXCEPT ![s] = k]
  /\ Deliver("notify", s, "ACCEPT", TRUE)
  /\ UNCHANGED <<objects, reads, writes, alarms, heard, at, call, activeNotifs,
                 guiVars, fate, fault>>

\* A message of the daemon completes the outstanding read.  The daemon need not have
\* been spoken to: its client says hello as soon as it has opened the stream.
Reply(s) ==
  /\ NoFault
  /\ link[s] = "open" /\ s \in reads
  /\ replies.sent < MaxReplies
  /\ reads' = reads \ {s}
  /\ replies' = [replies EXCEPT !.sent = @ + 1]
  /\ Deliver("cq", s, "READ", TRUE)
  /\ UNCHANGED <<objects, link, peer, writes, alarms, swallowed, at, call, activeNotifs,
                 guiVars, fate, fault>>

WriteCompletes(s) ==
  /\ NoFault
  /\ link[s] = "open" /\ s \in writes
  /\ writes' = writes \ {s}
  /\ fate' = [fate EXCEPT ![pendingNotif[s]][peer[s]] = "written"]
  /\ Deliver("cq", s, "WRITE", TRUE)
  /\ UNCHANGED <<objects, link, peer, reads, alarms, heard, at, call, activeNotifs,
                 guiVars, fault>>

\* m_alarm was set to go off at once.
AlarmFires(s) ==
  /\ NoFault
  /\ s \in alarms
  /\ alarms' = alarms \ {s}
  /\ Deliver("notify", s, "ALARM", TRUE)
  /\ UNCHANGED <<objects, link, peer, reads, writes, heard, at, call, activeNotifs,
                 guiVars, fate, fault>>

\* Everything outstanding on the stream fails.
Disconnect(s) ==
  /\ NoFault
  /\ MayDisconnect
  /\ link[s] = "open"
  /\ link' = [link EXCEPT ![s] = "closed"]
  /\ reads' = reads \ {s} /\ writes' = writes \ {s}
  /\ tags' = [tags EXCEPT !["cq"] = @
                \cup (IF s \in reads THEN {Tag(s, "READ", FALSE)} ELSE {})
                \cup (IF s \in writes THEN {Tag(s, "WRITE", FALSE)} ELSE {})]
  /\ UNCHANGED <<objects, peer, alarms, heard, at, call, activeNotifs, guiVars,
                 fate, fault>>

-----------------------------------------------------------------------------
(* proceed(), in the thread of queue q.                                     *)

Goto(q, s, place) ==
  at' = [at EXCEPT ![q] = place] /\ call' = [call EXCEPT ![q] = s]
Return(q) == Goto(q, NoStream, "next")
At(q, s, place) == NoFault /\ at[q] = place /\ call[q] = s /\ life[s] = "live"

\* A failed tag tears the stream down, once (305-310).
OnFailure(s) == IF state[s] # "DONE" THEN "unregister" ELSE "delete"

\* The tags of a stream that is up (331-360).
OnActive(k) ==
  CASE k = "ALARM"  -> "alarm"
    [] k = "WRITE"  -> "writeDone"
    [] k = "READ"   -> "readAgain"
    [] k = "ACCEPT" -> "next"

\* Which branch of proceed() a tag takes: m_state decides before the tag does.
Branch(m) ==
  CASE ~m.ok /\ m.kind = "ALARM" -> "next"
    [] ~m.ok /\ m.kind # "ALARM" -> OnFailure(m.call)
    [] m.ok /\ state[m.call] = "CONNECTED" -> "register"
    [] m.ok /\ state[m.call] = "ACTIVE" -> OnActive(m.kind)
    [] m.ok /\ state[m.call] = "DONE" -> "delete"

\* Next() returns a tag and proceed() branches (300-362); an ACTIVE stream
\* forwards the reply it has read (353).  A Read that completes before m_state is
\* ACTIVE is taken for an accept (322): what it brought goes nowhere.
Take(q, m) ==
  /\ NoFault
  /\ at[q] = "next" /\ m \in tags[q] /\ life[m.call] = "live"
  /\ tags' = [tags EXCEPT ![q] = @ \ {m}]
  /\ IF Branch(m) = "next" THEN Return(q) ELSE Goto(q, m.call, Branch(m))
  /\ replies' = IF Branch(m) = "readAgain"
                THEN [replies EXCEPT !.forwarded = @ + 1] ELSE replies
  /\ swallowed' = IF m.kind = "READ" /\ Branch(m) = "register"
                  THEN swallowed \cup {m.call} ELSE swallowed
  /\ UNCHANGED <<objects, link, peer, reads, writes, alarms, activeNotifs, guiVars,
                 fate, fault>>

LockFree_NeverTaken == TRUE
LockFree == target = NoStream /\ todo = {}

\* CONNECTED: the next object, and registerNotifications() (323-324, 560-570).  Both
\* threads get here when an early reply is taken for an accept.  Bound: beyond
\* Streams no object is modelled, as if nobody connected to it.
Register(q, s) ==
  /\ At(q, s, "register")
  /\ LockFree
  /\ IF \E n \in Streams : life[n] = "none"
     THEN \E n \in Streams :
            /\ life[n] = "none"
            /\ life' = [life EXCEPT ![n] = "live"]
            /\ state' = [state EXCEPT ![n] = "CONNECTED"]
     ELSE UNCHANGED <<life, state>>
  /\ activeNotifs' = [activeNotifs EXCEPT ![peer[s]] = s]
  /\ Goto(q, s, "firstRead")
  /\ UNCHANGED <<writePending, pendingNotif, wire, tags, guiVars, fate, fault>>

\* m_stream.Read(): outstanding, or failed at once on a closed stream.
StartRead(s) ==
  IF link[s] = "open"
  THEN /\ reads' = reads \cup {s}
       /\ fault' = IF s \in reads THEN "overlap" ELSE fault
       /\ UNCHANGED tags
  ELSE /\ Deliver("cq", s, "READ", FALSE)
       /\ UNCHANGED <<reads, fault>>

FirstRead(q, s) ==
  /\ At(q, s, "firstRead")
  /\ StartRead(s)
  /\ Goto(q, s, "setActive")
  /\ UNCHANGED <<objects, link, peer, writes, alarms, heard, activeNotifs, guiVars, fate>>

\* m_state = ACTIVE, after the read may already have completed (326).
SetActive(q, s) ==
  /\ At(q, s, "setActive")
  /\ state' = [state EXCEPT ![s] = "ACTIVE"]
  /\ Return(q)
  /\ UNCHANGED <<life, writePending, pendingNotif, wire, tags, activeNotifs, guiVars,
                 fate, fault>>

\* ACTIVE, ALARM: look at m_writePending under m_writeLock (333-339) ...
SomethingToWrite_AfterAlarm(s) == ~writePending[s]
SomethingToWrite(s) == writePending[s]
OnAlarm(q, s) ==
  /\ At(q, s, "alarm")
  /\ IF SomethingToWrite(s) THEN Goto(q, s, "write") ELSE Return(q)
  /\ UNCHANGED <<objects, wire, tags, activeNotifs, guiVars, fate, fault>>

\* ... and write without it (340).
StartWrite(q, s) ==
  /\ At(q, s, "write")
  /\ IF link[s] = "open"
     THEN /\ writes' = writes \cup {s}
          /\ fault' = IF s \in writes THEN "overlap" ELSE fault
          /\ UNCHANGED tags
     ELSE /\ Deliver("cq", s, "WRITE", FALSE)
          /\ UNCHANGED <<writes, fault>>
  /\ Return(q)
  /\ UNCHANGED <<objects, link, peer, reads, alarms, heard, activeNotifs, guiVars, fate>>

\* ACTIVE, WRITE (343-345).
WriteDone(q, s) ==
  /\ At(q, s, "writeDone")
  /\ writePending' = [writePending EXCEPT ![s] = FALSE]
  /\ Return(q)
  /\ UNCHANGED <<life, state, pendingNotif, wire, tags, activeNotifs, guiVars, fate, fault>>

\* ACTIVE, READ: read on (358).
ReadAgain(q, s) ==
  /\ At(q, s, "readAgain")
  /\ StartRead(s)
  /\ Return(q)
  /\ UNCHANGED <<objects, link, peer, writes, alarms, heard, activeNotifs, guiVars, fate>>

\* unregisterNotifications() (572-582): only this object's own entry goes.
OwnsEntry_NotTested(s) == TRUE
OwnsEntry(s) == activeNotifs[peer[s]] = s
Unregister(q, s) ==
  /\ At(q, s, "unregister")
  /\ LockFree
  /\ activeNotifs' = IF OwnsEntry(s)
                     THEN [activeNotifs EXCEPT ![peer[s]] = NoStream]
                     ELSE activeNotifs
  /\ Goto(q, s, "setDone")
  /\ UNCHANGED <<objects, wire, tags, guiVars, fate, fault>>

SetDone(q, s) ==
  /\ At(q, s, "setDone")
  /\ state' = [state EXCEPT ![s] = "DONE"]
  /\ Goto(q, s, "delete")
  /\ UNCHANGED <<life, writePending, pendingNotif, wire, tags, activeNotifs, guiVars,
                 fate, fault>>

\* delete this (310, 363): destroying m_alarm cancels it, and its tag comes out
\* of m_notifyCq with ok = false.
Delete(q, s) ==
  /\ At(q, s, "delete")
  /\ life' = [life EXCEPT ![s] = "freed"]
  /\ alarms' = alarms \ {s}
  /\ IF s \in alarms THEN Deliver("notify", s, "ALARM", FALSE) ELSE UNCHANGED tags
  /\ Return(q)
  /\ UNCHANGED <<state, writePending, pendingNotif, link, peer, reads, writes, heard,
                 activeNotifs, guiVars, fate, fault>>

-----------------------------------------------------------------------------
(* The GUI thread: sendNotification() to one daemon, broadcastNotification() *)
(* to all (533-549).  m_notifsLock is held while todo or target is not empty. *)

\* The GUI follows a pointer of the registry: to an object that is gone?
SendFault(s) == IF s # NoStream /\ life[s] # "live" THEN "sendToFreed" ELSE fault

BeginSend ==
  /\ NoFault /\ LockFree
  /\ sends < MaxSends
  /\ sends' = sends + 1
  /\ todo' \in {{k} : k \in Keys} \cup {Keys}
  /\ UNCHANGED <<objects, wire, tags, at, call, activeNotifs, target, fate, fault>>

\* NotificationsCallData::sendNotification() up to the alarm (377-384).
Busy(s) == writePending[s]

Queue(k) ==
  LET s == activeNotifs[k] IN
  /\ NoFault /\ target = NoStream /\ k \in todo
  /\ todo' = todo \ {k}
  /\ fault' = SendFault(s)
  /\ \/ /\ s = NoStream
        /\ fate' = [fate EXCEPT ![sends][k] = "noStream"]
        /\ UNCHANGED <<writePending, pendingNotif, target>>
     \/ /\ s # NoStream /\ Busy(s)
        /\ fate' = [fate EXCEPT ![sends][k] = "dropped"]
        /\ UNCHANGED <<writePending, pendingNotif, target>>
     \/ /\ s # NoStream /\ ~Busy(s)
        /\ writePending' = [writePending EXCEPT ![s] = TRUE]
        /\ pendingNotif' = [pendingNotif EXCEPT ![s] = sends]
        /\ fate' = [fate EXCEPT ![sends][k] = "pending"]
        /\ target' = s
  /\ UNCHANGED <<life, state, wire, tags, at, call, activeNotifs, sends>>

\* m_alarm.Set() (389) cancels an alarm that is still set.
SetAlarm ==
  /\ NoFault
  /\ target # NoStream
  /\ fault' = SendFault(target)
  /\ IF target \in alarms THEN Deliver("notify", target, "ALARM", FALSE) ELSE UNCHANGED tags
  /\ alarms' = alarms \cup {target}
  /\ target' = NoStream
  /\ UNCHANGED <<objects, link, peer, reads, writes, heard, at, call, activeNotifs,
                 todo, sends, fate>>

-----------------------------------------------------------------------------
(* Undefined behaviour: the next step of a thread is on a freed object.     *)

ThreadFaults(q) ==
  /\ NoFault
  /\ \/ \E m \in tags[q] :
          /\ at[q] = "next" /\ life[m.call] = "freed"
          /\ fault' = IF m.kind = "ALARM" THEN "alarmOnFreed" ELSE "useAfterFree"
     \/ /\ at[q] # "next" /\ life[call[q]] = "freed"
        /\ fault' = IF at[q] = "delete" THEN "doubleDelete" ELSE "useAfterFree"
  /\ UNCHANGED <<objects, wire, tags, at, call, activeNotifs, guiVars, fate>>

-----------------------------------------------------------------------------
Daemon == \E s \in Streams :
            (\E k \in Keys : Connect(s, k)) \/ Reply(s) \/ Disconnect(s)
Grpc == \E s \in Streams : WriteCompletes(s) \/ AlarmFires(s)
Thread(q) ==
  \/ \E m \in tags[q] : Take(q, m)
  \/ \E s \in Streams :
       \/ Register(q, s) \/ FirstRead(q, s) \/ SetActive(q, s)
       \/ OnAlarm(q, s) \/ StartWrite(q, s) \/ WriteDone(q, s) \/ ReadAgain(q, s)
       \/ Unregister(q, s) \/ SetDone(q, s) \/ Delete(q, s)
  \/ ThreadFaults(q)
Gui == (\E k \in Keys : Queue(k)) \/ SetAlarm

Next == Daemon \/ Grpc \/ (\E q \in Queues : Thread(q)) \/ Gui \/ BeginSend

\* Threads run, gRPC completes what it was given; daemons and user owe nothing.
Fairness ==
  /\ \A q \in Queues : WF_vars(Thread(q))
  /\ WF_vars(Grpc) /\ WF_vars(Gui)
Spec == Init /\ [][Next]_vars
FairSpec == Spec /\ Fairness

-----------------------------------------------------------------------------
(* Properties                                                               *)

AllConnected == \A s \in Streams : link[s] # "closed"

\* The registry never leads the GUI to an object that is gone: an object takes its
\* entry out before it is deleted (306-310, 533-549).
RegistryIsLive ==
  \A k \in Keys : activeNotifs[k] # NoStream => life[activeNotifs[k]] = "live"

\* Nor is an object deleted while the GUI, holding m_notifsLock, is still setting
\* its alarm (535, 545, 574).
SendReachesLiveObject == fault # "sendToFreed"

\* An old stream that is torn down late does not unregister the stream of a
\* daemon that has reconnected (579): the entry of a stream that is up stays, or
\* goes to another stream.
ReconnectKeepsStream ==
  [][\A k \in Keys : \A s \in Streams :
       activeNotifs[k] = s /\ link[s] = "open" => activeNotifs'[k] # NoStream]_vars

\* While the daemons stay connected, the two threads that run proceed() over one
\* object never touch a freed one and never start a second Read or Write on it.
ConnectedNoFault == AllConnected => fault = "none"

\* Every message a daemon sent reaches the GUI once ("Forward notification reply to
\* GUI thread", 347), but for at most one of each stream, that came before m_state =
\* ACTIVE (326) and was taken for an accept.
RepliesForwarded ==
  AllConnected =>
    replies.sent = replies.forwarded + Cardinality(swallowed)
      + Cardinality({m \in tags["cq"] : m.kind = "READ" /\ m.ok})

\* A notification that was accepted for a stream is written to it, however the
\* alarm, an earlier write and the reads interleave (331-345, 382-389), as long as
\* its daemon stays connected.
PendingIsWritten ==
  \A n \in 1..MaxSends : \A k \in Keys :
    fate[n][k] = "pending" ~>
      (fate[n][k] = "written" \/ fault # "none" \/ ~AllConnected)

\* What holds in every state: the types, a registry and a GUI that only reach live
\* objects, and, while the daemons stay, no fault and no reply lost or doubled but
\* the early one of a stream.
Safe ==
  /\ TypeOK /\ RegistryIsLive /\ SendReachesLiveObject
  /\ ConnectedNoFault /\ RepliesForwarded
=============================================================================
