------------------------------ MODULE Resolver ------------------------------
(***************************************************************************)
(* Names for addresses: NetIdentityResolver and its one ResolverThread     *)
(* (src/src/net_identity_resolver.cpp).  The GUI thread asks for an        *)
(* address with request(), later reads the answer with lookup(); the       *)
(* worker takes addresses from a queue, asks the system's resolver and     *)
(* leaves when it finds the queue empty.  m_cache and m_queue are shared   *)
(* under m_lock: each action is one critical section, or one access        *)
(* outside of it.                                                          *)
(***************************************************************************)
EXTENDS Naturals, Sequences, SequencesExt

CONSTANTS Addrs, NoAddr

ASSUME AddrsAssumption == NoAddr \notin Addrs

VARIABLES
  cache,      \* m_cache: what is known of an address
  stale,      \* addresses whose timestamp is older than the TTL
  queue,      \* m_queue
  gui, asks,  \* where request() is, and for which address
  worker,     \* where ResolverThread::run() is, "stopped" when not running()
  work,       \* the address it has in hand
  posted      \* NetIdentityResolvedEvents on their way to the main window

resolverVars == <<cache, stale, queue, gui, asks, worker, work, posted>>
guiVars == <<gui, asks>>
workerVars == <<worker, work>>

\* resolving and resolved are never both set, nor both clear in an entry (110-118,
\* 221-222), so three values stand for the two flags and the missing entry.
Known == {"absent", "resolving", "resolved"}

ResolverTypeOK ==
  /\ cache \in [Addrs -> Known]
  /\ stale \subseteq {a \in Addrs : cache[a] # "absent"}
  /\ queue \in Seq(Addrs)
  /\ gui \in {"idle", "enqueue", "check"}
  /\ asks \in Addrs \cup {NoAddr}
  /\ worker \in {"stopped", "take", "leave", "resolve", "finish", "post", "pause"}
  /\ work \in Addrs \cup {NoAddr}
  /\ work = NoAddr <=> worker \in {"stopped", "take", "leave"}
  /\ posted \subseteq Addrs

ResolverInit ==
  /\ cache = [a \in Addrs |-> "absent"]
  /\ stale = {} /\ queue = <<>>
  /\ gui = "idle" /\ asks = NoAddr
  /\ worker = "stopped" /\ work = NoAddr
  /\ posted = {}

-----------------------------------------------------------------------------
(* The clock.                                                               *)

\* An hour passes over an entry.
Age(a) ==
  /\ cache[a] # "absent" /\ a \notin stale
  /\ stale' = stale \cup {a}
  /\ UNCHANGED <<cache, queue, guiVars, workerVars, posted>>

-----------------------------------------------------------------------------
(* The GUI thread.                                                          *)

\* Which entries cleanupLocked() drops (277).
Expired_EvenResolving(a) == a \in stale
Expired(a) == a \in stale /\ cache[a] # "resolving"

Clean == [a \in Addrs |-> IF Expired(a) THEN "absent" ELSE cache[a]]
Cleanup ==
  /\ cache' = Clean
  /\ stale' = {a \in stale : ~Expired(a)}

\* lookup() as the details pane calls it (287-307); what it returns is derived.
Lookup ==
  /\ gui = "idle"
  /\ Cleanup
  /\ UNCHANGED <<queue, guiVars, workerVars, posted>>

\* request(), up to the unlock (309-326): an address that is known or on its way
\* is not asked for again.
Request(a) ==
  /\ gui = "idle"
  /\ Cleanup
  /\ \/ Clean[a] # "absent" /\ UNCHANGED guiVars
     \/ Clean[a] = "absent" /\ gui' = "enqueue" /\ asks' = a
  /\ UNCHANGED <<queue, workerVars, posted>>

\* enqueue() under the lock (102-124): mark and queue, unless somebody else did.
Enqueue ==
  /\ gui = "enqueue"
  /\ IF cache[asks] = "resolving"
     THEN /\ gui' = "idle" /\ asks' = NoAddr
          /\ UNCHANGED <<cache, stale, queue>>
     ELSE /\ cache' = [cache EXCEPT ![asks] = "resolving"]
          /\ stale' = stale \ {asks}
          /\ queue' = Append(queue, asks)
          /\ gui' = "check" /\ UNCHANGED asks
  /\ UNCHANGED <<workerVars, posted>>

\* if (!running()) start(), after the unlock (126-127).
StartWorker ==
  /\ gui = "check"
  /\ worker' = IF worker = "stopped" THEN "take" ELSE worker
  /\ gui' = "idle" /\ asks' = NoAddr
  /\ UNCHANGED <<cache, stale, queue, work, posted>>

\* customEvent(): the row of the address gets its name (main_window.cpp:211-215).
ShowName(a) ==
  /\ gui = "idle"
  /\ a \in posted
  /\ posted' = posted \ {a}
  /\ UNCHANGED <<cache, stale, queue, guiVars, workerVars>>

-----------------------------------------------------------------------------
(* The worker, ResolverThread::run().                                       *)

\* Pop the queue under the lock; leave the loop when there was nothing (136-144).
Take ==
  /\ worker = "take"
  /\ \/ /\ queue # <<>>
        /\ work' = Head(queue) /\ queue' = Tail(queue)
        /\ worker' = "resolve"
     \/ /\ queue = <<>>
        /\ worker' = "leave"
        /\ UNCHANGED <<work, queue>>
  /\ UNCHANGED <<cache, stale, guiVars, posted>>

\* run() returns: from here on running() is false (external).
Leave ==
  /\ worker = "leave"
  /\ worker' = "stopped"
  /\ UNCHANGED <<cache, stale, queue, guiVars, work, posted>>

\* getnameinfo() returns, with a name or without (161-209).
Resolve ==
  /\ worker = "resolve"
  /\ worker' = "finish"
  /\ UNCHANGED <<cache, stale, queue, guiVars, work, posted>>

\* finish() under the lock (216-226).
Finish ==
  /\ worker = "finish"
  /\ cache' = IF cache[work] = "absent" THEN cache
              ELSE [cache EXCEPT ![work] = "resolved"]
  /\ stale' = stale \ {work}
  /\ worker' = "post"
  /\ UNCHANGED <<queue, guiVars, work, posted>>

Post ==
  /\ worker = "post"
  /\ posted' = posted \cup {work}
  /\ worker' = "pause"
  /\ UNCHANGED <<cache, stale, queue, guiVars, work>>

\* usleep(50 ms) between two addresses (149).
Pause_ThenLeaves ==
  /\ worker = "pause"
  /\ worker' = "leave" /\ work' = NoAddr
  /\ UNCHANGED <<cache, stale, queue, guiVars, posted>>

Pause ==
  /\ worker = "pause"
  /\ worker' = "take" /\ work' = NoAddr
  /\ UNCHANGED <<cache, stale, queue, guiVars, posted>>

-----------------------------------------------------------------------------
Clock == \E a \in Addrs : Age(a)
ResolverUser == Lookup \/ \E a \in Addrs : Request(a)
Gui == Enqueue \/ StartWorker \/ \E a \in Addrs : ShowName(a)
Worker == Take \/ Leave \/ Resolve \/ Finish \/ Post \/ Pause
ResolverNext == Clock \/ ResolverUser \/ Gui \/ Worker

\* The threads run; the user owes no request and an hour need not pass.
ResolverFairness == WF_resolverVars(Gui) /\ WF_resolverVars(Worker)
ResolverSpec == ResolverInit /\ [][ResolverNext]_resolverVars
ResolverFairSpec == ResolverSpec /\ ResolverFairness

-----------------------------------------------------------------------------
(* Properties                                                               *)

InHand(a) == work = a /\ worker \in {"resolve", "finish"}

\* "Deduplicate and avoid parallel resolves" (103): an address is in work once.
ResolvedOnce ==
  /\ IsInjective(queue)
  /\ \A i \in 1..Len(queue) : ~InHand(queue[i])

\* An entry is marked resolving exactly while somebody is bound to clear the mark:
\* it waits in the queue or the worker has it, however long the resolver takes
\* and however often the cache is cleaned meanwhile.
ResolvingIsInWork ==
  \A a \in Addrs :
    cache[a] = "resolving" <=> a \in ToSet(queue) \/ InHand(a)

\* What holds in every state: the types, and addresses that are in work exactly once
\* while they are marked resolving.
ResolverSafe == ResolverTypeOK /\ ResolvedOnce /\ ResolvingIsInWork

\* As long as the worker has not decided to leave, what is queued gets resolved
\* and the GUI is told, whatever else is queued meanwhile (134-150, 228-229).
QueueIsServed ==
  \A a \in Addrs :
    (a \in ToSet(queue) /\ worker \notin {"stopped", "leave"}) ~> a \in posted
=============================================================================
