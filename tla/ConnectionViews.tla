--------------------------- MODULE ConnectionViews ---------------------------
(***************************************************************************)
(* The queries behind the details of the main window's tabs                *)
(* (src/src/main_window.cpp): the connections of a node, a rule, a host, a *)
(* program, an address, a port or a user.  Each view groups the rows of    *)
(* `connections' and shows one row for each group: its newest member, from *)
(* which SQLite takes the columns that are not grouped, and their number.  *)
(*                                                                         *)
(* A row of the table is a record of its columns but src_port, by which no *)
(* query tells rows apart.  The times of the rows are taken for distinct.  *)
(***************************************************************************)
EXTENDS Naturals, FiniteSets

CONSTANTS InternalRule,   \* internalDnsRuleName()
          NoHost,         \* dst_host of a connection made to an address
          Named, NameOf   \* the uids getpwuid_r() knows, and their names

VARIABLE table            \* the set of rows of `connections'

Classes(rows, Key(_)) == {{s \in rows : Key(s) = Key(r)} : r \in rows}
Newest(rows) == CHOOSE r \in rows : \A s \in rows : s.time <= r.time

\* SELECT MAX(time), ..., COUNT(...) GROUP BY Key
Grouped(rows, Key(_)) ==
  {[newest |-> Newest(g), hits |-> Cardinality(g)] : g \in Classes(rows, Key)}

\* ORDER BY time DESC LIMIT limit
FirstOf(groups, limit) ==
  {g \in groups : Cardinality({h \in groups : h.newest.time > g.newest.time}) < limit}

Shown(groups) == {g \in groups : g.newest.rule # InternalRule}

Destination(r) == IF r.dst_host = NoHost THEN r.dst_ip ELSE r.dst_host

-----------------------------------------------------------------------------
(* One operator for each refresh...Connections(): WHERE, GROUP BY, and     *)
(* whether the rows of the internal rule are dropped before the limit is   *)
(* applied (the loop counts what it adds) or after it (the query counts).  *)

NodeConnections(node, limit) ==
  FirstOf(Shown(Grouped({r \in table : r.node = node},
            LAMBDA r : <<r.action, r.uid, r.protocol, r.dst_ip, r.dst_host, r.dst_port,
                         r.process, r.process_args, r.process_cwd, r.rule>>)), limit)

\* The internal rule has no row in the rules tab that could be opened.
RuleConnections(rule, node, limit) ==
  FirstOf(Grouped({r \in table : r.rule = rule /\ r.node = node},
            LAMBDA r : <<r.process, r.process_args, r.uid, Destination(r), r.dst_port>>), limit)

HostConnections(host, limit) ==
  Shown(FirstOf(Grouped({r \in table : r.dst_host = host},
            LAMBDA r : <<r.pid, r.process, r.process_args, r.src_ip, r.dst_ip, r.dst_port,
                         r.protocol, r.action, r.node>>), limit))

ProcConnections(process, limit) ==
  Shown(FirstOf(Grouped({r \in table : r.process = process},
            LAMBDA r : <<r.src_ip, r.dst_ip, r.dst_host, r.dst_port, r.uid, r.action,
                         r.node, r.pid, r.process_args>>), limit))

AddrConnections(addr, limit) ==
  Shown(FirstOf(Grouped({r \in table : r.dst_ip = addr},
            LAMBDA r : <<r.pid, r.process, r.process_args, r.src_ip, r.dst_port,
                         Destination(r), r.protocol, r.action, r.uid, r.node>>), limit))

PortConnections_AnyAction(port, limit) ==
  Shown(FirstOf(Grouped({r \in table : r.dst_port = port},
            LAMBDA r : <<r.pid, r.process, r.process_args, Destination(r), r.src_ip,
                         r.dst_ip, r.protocol, r.uid, r.node>>), limit))

PortConnections(port, limit) ==
  Shown(FirstOf(Grouped({r \in table : r.dst_port = port},
            LAMBDA r : <<r.pid, r.process, r.process_args, Destination(r), r.src_ip,
                         r.dst_ip, r.protocol, r.action, r.uid, r.node>>), limit))

\* The overview of the users shows "name (uid)", or the uid of an unknown user.
FormatUserUidDisplay(uid) ==
  IF uid \in Named THEN [name |-> NameOf[uid], uid |-> uid] ELSE [uid |-> uid]

\* What is between the brackets, or all of it.
UserConnections(user, limit) ==
  Shown(FirstOf(Grouped({r \in table : r.uid = user.uid},
            LAMBDA r : <<r.pid, r.process, r.process_args, r.src_ip, r.dst_ip, r.dst_host,
                         r.dst_port, r.protocol, r.action, r.node>>), limit))

-----------------------------------------------------------------------------
(* What each view says of a connection, from its SELECT list: all columns  *)
(* but the time, the number, the rule and the directory.  The rule's view  *)
(* shows a protocol and the host's view a user that they do not group by.  *)

NodeSays(r) == <<r.action, r.uid, r.protocol, r.dst_ip, r.dst_host, r.dst_port,
                 r.process, r.process_args>>
RuleSays(r) == <<r.node, r.uid, r.dst_port, Destination(r), r.process, r.process_args>>
HostSays(r) == <<r.node, r.action, r.protocol, r.dst_port, r.dst_ip, r.process, r.pid,
                 r.process_args>>
ProcSays(r) == <<r.node, r.action, r.uid, Destination(r), r.dst_port, r.pid, r.process_args>>
AddrSays(r) == <<r.node, r.action, r.uid, r.protocol, Destination(r), r.dst_port,
                 r.process, r.pid, r.process_args>>
PortSays(r) == <<r.node, r.action, r.uid, r.protocol, r.dst_ip, Destination(r),
                 r.process, r.pid, r.process_args>>
UserSays(r) == <<r.node, r.action, r.protocol, r.dst_ip, r.dst_host, r.dst_port,
                 r.process, r.pid, r.process_args>>

\* A connection can be found in a view: one row says of it what it is.  A newer
\* connection of the same kind may have been the internal rule's: that hides both.
Found(r, groups, Says(_)) ==
  \/ \E g \in groups : Says(g.newest) = Says(r)
  \/ \E s \in table : s.rule = InternalRule /\ s.time > r.time /\ Says(s) = Says(r)

\* A connection among the newest of the table is found in the details of its
\* node, rule, host, program, address, port and user: no query merges it into a
\* row that says another thing, and no limit that the events tab is held to
\* hides it.
FoundInDetails(r, limit) ==
  /\ Found(r, NodeConnections(r.node, limit), NodeSays)
  /\ Found(r, RuleConnections(r.rule, r.node, limit), RuleSays)
  /\ Found(r, HostConnections(r.dst_host, limit), HostSays) \/ r.dst_host = NoHost
  /\ Found(r, ProcConnections(r.process, limit), ProcSays)
  /\ Found(r, AddrConnections(r.dst_ip, limit), AddrSays)
  /\ Found(r, PortConnections(r.dst_port, limit), PortSays)
  /\ Found(r, UserConnections(FormatUserUidDisplay(r.uid), limit), UserSays)
=============================================================================
