----------------------------- MODULE MCResolver -----------------------------
(* Three addresses: one in hand, one queued, one asked for meanwhile. *)
EXTENDS Resolver
CONSTANTS a1, a2, a3
AddrSet == {a1, a2, a3}
=============================================================================
