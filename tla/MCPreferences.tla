--------------------------- MODULE MCPreferences ---------------------------
(* Two daemons; a configuration with a server, and one without whose       *)
(* duration the form does not list.                                        *)
EXTENDS Preferences
CONSTANTS n1, n2
MCNodeOrder == <<n1, n2>>
MCReported == {[duration |-> "always", address |-> "unix"],
               [duration |-> "30s", address |-> NoServer]}
=============================================================================
