--------------------------- MODULE MCNotifyStream ---------------------------
(* Three stream objects for one daemon: its first stream, the one it connects *)
(* again with while the first is torn down, and one more object: the one that *)
(* then waits, or a second one that an early message has had made.            *)
EXTENDS NotifyStream
CONSTANTS s1, s2, s3, k1
StreamSet == {s1, s2, s3}
OneKey == {k1}
=============================================================================
