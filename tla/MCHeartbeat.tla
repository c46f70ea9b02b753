---------------------------- MODULE MCHeartbeat -----------------------------
(* Small instances of Heartbeat and Recovery for TLC.                      *)
EXTENDS Recovery

CONSTANTS w1, w2

=============================================================================
