-------------------------- MODULE MCRedisJobQueue ---------------------------
(* Small instances of RedisJobQueue for TLC.                               *)
EXTENDS RedisJobQueue, TLC

CONSTANTS j1, j2, j3

(* A job that is in reach at any time, and one only when it is due.        *)
HighAndLow == j1 :> 1 @@ j3 :> 3

(* JobCreate.priority, unless the client chooses.                          *)
DefaultPriority == j2 :> 2

=============================================================================
