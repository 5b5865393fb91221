----------------------------- MODULE MCNetwork -----------------------------
(***************************************************************************)
(* Instances of Network for TLC.  Node 1, the master, guards node 2; node  *)
(* 2, a slave, consumes node 1's heartbeat and produces none by default.   *)
(***************************************************************************)
EXTENDS Network

MCEntries == <<<<>>, <<[node |-> 1, time |-> 3]>>>>

MCDefaults ==
  <<[ProducerHeartBeatTime |-> 1, GuardTime |-> 2, LifeTimeFactor |-> 2],
    [ProducerHeartBeatTime |-> 0, GuardTime |-> 0, LifeTimeFactor |-> 0]>>
=============================================================================
