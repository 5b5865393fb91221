------------------------------- MODULE MCSDO -------------------------------
(***************************************************************************)
(* Instances of SDO for TLC.  One connection from master to slave, or two:  *)
(* each node is then a client of the other and a server for it at once.    *)
(***************************************************************************)
EXTENDS SDO, TLC

CONSTANTS master, slave, k1, k2, i1, i2, v1, v2, v3

\* A value that fits an initiate frame, one of two segments, one of three; a
\* torn one has two.
MCSize == (v1 :> 4) @@ (v2 :> 14) @@ (v3 :> 15) @@ (Mixed :> 14)

MCObjects == (i1 :> {v1, v2}) @@ (i2 :> {v3})

MCClient == (k1 :> master) @@ (k2 :> slave)
MCServer == (k1 :> slave) @@ (k2 :> master)

MCClient1 == k1 :> master
MCServer1 == k1 :> slave
=============================================================================
