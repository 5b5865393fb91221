----------------------------- MODULE MCSDOBlock -----------------------------
(***************************************************************************)
(* An instance of SDOBlock for TLC: one connection from master to slave.   *)
(***************************************************************************)
EXTENDS SDOBlock, TLC

CONSTANTS master, slave, k1, i1, i2, v1, v2, v3

\* A value of two full segments, and two of four segments, more than a block.
MCSize == (v1 :> 14) @@ (v2 :> 22) @@ (v3 :> 22) @@ (Mixed :> 22)

MCObjects == (i1 :> {v1, v2}) @@ (i2 :> {v3})

MCClient == k1 :> master
MCServer == k1 :> slave

=============================================================================
