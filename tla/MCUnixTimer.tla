---------------------------- MODULE MCUnixTimer ----------------------------
(***************************************************************************)
(* UnixTimer with one-tick granularity; TIMEVAL_MAX is small, so that the  *)
(* unsigned sums of the code can wrap.                                     *)
(***************************************************************************)
EXTENDS UnixTimer
CONSTANTS u1, u2, init, none
MCUsers == {u1, u2}
MCCallbacks == MCUsers \cup {init}
OneTick == {1}
LongValues == {1, 3}
BothKinds == {0, 2}
ATickLess == {-1}
NoTears == {}
=============================================================================
