---------------------------- MODULE AlarmService ----------------------------
(***************************************************************************)
(* What the timer component promises its users, without rows, handles,     *)
(* threads and time: an alarm that was set is pending until it is called   *)
(* or deleted; only pending alarms are called, one at a time; a one-shot   *)
(* alarm is no longer pending when its callback runs, so that the callback *)
(* may set it again, and a periodic one still is.                          *)
(***************************************************************************)
CONSTANTS
  Callbacks,  \* what users register
  NoCallback  \* no callback runs

VARIABLES
  once,    \* one-shot alarms pending
  cyclic,  \* periodic alarms pending
  active   \* the callback that runs

serviceVars == <<once, cyclic, active>>

ServiceInit ==
  /\ once = {}
  /\ cyclic = {}
  /\ active = NoCallback

\* Nobody sets an alarm that is pending: it would be pending twice.
Set(c) ==
  /\ c \notin once \cup cyclic
  /\ \/ once' = once \cup {c} /\ cyclic' = cyclic
     \/ cyclic' = cyclic \cup {c} /\ once' = once
  /\ active' = active

Delete(c) ==
  /\ c \in once \cup cyclic
  /\ once' = once \ {c}
  /\ cyclic' = cyclic \ {c}
  /\ active' = active

Start(c) ==
  /\ active = NoCallback
  /\ c \in once \cup cyclic
  /\ active' = c
  /\ once' = once \ {c}
  /\ cyclic' = cyclic

Finish ==
  /\ active # NoCallback
  /\ active' = NoCallback
  /\ UNCHANGED <<once, cyclic>>

ServiceNext ==
  \/ \E c \in Callbacks : Set(c) \/ Delete(c) \/ Start(c)
  \/ Finish

ServiceSpec == ServiceInit /\ [][ServiceNext]_serviceVars

=============================================================================
