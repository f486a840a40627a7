---------------------------- MODULE AbstractLock ----------------------------
(***************************************************************************)
(* What "reliable locks for shell scripts" promises: a lock that at most   *)
(* one client holds, taken only when nobody holds it, and free again once  *)
(* its holder has released it or died.                                     *)
(***************************************************************************)
CONSTANT Clients
VARIABLE held   \* the clients that believe they hold the lock

LInit == held = {}

Acquire(c) == held = {} /\ held' = {c}

\* The holder gives the lock back, or dies.
Drop(c) == held = {c} /\ held' = {}

LNext == \E c \in Clients : Acquire(c) \/ Drop(c)

LSpec == LInit /\ [][LNext]_held
=============================================================================
