----------------------------- MODULE TurnMutex -----------------------------
(***************************************************************************)
(* What the per-user lock promises the callers of runExclusive: the turns  *)
(* of one user run one at a time.  UserLock implements this specification  *)
(* while its renewals are on time.                                         *)
(***************************************************************************)
CONSTANT Callers   (* whatever calls runExclusive for one user *)

VARIABLE running   (* the callers whose work() is in progress *)

Init == running = {}

Enter(c) == /\ running = {}
            /\ running' = {c}

\* work() settled, or its process died.
Leave(c) == /\ running = {c}
            /\ running' = {}

Next == \E c \in Callers : Enter(c) \/ Leave(c)

Spec == Init /\ [][Next]_running
=============================================================================
