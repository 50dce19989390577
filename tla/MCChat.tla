------------------------------- MODULE MCChat -------------------------------
(* The chat on a small instance: the updates after the first are alike, and *)
(* so are the chats.                                                        *)
EXTENDS Chat, TLC

Alike == Permutations(Updates \ {First}) \cup Permutations(Chats)

\* Bound: a call fails or a worker dies, not both.
OneTrouble == faults + crashes <= 1

\* Bound: the key of one update runs out, so that of two updates three runs are admitted.
OneExpiry == \A u, w \in Updates : expired[u] > 0 /\ expired[w] > 0 => u = w
=============================================================================
