----------------------------- MODULE MCSessions -----------------------------
(* Sessions for TLC: two processes of one user, one of another.            *)
EXTENDS Sessions, TLC

CONSTANTS p1, p2, q1, u1, u2

TwoAndOne == [p \in Procs |-> IF p = q1 THEN u2 ELSE u1]

Everywhere == Login \cup {"on", "bye", "gone"}

Symmetry == Permutations({p1, p2})
=============================================================================
