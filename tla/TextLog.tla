------------------------------ MODULE TextLog ------------------------------
(***************************************************************************)
(* What the text base promises: every conference is a log.  A text that is *)
(* published gets the next number and keeps it; a published text may be    *)
(* withdrawn, and no other text ever takes its place.                      *)
(***************************************************************************)
EXTENDS Naturals, Sequences

CONSTANTS Confs, Texts, NoText

VARIABLE log    \* per conference, the texts in the order of their numbers

Init == log = [c \in Confs |-> <<>>]

Published(x) == \E c \in Confs : \E n \in DOMAIN log[c] : log[c][n] = x

Publish(c, x) == ~Published(x) /\ log' = [log EXCEPT ![c] = Append(@, x)]

Withdraw(c, n) == log' = [log EXCEPT ![c][n] = NoText]

Next == \E c \in Confs : \/ \E x \in Texts : Publish(c, x)
                         \/ \E n \in DOMAIN log[c] : Withdraw(c, n)

Spec == Init /\ [][Next]_log
=============================================================================
