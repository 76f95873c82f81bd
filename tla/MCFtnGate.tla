----------------------------- MODULE MCFtnGate -----------------------------
(* FtnGate for TLC.                                                        *)
EXTENDS FtnGate

Msg(id, reply, re) == [id |-> << "net", id >>, reply |-> reply, re |-> re, bad |-> FALSE]
InSpool(seq) == { [file |-> i + 1] @@ seq[i] : i \in DOMAIN seq }

(* A comment before its parent, a ring of two, a message without MSGID and *)
(* a "Re:" without REPLY; what comes later comments a text written here.   *)
SomeSpools ==
  { InSpool(<< Msg(1, << "net", 2 >>, TRUE), Msg(2, Own(1), TRUE),
               Msg(3, << "net", 4 >>, FALSE), Msg(4, << "net", 3 >>, FALSE) >>),
    InSpool(<< Msg(1, NoId, TRUE), [Msg(0, NoId, FALSE) EXCEPT !.id = NoId],
               Msg(2, << "net", 9 >>, FALSE) >>) }

SomeArrivals == { Msg(5, Own(2), TRUE), [Msg(5, NoId, FALSE) EXCEPT !.bad = TRUE] }
=============================================================================
