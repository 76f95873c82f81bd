------------------------------ MODULE ReadSet ------------------------------
(***************************************************************************)
(* What the interval lists stand for: per conference, the set of texts the *)
(* user is through with.  This is all that reading, searching and the      *)
(* commands "goto", "only", "subscribe" and "unsubscribe" promise of it.   *)
(***************************************************************************)
EXTENDS Naturals

CONSTANT Confs

VARIABLES
  read,       \* the texts marked as read
  exist,      \* the texts whose file exists
  searching   \* it is the program that marks, not the user

Init == /\ read = [c \in Confs |-> {}]
        /\ exist \in [Confs -> SUBSET Nat]
        /\ searching = FALSE

(* A search, or the first look at a conference, passes over missing texts  *)
(* and over nothing else.                                                  *)
PassOver(c) ==
  /\ searching
  /\ \E missing \in SUBSET (read'[c] \ exist[c]) :
       read' = [read EXCEPT ![c] = @ \cup missing]

(* The user reads a text, or wants it back.                                *)
Read(c)   == ~searching /\ \E t \in read'[c] : read' = [read EXCEPT ![c] = @ \cup {t}]
Unread(c) == ~searching /\ \E t \in read[c]  : read' = [read EXCEPT ![c] = @ \ {t}]

(* The user keeps only the last texts, or leaves the conference.           *)
KeepLast(c) ==
  /\ ~searching
  /\ \A t \in read'[c] : 1 .. t \subseteq read'[c]
  /\ read' = [read EXCEPT ![c] = read'[c]]

(* Texts come and go, searches begin and end.                              *)
Elsewhere == read' = read /\ exist' \in [Confs -> SUBSET Nat] /\ searching' \in BOOLEAN

Next ==
  \/ Elsewhere
  \/ /\ \E c \in Confs : PassOver(c) \/ Read(c) \/ Unread(c) \/ KeepLast(c)
     /\ exist' = exist /\ searching' = FALSE

Spec == Init /\ [][Next]_<< read, exist, searching >>
=============================================================================
