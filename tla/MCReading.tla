----------------------------- MODULE MCReading -----------------------------
(* Reading for TLC.                                                        *)
EXTENDS Reading, TLC

(* One conference and an empty mailbox, where the missing texts matter ... *)
OneConf(n) == [c \in Confs |-> IF c = Mailbox THEN 0 ELSE n]
OneLong == OneConf(5)
OneLast == OneConf(10)

(* ... and two short conferences, where the order of the visits matters.   *)
TwoShort == [c \in Confs |-> IF c = Mailbox THEN 1 ELSE 2]

(* One of them long enough for its first text to mislead the other.        *)
CONSTANT Longer
ThreeTwo == [c \in Confs |-> IF c = Mailbox THEN 0 ELSE IF c = Longer THEN 3 ELSE 2]

Symmetry == Permutations(Confs \ {Mailbox})

-----------------------------------------------------------------------------
(* The search of first_text needs more texts than a whole session can be   *)
(* checked with.  These behaviours begin after the texts were posted, some *)
(* were deleted and the user was told that no text is left in the mailbox; *)
(* the user then subscribes while more texts are deleted.                  *)
SearchInit ==
  /\ lastText = MaxText
  /\ \E left \in {S \in SUBSET (1 .. 10) : GapsBounded(S, 10)} :
       files = [c \in Confs |-> IF c = Mailbox THEN {} ELSE left]
  /\ confs = <<>> /\ il = [c \in Confs |-> <<>>]
  /\ Current_conf = Mailbox /\ Change_prompt = FALSE /\ Nexttext = Unknown
  /\ pc = "input" /\ job = "None"
  /\ queue = <<>> /\ limit = NoLimit /\ flag = FALSE /\ first = 1 /\ high = 1

SearchNext ==
  \/ \E c \in Confs : Subscribe(c) \/ \E t \in files[c] : Delete(c, t)
  \/ SearchStep \/ SearchEnd \/ SubscribeStore

SearchSpec == SearchInit /\ [][SearchNext]_vars
=============================================================================
