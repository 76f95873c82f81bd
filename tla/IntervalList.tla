---------------------------- MODULE IntervalList ----------------------------
(***************************************************************************)
(* The list of read intervals that SklaffKOM keeps for every conference a  *)
(* user subscribes to (struct INT_LIST, one line "conf:1-7,9-12" of the    *)
(* user's CONFS_FILE).  A list is a sequence of records [from, to]; the    *)
(* operators are the list surgery of mark_as_read, mark_as_unread,         *)
(* check_if_read, num_unread and next_text.                                *)
(***************************************************************************)
EXTENDS Integers, SequencesExt

(* One "from-to" pair.                                                     *)
Interval == [from : Nat, to : Nat]

Covers(iv, t) == iv.from <= t /\ t <= iv.to

(* Does some interval of the list contain text t?                          *)
Marked(il, t) == \E i \in DOMAIN il : Covers(il[i], t)

(* The texts a list marks as read.                                         *)
MarkedTexts(il) == UNION {il[i].from .. il[i].to : i \in DOMAIN il}

-----------------------------------------------------------------------------

(* Mutant: the neighbour above is not noticed.                             *)
TouchingBelow(il, t) == {i \in DOMAIN il : il[i].to = t - 1}

(* The intervals that end just before t or begin just after it; "bound" in *)
(* the code is the number of them.                                         *)
Touching(il, t) == {i \in DOMAIN il : il[i].from = t + 1 \/ il[i].to = t - 1}

(* Where a text that touches nothing goes: before the first interval if    *)
(* that begins above t, else at the first gap that holds t, else last.     *)
Gaps(il, t) == {i \in 1 .. Len(il) + 1 :
                  \/ i = Len(il) + 1
                  \/ t < il[i].from /\ (i = 1 \/ il[i - 1].to < t)}
GapFor(il, t) == CHOOSE i \in Gaps(il, t) : \A j \in Gaps(il, t) : i <= j

(* bound = 1: the neighbour grows by one.                                  *)
Grow(iv, t) == IF iv.from = t + 1 THEN [iv EXCEPT !.from = t]
                                  ELSE [iv EXCEPT !.to = t]

(* mark_as_read, for a text the list does not contain yet.                 *)
AddText(il, t) ==
  LET touch == Touching(il, t)
  IN  IF touch = {}
      THEN InsertAt(il, GapFor(il, t), [from |-> t, to |-> t])
      ELSE IF \E i \in touch : touch = {i}
      THEN LET i == CHOOSE k \in touch : TRUE
           IN  [il EXCEPT ![i] = Grow(@, t)]
      ELSE LET i == CHOOSE k \in touch : il[k].to = t - 1   \* join i and i + 1
           IN  RemoveAt([il EXCEPT ![i] = [@ EXCEPT !.to = il[i + 1].to]], i + 1)

MarkAsRead(il, t) == IF Marked(il, t) THEN il ELSE AddText(il, t)

(* mark_as_unread, for a text the list contains, at the interval it is in: *)
(* drop the interval, cut one end, or split it.                            *)
CutText(il, t) ==
  LET i  == CHOOSE k \in DOMAIN il : Covers(il[k], t)
      iv == il[i]
  IN  IF iv.from = iv.to THEN RemoveAt(il, i)
      ELSE IF iv.from = t THEN [il EXCEPT ![i] = [@ EXCEPT !.from = t + 1]]
      ELSE IF iv.to = t THEN [il EXCEPT ![i] = [@ EXCEPT !.to = t - 1]]
      ELSE InsertAt([il EXCEPT ![i] = [@ EXCEPT !.to = t - 1]],
                    i + 1, [from |-> t + 1, to |-> iv.to])

MarkAsUnread(il, t) == IF Marked(il, t) THEN CutText(il, t) ELSE il

-----------------------------------------------------------------------------

(* The lowest text the list does not mark, as next_text and more_conf read *)
(* it off the first interval.                                              *)
FirstUnread(il) == IF il = <<>> \/ il[1].from > 1 THEN 1 ELSE il[1].to + 1

(* "high": no text above FirstUnread is marked, so that the whole entry    *)
(* may be replaced by one interval.                                        *)
NothingAbove(il) == il = <<>> \/ (il[1].from <= 1 /\ Len(il) = 1)

(* Mutant: the first existing text is marked too.                          *)
UpToInclusive(first) == IF first > 1 THEN << [from |-> 1, to |-> first] >> ELSE <<>>

(* The entry "conf:1-(first-1)" that subscribing, next_text and more_conf  *)
(* write; subscribing writes an empty entry when first is 1.               *)
UpTo(first) == IF first > 1 THEN << [from |-> 1, to |-> first - 1] >> ELSE <<>>

(* Mutant: an interval counts as one text too few.                         *)
NumUnreadShort(il, last) ==
  FoldLeft(LAMBDA n, iv : n - (iv.to - iv.from), last, il)

(* num_unread: last_text less the length of every interval.                *)
NumUnread(il, last) ==
  FoldLeft(LAMBDA n, iv : n - (iv.to - iv.from + 1), last, il)

-----------------------------------------------------------------------------

(* The shape every reader of the list relies on: intervals are not empty,  *)
(* begin at text 1 or later, ascend, and a gap of at least one unread text *)
(* lies between two of them.                                               *)
NormalForm(il) ==
  /\ \A i \in DOMAIN il : 1 <= il[i].from /\ il[i].from <= il[i].to
  /\ \A i, j \in DOMAIN il : i < j => il[i].to + 1 < il[j].from
=============================================================================
