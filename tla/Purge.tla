-------------------------------- MODULE Purge --------------------------------
(***************************************************************************)
(* sklaffadm purge, forcepurge and mailpurge in one conference or mailbox, *)
(* and life, while users post and delete texts.  A text has a number that  *)
(* nothing else ever gets, and is a file that may be missing.              *)
(***************************************************************************)
EXTENDS Integers, FiniteSets

CONSTANTS
  None,
  Worlds,       \* [texts, life, mail] to begin with; the texts are as old as the clock says
  Keeps,        \* how many texts to leave
  MaxText,      \* bound: the last number
  MaxTime,      \* bound: days
  MaxChanges    \* bound: texts posted or deleted by users, and lives set

VARIABLES
  texts,        \* per number [time, type], None if missing
  last_text,
  life,         \* days, 0 for ever
  mail,         \* it is a mailbox, which has no surveys
  now,          \* the day
  pc, job,      \* sklaffadm
  changes,
  \* history:
  begun         \* the texts as the purge found them, and what they met since

state == << texts, last_text, life >>
vars  == << state, mail, now, pc, job, changes, begun >>

Numbers == 1 .. MaxText
There(n) == n \in Numbers /\ texts[n] # None
Existing == {n \in Numbers : There(n)}

Init == \E w \in Worlds :
  /\ texts = [n \in Numbers |-> IF n \in DOMAIN w.texts THEN w.texts[n] ELSE None]
  /\ last_text = Cardinality(DOMAIN w.texts) /\ life = w.life /\ mail = w.mail
  /\ now = 1 /\ pc = "idle" /\ job = None /\ changes = 0 /\ begun = None

(* first_text looks at a number and at the three before it.                *)
FirstText ==
  LET search[x \in (1 .. MaxText + 1) \X (0 .. MaxText)] ==
        LET f == x[1]
            l == x[2]
            p == (f + l) \div 2
            S == {k \in 0 .. 3 : There(p - k)}
        IN  IF l <= f THEN (IF last_text = 0 THEN 1 ELSE l)
            ELSE IF S = {} THEN search[<< p + 1, l >>]
            ELSE search[<< f, p - (CHOOSE k \in S : \A j \in S : k <= j) >>]
  IN  search[<< 1, last_text >>]

-----------------------------------------------------------------------------
(* The life is read once; forcepurge does without.                         *)
Purge(keep, force) ==
  /\ pc = "idle" /\ begun = None /\ ~(force /\ mail)
  /\ pc' = "look"
  /\ job' = [next |-> FirstText, to |-> last_text - keep, life |-> life, force |-> force]
  /\ begun' = [texts |-> texts, keep |-> keep, last |-> last_text, life |-> life, day |-> now,
               force |-> force, first |-> FirstText, deleted |-> {}]
  /\ UNCHANGED << state, mail, now, changes >>

Ends == job.next > job.to \/ (~job.force /\ job.life = 0)

Look ==
  /\ pc = "look" /\ ~Ends
  /\ job' = [job EXCEPT !.next = @ + 1] /\ pc' = IF There(job.next) THEN "take" ELSE "look"
  /\ UNCHANGED << state, mail, now, changes, begun >>

(* Mutant: a text whose last day it is is too old.                         *)
OldToday(t) == t.time + job.life <= now
Old(t)      == t.time + job.life < now

(* A survey stays; with a text that is young enough the purge is at an end.*)
Take ==
  LET n == job.next - 1 IN
  /\ pc = "take" /\ There(n)
  /\ \/ /\ job.force \/ Old(texts[n])
        /\ texts' = IF mail \/ texts[n].type = "text" THEN [texts EXCEPT ![n] = None] ELSE texts
        /\ pc' = "look"
     \/ ~job.force /\ ~Old(texts[n]) /\ pc' = "end" /\ UNCHANGED texts
  /\ UNCHANGED << last_text, life, mail, now, job, changes, begun >>

(* Another deleted the text after sklaffadm had seen it: read_file gets no *)
(* file, and does with a size that was never set what it does.             *)
Vanished ==
  /\ pc = "take" /\ ~There(job.next - 1)
  /\ \/ pc' = "dead"
     \/ pc' = "end"
  /\ UNCHANGED << state, mail, now, job, changes, begun >>

End == pc = "look" /\ Ends /\ pc' = "end" /\ UNCHANGED << state, mail, now, job, changes, begun >>

-----------------------------------------------------------------------------
(* life and maillife, whenever another administrator gives them.           *)
Life(d) ==
  /\ pc # "idle" /\ changes < MaxChanges /\ d # life /\ life' = d /\ changes' = changes + 1
  /\ UNCHANGED << texts, last_text, mail, now, pc, job, begun >>

Post(type) ==
  /\ last_text < MaxText /\ (mail => type = "text") /\ pc # "idle"
  /\ changes < MaxChanges /\ changes' = changes + 1
  /\ last_text' = last_text + 1
  /\ texts' = [texts EXCEPT ![last_text + 1] = [time |-> now, type |-> type]]
  /\ UNCHANGED << life, mail, now, pc, job, begun >>

Delete(n) ==
  /\ There(n) /\ pc # "idle" /\ changes < MaxChanges
  /\ texts' = [texts EXCEPT ![n] = None] /\ changes' = changes + 1
  /\ begun' = [begun EXCEPT !.deleted = @ \cup {n}]
  /\ UNCHANGED << last_text, life, mail, now, pc, job >>

Day ==
  /\ now < MaxTime /\ now' = now + 1
  /\ UNCHANGED << state, mail, pc, job, changes, begun >>

Next ==
  \/ \E k \in Keeps, f \in BOOLEAN : Purge(k, f)
  \/ Look \/ Take \/ Vanished \/ End \/ Day
  \/ \E d \in 0 .. 2 : Life(d)
  \/ \E t \in {"text", "survey"} : Post(t)
  \/ \E n \in Numbers : Delete(n)

Spec == Init /\ [][Next]_vars

-----------------------------------------------------------------------------
(* What is purged is no survey, and was older than the conference keeps    *)
(* texts;                                                                  *)
Was   == {n \in Numbers : begun.texts[n] # None}
Still == Existing \cup begun.deleted
Spent(n, day) == begun.texts[n].time + begun.life < day
Rightly ==
  \A n \in Was \ Still : /\ begun.texts[n].type = "text"
                         /\ begun.force \/ (begun.life # 0 /\ Spent(n, now))

(* the last texts stay, as many as are to be left, when none of their      *)
(* numbers was missing (the help says so of any);                          *)
LastOnes == (begun.last - begun.keep + 1) .. begun.last
Left ==
  /\ Was \cap LastOnes \subseteq Still
  /\ LastOnes \subseteq Was => Cardinality(Still) >= begun.keep

(* and in the end every other text that was old when it began is gone, if  *)
(* first_text found it, and no user deleted one meanwhile.                 *)
Found(n) == begun.first <= n /\ n <= begun.last - begun.keep
Done ==
  pc = "end" /\ begun.deleted = {} /\ begun.life # 0 =>
    \A n \in Was : Found(n) /\ begun.texts[n].type = "text" /\ Spent(n, begun.day) => n \notin Existing

PurgeKeeps == begun # None => Rightly /\ Left /\ Done
=============================================================================
