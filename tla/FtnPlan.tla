------------------------------ MODULE FtnPlan ------------------------------
(***************************************************************************)
(* What ftntoss decides about a spool of FTN messages: which of them are   *)
(* new, what each one comments, and in which order they come in.           *)
(*                                                                         *)
(* A message is identified by its MSGID.  A text that was imported keeps   *)
(* it; for one that was written here, ftntoss makes it up again from the   *)
(* number of the text, as it does when the text is exported.               *)
(***************************************************************************)
EXTENDS Integers, SequencesExt, FiniteSetsExt

CONSTANT Serials    \* how many numbers of texts a MSGID made here tells apart
ASSUME SerialsAssumption == Serials \in Nat \ {0}

NoId   == << "none", 0 >>
Own(n) == << "own", n % Serials >>

(* Lists of records with an id and a text number, newest first.  An empty  *)
(* id is never found.                                                      *)
FindText(refs, id) ==
  LET at == { i \in DOMAIN refs : refs[i].id = id }
  IN  IF id = NoId \/ at = {} THEN 0 ELSE refs[Min(at)].num

IdsOf(list) == { list[i].id : i \in DOMAIN list } \ {NoId}

-----------------------------------------------------------------------------
(* The MSGIDs of the texts from 1 to last.  A text is a record of its MSGID*)
(* (id, NoId when none is stored) and whether a user here wrote it (local).*)

TextId(t, n) == IF t.id # NoId THEN t.id ELSE IF t.local THEN Own(n) ELSE NoId

ScanExistingStored(texts, last) ==
  LET add(refs, n) ==
        IF n \in DOMAIN texts /\ texts[n].id # NoId
        THEN << [id |-> texts[n].id, num |-> n] >> \o refs
        ELSE refs
  IN  FoldLeft(add, <<>>, [n \in 1 .. last |-> n])

ScanExisting(texts, last) ==
  LET add(refs, n) ==
        IF n \in DOMAIN texts /\ TextId(texts[n], n) # NoId
        THEN << [id |-> TextId(texts[n], n), num |-> n] >> \o refs
        ELSE refs
  IN  FoldLeft(add, <<>>, [n \in 1 .. last |-> n])

(* The messages of a spool by number; one that cannot be read (bad) makes  *)
(* the whole index fail.                                                   *)
SpoolItems(spool) ==
  CHOOSE items \in [1 .. Cardinality(spool) -> spool] :
    \A i, j \in DOMAIN items : i < j => items[i].file < items[j].file

Readable(spool) == \A m \in spool : ~m.bad

-----------------------------------------------------------------------------
(* The plan that --diagnose, --dump-import and --import-one work from.     *)

Planned(plan, m) == \E i \in DOMAIN plan : plan[i].file = m.file

(* A message that is neither planned yet nor in the conference.            *)
Open(plan, m, refs) == ~Planned(plan, m) /\ FindText(refs, m.id) = 0

Plan(plan, first, m, parent, orphan) ==
  << [file |-> m.file, id |-> m.id, num |-> first + Len(plan),
      parent |-> parent, orphan |-> orphan] >> \o plan

(* Pass 1: topics and comments to texts that are there; a "Re:" without    *)
(* REPLY only when unsafe imports are asked for.                           *)
PlanTop(plan, first, m, refs, unsafe) ==
  LET parent == FindText(refs, m.reply)
  IN  IF ~Open(plan, m, refs) THEN plan
      ELSE IF m.reply = NoId /\ (unsafe \/ ~m.re) THEN Plan(plan, first, m, 0, m.re)
      ELSE IF parent > 0 THEN Plan(plan, first, m, parent, FALSE)
      ELSE plan

(* Passes 2..N: comments to messages that are planned.                     *)
PlanReply(plan, first, m, refs) ==
  LET parent == FindText(plan, m.reply)
  IN  IF Open(plan, m, refs) /\ parent > 0 THEN Plan(plan, first, m, parent, FALSE) ELSE plan

PlanRest(plan, first, m, refs) ==
  IF Open(plan, m, refs) THEN Plan(plan, first, m, 0, TRUE) ELSE plan

BuildPlan(items, refs, first, unsafe) ==
  LET top == FoldLeft(LAMBDA p, m : PlanTop(p, first, m, refs, unsafe), <<>>, items)
      after[k \in 0 .. Len(items)] ==
        IF k = 0 THEN top
        ELSE FoldLeft(LAMBDA p, m : PlanReply(p, first, m, refs), after[k - 1], items)
      replies == after[Len(items)]
  IN  IF unsafe THEN FoldLeft(LAMBDA p, m : PlanRest(p, first, m, refs), replies, items)
      ELSE replies

-----------------------------------------------------------------------------
(* What --import-all does with a message, given the texts it knows of.     *)

Importable(m, refs, unsafe) ==
  /\ m.id # NoId /\ FindText(refs, m.id) = 0
  /\ unsafe \/ (m.reply = NoId /\ ~m.re) \/ FindText(refs, m.reply) > 0

(* Why a message that is left over was not imported, or why an import is   *)
(* marked as unsafe.                                                       *)
Reason(m, refs, items) ==
  IF m.id = NoId THEN "missing-msgid"
  ELSE IF m.reply = NoId THEN IF m.re THEN "re-no-reply" ELSE "none"
  ELSE IF FindText(refs, m.reply) > 0 THEN "none"
  ELSE IF m.reply \in IdsOf(items) THEN "deferred" ELSE "orphan"

(* --import-one takes a message that is planned, has a MSGID, and comments *)
(* nothing or a text that is there already.                                *)
OneAllowed(m, plan, refs, last) ==
  \E i \in DOMAIN plan :
     /\ plan[i].file = m.file /\ m.id # NoId /\ FindText(refs, m.id) = 0
     /\ m.reply # NoId => ~plan[i].orphan /\ plan[i].parent \in 1 .. last
=============================================================================
