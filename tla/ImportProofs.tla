---------------------------- MODULE ImportProofs ----------------------------
(***************************************************************************)
(* For any number of processes, mails, articles and files of an area: what *)
(* mailtoss takes from the spool of the system is not lost and comes once, *)
(* and so do the articles that newstoss takes from a newsgroup and the     *)
(* one-liners that ibolimport takes from its area.  And for any people and *)
(* names: USER_FILE, where the programs look for whom a letter is, has its *)
(* users once and by their names.                                          *)
(***************************************************************************)
EXTENDS Integers, Sequences, SequencesExt, SequenceTheorems, FiniteSets, FiniteSetTheorems,
        WellFoundedInduction, TLAPS

CONSTANTS Procs, Nobody, MaxMail, MaxRuns, Ids, None, MaxFile, Refs, Gap, MaxArticle, MaxTime, MaxChange,
          People, Names, BadName
VARIABLES spool, copies, files, last, lock, pc, buf, runs, sent, seen, excused,
          area, unreadable, cache, state, job, passed,
          now, active, texts, changes, due, lost,
          file, gecos, made, old, time, left, cut, split, unsaved, misread

Mail == INSTANCE MailToss
Ibol == INSTANCE IbolImport
News == INSTANCE NewsToss
Accounts == INSTANCE Users

-----------------------------------------------------------------------------
(* Mails and their sequences.                                              *)
Mails == 1 .. sent
Once(s) == \A i, j \in 1 .. Len(s) : s[i] = s[j] => i = j

MailPlaces == {"idle", "read", "copied", "send", "write", "count"}
Sending    == {"send", "write", "count"}
Arrived    == {files[i] : i \in 1 .. last}

MailTypes ==
  /\ sent \in Nat /\ spool \in Seq(Nat) /\ files \in Seq(Nat) /\ last \in 0 .. Len(files)
  /\ pc \in [Procs -> MailPlaces] /\ buf \in [Procs -> Seq(Nat)] /\ seen \in [Procs -> BOOLEAN]
  /\ ToSet(spool) \subseteq Mails /\ Once(spool) /\ Arrived \subseteq Mails

(* A process that runs has mails to import, each of them once.             *)
Holds(p) == /\ pc[p] = "idle" <=> buf[p] = << >>
            /\ ToSet(buf[p]) \subseteq Mails /\ Once(buf[p])

(* Until it empties the spool, its mails are there; then, in the copy.     *)
InSpool(p) == pc[p] \in {"read", "copied"} => ToSet(buf[p]) \subseteq ToSet(spool) \cup excused
InCopy(p)  == /\ pc[p] = "read" => ~seen[p]
              /\ pc[p] \in {"copied"} \cup Sending /\ seen[p] => ToSet(buf[p]) \subseteq copies \cup excused
Copied(p)  == pc[p] = "copied" => ToSet(spool) \subseteq copies \cup ToSet(buf[p]) \cup excused

(* They came to no mailbox before, and are no longer in the spool when they *)
(* do.                                                                     *)
Fresh(p) == /\ ToSet(buf[p]) \cap Arrived \subseteq excused
            /\ pc[p] \in Sending => ToSet(buf[p]) \cap ToSet(spool) \subseteq excused

(* MAILBOX_FILE is locked by who writes or counts a text.                  *)
BoxLocked(p) == /\ pc[p] \in {"write", "count"} => lock = p
                /\ pc[p] = "count" => Len(files) = last + 1 /\ files[last + 1] = Head(buf[p])

(* Two that run at a time have nothing that is not excused.                *)
Apart(p, q) == "idle" \notin {pc[p], pc[q]} => ToSet(buf[p]) \subseteq excused

Importer(p) == Holds(p) /\ InSpool(p) /\ InCopy(p) /\ Copied(p) /\ Fresh(p) /\ BoxLocked(p)

Kept(m) == m \in ToSet(spool) \cup copies \cup Arrived \/ \E p \in Procs : m \in ToSet(buf[p])

(* The inductive invariant.                                                *)
MailInv ==
  /\ MailTypes
  /\ \A p \in Procs : Importer(p)
  /\ \A p \in Procs : \A q \in Procs \ {p} : Apart(p, q)
  /\ ToSet(spool) \cap Arrived \subseteq excused
  /\ \A m \in Mails \ excused : Kept(m)
  /\ \A i, j \in 1 .. last : files[i] = files[j] /\ i # j => files[i] \in excused

-----------------------------------------------------------------------------
LEMMA AppendSet ==
  ASSUME NEW S, NEW s \in Seq(S), NEW x \in S
  PROVE  /\ ToSet(Append(s, x)) = ToSet(s) \cup {x}
         /\ Once(s) /\ x \notin ToSet(s) => Once(Append(s, x))
BY AppendProperties DEF ToSet, Once

LEMMA TailSet ==
  ASSUME NEW S, NEW s \in Seq(S), s # << >>
  PROVE  /\ Head(s) \in S /\ Tail(s) \in Seq(S) /\ ToSet(s) = ToSet(Tail(s)) \cup {Head(s)}
         /\ Once(s) => Once(Tail(s)) /\ Head(s) \notin ToSet(Tail(s))
<1>1. /\ Head(s) = s[1] /\ Head(s) \in S /\ Tail(s) \in Seq(S) /\ Len(s) \in Nat \ {0}
      /\ Len(Tail(s)) = Len(s) - 1 /\ \A i \in 1 .. Len(Tail(s)) : Tail(s)[i] = s[i + 1]
  BY HeadTailProperties, EmptySeq, LenProperties
<1>2. DOMAIN s = 1 .. Len(s) /\ DOMAIN Tail(s) = 1 .. Len(Tail(s))
  BY <1>1, LenProperties
<1>3. ToSet(s) \subseteq ToSet(Tail(s)) \cup {Head(s)}
  <2> SUFFICES ASSUME NEW i \in 1 .. Len(s), i # 1 PROVE s[i] \in ToSet(Tail(s))
    BY <1>1, <1>2 DEF ToSet
  <2>1. i - 1 \in DOMAIN Tail(s) /\ Tail(s)[i - 1] = s[i]
    BY <1>1, <1>2
  <2> QED BY <2>1 DEF ToSet
<1>4. ToSet(Tail(s)) \cup {Head(s)} \subseteq ToSet(s)
  BY <1>1, <1>2 DEF ToSet
<1>5. ASSUME Once(s) PROVE Once(Tail(s)) /\ Head(s) \notin ToSet(Tail(s))
  BY <1>1, <1>2, <1>5 DEF Once, ToSet
<1> QED BY <1>1, <1>3, <1>4, <1>5

LEMMA EmptySet == ToSet(<< >>) = {} /\ Once(<< >>)
BY DEF ToSet, Once

LEMMA SameSet == ASSUME NEW s PROVE Mail!ToSet(s) = ToSet(s)
BY DEF ToSet, Mail!ToSet

(* What one process does, the others see in what they share only.          *)
LEMMA GoesTo ==
  ASSUME MailTypes, NEW p \in Procs, NEW l \in MailPlaces, Mail!Goto(p, l)
  PROVE  /\ pc' \in [Procs -> MailPlaces] /\ pc'[p] = l
         /\ \A q \in Procs \ {p} : pc'[q] = pc[q]
BY DEF MailTypes, Mail!Goto

LEMMA MailBegins == ASSUME Nobody \notin Procs PROVE Mail!Init => MailInv
<1> SUFFICES ASSUME Mail!Init PROVE MailInv
  OBVIOUS
<1>1. /\ spool = << >> /\ files = << >> /\ last = 0 /\ sent = 0 /\ excused = {}
      /\ pc = [p \in Procs |-> "idle"] /\ buf = [p \in Procs |-> << >>] /\ seen = [p \in Procs |-> FALSE]
  BY DEF Mail!Init, Mail!Idle
<1>2. MailTypes /\ Arrived = {} /\ Mails = {}
  BY <1>1, EmptySet DEF MailTypes, Arrived, Mails, MailPlaces
<1>3. ASSUME NEW p \in Procs PROVE Importer(p) /\ pc[p] = "idle"
  BY <1>1, <1>2, EmptySet DEF Importer, Holds, InSpool, InCopy, Copied, Fresh, BoxLocked, Sending
<1> QED BY <1>1, <1>2, <1>3 DEF MailInv, Apart

LEMMA DeliverKeeps == ASSUME MailInv, Mail!Deliver PROVE MailInv'
<1>1. /\ sent' = sent + 1 /\ spool' = Append(spool, sent + 1)
      /\ excused \subseteq excused' /\ excused' \subseteq excused \cup {sent + 1}
      /\ (\E p \in Procs : pc[p] = "copied") => sent + 1 \in excused'
      /\ copies' = copies /\ files' = files /\ last' = last /\ lock' = lock
      /\ pc' = pc /\ buf' = buf /\ seen' = seen
  BY DEF Mail!Deliver, Mail!mailbox, Mail!process
<1>2. MailTypes /\ sent \in Nat /\ spool \in Seq(Nat) /\ ToSet(spool) \subseteq Mails /\ Once(spool)
  BY DEF MailInv, MailTypes
<1>3. /\ Mails' = Mails \cup {sent + 1} /\ sent + 1 \notin Mails
      /\ spool' \in Seq(Nat) /\ ToSet(spool') = ToSet(spool) \cup {sent + 1} /\ Once(spool')
  <2>1. sent + 1 \in Nat /\ sent + 1 \notin ToSet(spool)
    BY <1>2 DEF Mails
  <2>2. spool' \in Seq(Nat)
    BY <1>1, <1>2, <2>1, AppendProperties
  <2> QED BY <1>1, <1>2, <2>1, <2>2, AppendSet DEF Mails
<1>4. Arrived' = Arrived /\ Arrived \subseteq Mails
  BY <1>1 DEF MailInv, MailTypes, Arrived
<1>5. MailTypes'
  BY <1>1, <1>2, <1>3, <1>4 DEF MailTypes
<1>6. ASSUME NEW p \in Procs PROVE Importer(p)'
  <2>1. Importer(p) /\ ToSet(buf[p]) \subseteq Mails
    BY DEF MailInv, Importer, Holds
  <2>2. Holds(p)' /\ InSpool(p)' /\ InCopy(p)' /\ BoxLocked(p)'
    BY <1>1, <1>3, <2>1 DEF Importer, Holds, InSpool, InCopy, BoxLocked
  <2>3. Copied(p)' /\ Fresh(p)'
    BY <1>1, <1>3, <1>4, <2>1 DEF Importer, Copied, Fresh
  <2> QED BY <2>2, <2>3 DEF Importer
<1>7. ASSUME NEW p \in Procs, NEW q \in Procs \ {p} PROVE Apart(p, q)'
  BY <1>1 DEF MailInv, Apart
<1>8. ASSUME NEW m \in (Mails \ excused)' PROVE Kept(m)'
  BY <1>1, <1>3, <1>4 DEF MailInv, Kept
<1>9. (ToSet(spool) \cap Arrived \subseteq excused)'
  BY <1>1, <1>3, <1>4 DEF MailInv
<1>10. ASSUME NEW i \in 1 .. last', NEW j \in 1 .. last', files'[i] = files'[j], i # j
       PROVE  files'[i] \in excused'
  BY <1>1, <1>10 DEF MailInv
<1> QED BY <1>5, <1>6, <1>7, <1>8, <1>9, <1>10 DEF MailInv

(* What is left to show of a step that concerns one process: the parts of  *)
(* the invariant for it, and what it leaves to the others.                 *)
Others(p) ==
  /\ \A q \in Procs \ {p} : pc'[q] = pc[q] /\ buf'[q] = buf[q] /\ seen'[q] = seen[q]
  /\ copies \subseteq copies' /\ excused \subseteq excused'

LEMMA StepKeeps ==
  ASSUME MailInv, NEW p \in Procs, Others(p), MailTypes', Importer(p)', sent' = sent,
         ToSet(spool') = ToSet(spool) \/ (pc[p] # "idle" /\ ToSet(spool') = {}),
         Arrived' = Arrived \/ pc[p] # "idle",
         \A q \in Procs \ {p} : pc[q] \in {"write", "count"} =>
           lock' = lock /\ files' = files /\ last' = last,
         \/ pc[p] # "idle" /\ ToSet(buf'[p]) \subseteq ToSet(buf[p])
         \/ \A q \in Procs \ {p} : pc[q] # "idle" => ToSet(buf'[p]) \cup ToSet(buf[q]) \subseteq excused'
  PROVE  /\ \A q \in Procs : Importer(q)'
         /\ \A q \in Procs : \A r \in Procs \ {q} : Apart(q, r)'
<1>1. ASSUME NEW q \in Procs \ {p} PROVE Importer(q)'
  <2>1. /\ Importer(q) /\ pc'[q] = pc[q] /\ buf'[q] = buf[q] /\ seen'[q] = seen[q]
        /\ copies \subseteq copies' /\ excused \subseteq excused'
    BY DEF MailInv, Others
  <2>2. pc[p] # "idle" => ToSet(buf[q]) \subseteq excused
    BY <2>1, EmptySet DEF MailInv, Apart, Importer, Holds
  <2>3. Holds(q)' /\ InSpool(q)' /\ InCopy(q)' /\ Copied(q)'
    BY <2>1, <2>2 DEF Importer, Holds, InSpool, InCopy, Copied, Mails
  <2>4. Fresh(q)' /\ BoxLocked(q)'
    BY <2>1, <2>2 DEF Importer, Fresh, BoxLocked
  <2> QED BY <2>3, <2>4 DEF Importer
<1>2. ASSUME NEW q \in Procs, NEW r \in Procs \ {q} PROVE Apart(q, r)'
  BY DEF MailInv, Others, Apart
<1> QED BY <1>1, <1>2

(* An action of a process leaves each mail somewhere.                      *)
LEMMA StepFinds ==
  ASSUME MailInv, NEW p \in Procs, Others(p), sent' = sent,
         ToSet(buf[p]) \subseteq ToSet(buf'[p]) \cup copies' \cup ToSet(spool') \cup Arrived' \cup excused',
         ToSet(spool) \subseteq ToSet(spool') \cup copies' \cup ToSet(buf'[p]) \cup Arrived' \cup excused',
         Arrived \subseteq Arrived'
  PROVE  \A m \in (Mails \ excused)' : Kept(m)'
<1> SUFFICES ASSUME NEW m \in (Mails \ excused)' PROVE Kept(m)'
  OBVIOUS
<1>1. m \in Mails \ excused /\ Kept(m)
  BY DEF MailInv, Others, Mails
<1>2. \A q \in Procs \ {p} : buf'[q] = buf[q]
  BY DEF Others
<1> QED BY <1>1, <1>2 DEF Kept, Others

LEMMA SameMail ==
  ASSUME MailInv, spool' = spool, copies' = copies, files' = files, last' = last, lock' = lock,
         sent' = sent, excused' = excused, pc' = pc, buf' = buf, seen' = seen
  PROVE  MailInv'
<1>1. MailTypes' /\ Arrived' = Arrived /\ Mails' = Mails
  BY DEF MailInv, MailTypes, Arrived, Mails
<1>2. ASSUME NEW p \in Procs PROVE Importer(p)'
  BY <1>1 DEF MailInv, Importer, Holds, InSpool, InCopy, Copied, Fresh, BoxLocked
<1>3. ASSUME NEW p \in Procs, NEW q \in Procs \ {p} PROVE Apart(p, q)'
  BY DEF MailInv, Apart
<1> QED BY <1>1, <1>2, <1>3 DEF MailInv, Kept

LEMMA ReadKeeps == ASSUME MailInv, NEW p \in Procs, Mail!ReadSpool(p) PROVE MailInv'
<1>1. /\ pc[p] = "idle" /\ spool' = spool /\ copies' = copies /\ sent' = sent
      /\ files' = files /\ last' = last /\ lock' = lock
  BY DEF Mail!ReadSpool, Mail!mailbox, Mail!Idle
<1>2. CASE UNCHANGED << pc, buf, seen, excused >>
  BY <1>1, <1>2, SameMail
<1>3. CASE /\ spool # << >> /\ Mail!Goto(p, "read")
           /\ buf' = [buf EXCEPT ![p] = spool] /\ seen' = [seen EXCEPT ![p] = FALSE]
           /\ excused' = excused \cup UNION {Mail!ToSet(spool) \cup Mail!ToSet(buf[q]) : q \in Mail!Running}
  <2>1. MailTypes /\ "read" \in MailPlaces
    BY DEF MailInv, MailPlaces
  <2>2. /\ pc' \in [Procs -> MailPlaces] /\ pc'[p] = "read"
        /\ \A q \in Procs \ {p} : pc'[q] = pc[q]
    BY <1>3, <2>1, GoesTo
  <2>3. /\ buf' \in [Procs -> Seq(Nat)] /\ seen' \in [Procs -> BOOLEAN] /\ buf'[p] = spool /\ ~seen'[p]
        /\ \A q \in Procs \ {p} : buf'[q] = buf[q] /\ seen'[q] = seen[q]
    BY <1>3, <2>1 DEF MailTypes
  <2>4. /\ excused \subseteq excused'
        /\ \A q \in Procs \ {p} : pc[q] # "idle" => ToSet(spool) \cup ToSet(buf[q]) \subseteq excused'
    BY <1>3, SameSet DEF Mail!Running, Mail!Idle
  <2>5. Others(p) /\ MailTypes' /\ Arrived' = Arrived /\ Mails' = Mails
    BY <1>1, <2>1, <2>2, <2>3, <2>4 DEF Others, MailTypes, Arrived, Mails
  <2>6. Importer(p)'
    <3>1. Holds(p)' /\ InSpool(p)' /\ InCopy(p)' /\ Copied(p)' /\ BoxLocked(p)'
      BY <1>1, <1>3, <2>1, <2>2, <2>3, <2>5
      DEF MailTypes, Holds, InSpool, InCopy, Copied, BoxLocked, Sending
    <3>2. Fresh(p)'
      BY <1>1, <2>2, <2>3, <2>4, <2>5 DEF MailInv, Fresh, Sending
    <3> QED BY <3>1, <3>2 DEF Importer
  <2>7. /\ \A q \in Procs : Importer(q)'
        /\ \A q \in Procs : \A r \in Procs \ {q} : Apart(q, r)'
    BY <1>1, <2>3, <2>4, <2>5, <2>6, StepKeeps
  <2>8. buf[p] = << >> /\ ToSet(buf[p]) = {}
    BY <1>1, EmptySet DEF MailInv, Importer, Holds
  <2>9. \A m \in (Mails \ excused)' : Kept(m)'
    BY <1>1, <2>5, <2>8, StepFinds
  <2> QED BY <1>1, <2>4, <2>5, <2>7, <2>9 DEF MailInv
<1> QED BY <1>2, <1>3 DEF Mail!ReadSpool, Mail!process

LEMMA CopyKeeps == ASSUME MailInv, NEW p \in Procs, Mail!Copy(p) PROVE MailInv'
<1>1. /\ pc[p] = "read" /\ Mail!Goto(p, "copied") /\ spool' = spool /\ sent' = sent
      /\ files' = files /\ last' = last /\ lock' = lock /\ buf' = buf
  BY DEF Mail!Copy, Mail!mailbox
<1>2. \/ copies' = copies \cup ToSet(spool) /\ seen' = [seen EXCEPT ![p] = TRUE] /\ excused' = excused
      \/ excused' = excused \cup (ToSet(spool) \ ToSet(buf[p])) /\ copies' = copies /\ seen' = seen
  BY SameSet DEF Mail!Copy
<1>3. MailTypes /\ "copied" \in MailPlaces /\ Importer(p)
  BY DEF MailInv, MailPlaces
<1>4. /\ pc' \in [Procs -> MailPlaces] /\ pc'[p] = "copied"
      /\ \A q \in Procs \ {p} : pc'[q] = pc[q]
  BY <1>1, <1>3, GoesTo
<1>5. Others(p) /\ MailTypes' /\ Arrived' = Arrived /\ Mails' = Mails
  <2>1. Arrived' = Arrived /\ Mails' = Mails BY <1>1 DEF Arrived, Mails
  <2>2. Others(p) BY <1>1, <1>2, <1>3, <1>4 DEF Others, MailTypes
  <2>3. MailTypes' BY <1>1, <1>2, <1>3, <1>4, <2>1 DEF MailTypes
  <2> QED BY <2>1, <2>2, <2>3
<1>6. Importer(p)'
  <2>1. Holds(p)' /\ InSpool(p)' /\ Fresh(p)' /\ BoxLocked(p)'
    BY <1>1, <1>2, <1>3, <1>4, <1>5 DEF Importer, Holds, InSpool, Fresh, BoxLocked, Sending
  <2>2. Copied(p)'
    BY <1>1, <1>2, <1>4 DEF Copied
  <2>3. InCopy(p)'
    BY <1>1, <1>2, <1>3, <1>4 DEF Importer, MailTypes, InSpool, InCopy
  <2> QED BY <2>1, <2>2, <2>3 DEF Importer
<1>7. /\ \A q \in Procs : Importer(q)'
      /\ \A q \in Procs : \A r \in Procs \ {q} : Apart(q, r)'
  BY <1>1, <1>5, <1>6, StepKeeps
<1>8. \A m \in (Mails \ excused)' : Kept(m)'
  BY <1>1, <1>5, StepFinds
<1> QED BY <1>1, <1>5, <1>7, <1>8 DEF MailInv, Others

LEMMA TruncateKeeps == ASSUME MailInv, NEW p \in Procs, Mail!Truncate(p) PROVE MailInv'
<1>1. /\ pc[p] = "copied" /\ Mail!Goto(p, "send") /\ spool' = << >> /\ sent' = sent /\ copies' = copies
      /\ files' = files /\ last' = last /\ lock' = lock /\ buf' = buf /\ seen' = seen /\ excused' = excused
  BY DEF Mail!Truncate, Mail!mailbox
<1>2. MailTypes /\ "send" \in MailPlaces /\ Importer(p)
  BY DEF MailInv, MailPlaces
<1>3. /\ pc' \in [Procs -> MailPlaces] /\ pc'[p] = "send"
      /\ \A q \in Procs \ {p} : pc'[q] = pc[q]
  BY <1>1, <1>2, GoesTo
<1>4. ToSet(spool') = {} /\ Once(spool')
  BY <1>1, EmptySet
<1>5. Others(p) /\ MailTypes' /\ Arrived' = Arrived /\ Mails' = Mails
  <2>1. Others(p) /\ Arrived' = Arrived /\ Mails' = Mails
    BY <1>1, <1>3 DEF Others, Arrived, Mails
  <2>2. spool' \in Seq(Nat)
    BY <1>1, EmptySeq
  <2> QED BY <1>1, <1>2, <1>3, <1>4, <2>1, <2>2 DEF MailTypes
<1>6. Importer(p)'
  BY <1>1, <1>2, <1>3, <1>4, <1>5
  DEF Importer, Holds, InSpool, InCopy, Copied, Fresh, BoxLocked, Sending
<1>7. /\ \A q \in Procs : Importer(q)'
      /\ \A q \in Procs : \A r \in Procs \ {q} : Apart(q, r)'
  BY <1>1, <1>4, <1>5, <1>6, StepKeeps
<1>8. \A m \in (Mails \ excused)' : Kept(m)'
  BY <1>1, <1>2, <1>5, StepFinds DEF Importer, Copied
<1> QED BY <1>1, <1>4, <1>5, <1>7, <1>8 DEF MailInv

LEMMA LockKeeps ==
  ASSUME MailInv, Nobody \notin Procs, NEW p \in Procs, Mail!LockBox(p) PROVE MailInv'
<1>1. /\ pc[p] = "send" /\ Mail!Goto(p, "write") /\ spool' = spool /\ sent' = sent /\ copies' = copies
      /\ files' = files /\ last' = last /\ lock = Nobody /\ lock' = p
      /\ buf' = buf /\ seen' = seen /\ excused' = excused
  BY DEF Mail!LockBox
<1>2. MailTypes /\ "write" \in MailPlaces /\ Importer(p)
  BY DEF MailInv, MailPlaces
<1>3. /\ pc' \in [Procs -> MailPlaces] /\ pc'[p] = "write"
      /\ \A q \in Procs \ {p} : pc'[q] = pc[q]
  BY <1>1, <1>2, GoesTo
<1>4. Others(p) /\ MailTypes' /\ Arrived' = Arrived /\ Mails' = Mails
  BY <1>1, <1>2, <1>3 DEF Others, MailTypes, Arrived, Mails
<1>5. Importer(p)'
  BY <1>1, <1>2, <1>3, <1>4
  DEF Importer, Holds, InSpool, InCopy, Copied, Fresh, BoxLocked, Sending
<1>6. \A q \in Procs : pc[q] \notin {"write", "count"}
  BY <1>1 DEF MailInv, Importer, BoxLocked
<1>7. /\ \A q \in Procs : Importer(q)'
      /\ \A q \in Procs : \A r \in Procs \ {q} : Apart(q, r)'
  BY <1>1, <1>4, <1>5, <1>6, StepKeeps
<1>8. \A m \in (Mails \ excused)' : Kept(m)'
  BY <1>1, <1>4, StepFinds
<1> QED BY <1>1, <1>4, <1>7, <1>8 DEF MailInv

LEMMA WriteKeeps == ASSUME MailInv, NEW p \in Procs, Mail!WriteText(p) PROVE MailInv'
<1>1. /\ pc[p] = "write" /\ Mail!Goto(p, "count") /\ spool' = spool /\ sent' = sent /\ copies' = copies
      /\ files' = SubSeq(files, 1, last) \o << Head(buf[p]) >> /\ last' = last /\ lock' = lock
      /\ buf' = buf /\ seen' = seen /\ excused' = excused
  BY DEF Mail!WriteText
<1>2. MailTypes /\ "count" \in MailPlaces /\ Importer(p)
  BY DEF MailInv, MailPlaces
<1>3. /\ pc' \in [Procs -> MailPlaces] /\ pc'[p] = "count"
      /\ \A q \in Procs \ {p} : pc'[q] = pc[q]
  BY <1>1, <1>2, GoesTo
<1>4. buf[p] \in Seq(Nat) /\ buf[p] # << >> /\ Head(buf[p]) \in Nat
  BY <1>1, <1>2, TailSet DEF MailTypes, Importer, Holds
<1>5. /\ SubSeq(files, 1, last) \in Seq(Nat) /\ Len(SubSeq(files, 1, last)) = last
      /\ \A i \in 1 .. last : SubSeq(files, 1, last)[i] = files[i]
  BY <1>2 DEF MailTypes
<1>6. /\ files' \in Seq(Nat) /\ Len(files') = last + 1 /\ files'[last + 1] = Head(buf[p])
      /\ \A i \in 1 .. last : files'[i] = files[i]
  <2> DEFINE s == SubSeq(files, 1, last)
             t == << Head(buf[p]) >>
  <2>1. s \in Seq(Nat) /\ t \in Seq(Nat) /\ Len(s) = last /\ Len(t) = 1 /\ t[1] = Head(buf[p]) /\ last \in Nat
    BY <1>2, <1>4, <1>5 DEF MailTypes
  <2> HIDE DEF s, t
  <2>2. /\ s \o t \in Seq(Nat) /\ Len(s \o t) = Len(s) + Len(t)
        /\ \A i \in 1 .. Len(s) + Len(t) : (s \o t)[i] = IF i <= Len(s) THEN s[i] ELSE t[i - Len(s)]
    BY <2>1, ConcatProperties
  <2>3. files' = s \o t
    BY <1>1 DEF s, t
  <2>4. files' \in Seq(Nat) /\ Len(files') = last + 1 /\ files'[last + 1] = Head(buf[p])
    BY <2>1, <2>2, <2>3
  <2>5. \A i \in 1 .. last : files'[i] = files[i]
    BY <1>5, <2>1, <2>2, <2>3 DEF s
  <2> QED BY <2>4, <2>5
<1>7. Arrived' = Arrived
  BY <1>1, <1>6 DEF Arrived
<1>8. Others(p) /\ MailTypes' /\ Mails' = Mails
  BY <1>1, <1>2, <1>3, <1>6, <1>7 DEF Others, MailTypes, Mails
<1>9. Importer(p)'
  BY <1>1, <1>2, <1>3, <1>6, <1>7, <1>8
  DEF Importer, Holds, InSpool, InCopy, Copied, Fresh, BoxLocked, Sending
<1>10. \A q \in Procs \ {p} : pc[q] \notin {"write", "count"}
  BY <1>1 DEF MailInv, Importer, BoxLocked
<1>11. /\ \A q \in Procs : Importer(q)'
       /\ \A q \in Procs : \A r \in Procs \ {q} : Apart(q, r)'
  BY <1>1, <1>7, <1>8, <1>9, <1>10, StepKeeps
<1>12. \A m \in (Mails \ excused)' : Kept(m)'
  BY <1>1, <1>7, <1>8, StepFinds
<1>13. \A i, j \in 1 .. last' : files'[i] = files'[j] /\ i # j => files'[i] \in excused'
  BY <1>1, <1>6 DEF MailInv
<1> QED BY <1>1, <1>7, <1>8, <1>11, <1>12, <1>13 DEF MailInv

LEMMA CountKeeps ==
  ASSUME MailInv, Nobody \notin Procs, NEW p \in Procs, Mail!CountText(p) PROVE MailInv'
<1> DEFINE next == IF Tail(buf[p]) = << >> THEN "idle" ELSE "send"
<1>1. /\ pc[p] = "count" /\ Mail!Goto(p, next) /\ spool' = spool /\ sent' = sent /\ copies' = copies
      /\ files' = files /\ last' = last + 1 /\ lock' = Nobody
      /\ buf' = [buf EXCEPT ![p] = Tail(buf[p])] /\ seen' = seen /\ excused' = excused
  BY DEF Mail!CountText, Mail!Idle
<1>2. MailTypes /\ next \in MailPlaces /\ Importer(p)
  BY DEF MailInv, MailPlaces
<1> HIDE DEF next
<1>3. /\ pc' \in [Procs -> MailPlaces] /\ pc'[p] = next
      /\ \A q \in Procs \ {p} : pc'[q] = pc[q]
  BY <1>1, <1>2, GoesTo
<1>4. /\ buf[p] \in Seq(Nat) /\ buf[p] # << >> /\ Tail(buf[p]) \in Seq(Nat)
      /\ ToSet(buf[p]) = ToSet(Tail(buf[p])) \cup {Head(buf[p])}
      /\ Once(Tail(buf[p])) /\ Head(buf[p]) \notin ToSet(Tail(buf[p]))
      /\ ToSet(buf[p]) \subseteq Mails
  BY <1>1, <1>2, TailSet DEF MailTypes, Importer, Holds
<1>5. /\ buf' \in [Procs -> Seq(Nat)] /\ buf'[p] = Tail(buf[p])
      /\ \A q \in Procs \ {p} : buf'[q] = buf[q]
  BY <1>1, <1>2, <1>4 DEF MailTypes
<1>6. Len(files) = last + 1 /\ files[last + 1] = Head(buf[p]) /\ last \in Nat
  BY <1>1, <1>2 DEF MailTypes, Importer, BoxLocked
<1>7. Arrived' = Arrived \cup {Head(buf[p])}
  BY <1>1, <1>6 DEF Arrived
<1>8. Others(p) /\ MailTypes' /\ Mails' = Mails
  <2>1. Others(p) /\ Mails' = Mails
    BY <1>1, <1>3, <1>5 DEF Others, Mails
  <2>2. last' \in 0 .. Len(files') /\ Arrived' \subseteq Mails
    BY <1>1, <1>2, <1>4, <1>6, <1>7 DEF MailTypes
  <2> QED BY <1>1, <1>2, <1>3, <1>5, <2>1, <2>2 DEF MailTypes
<1>9. Importer(p)'
  <2>1. Holds(p)'
    BY <1>3, <1>4, <1>5, <1>8, EmptySet DEF Holds, next
  <2>2. InSpool(p)' /\ InCopy(p)' /\ Copied(p)' /\ BoxLocked(p)'
    BY <1>1, <1>2, <1>3, <1>4, <1>5 DEF Importer, InSpool, InCopy, Copied, BoxLocked, Sending, next
  <2>3. Fresh(p)'
    BY <1>1, <1>2, <1>4, <1>5, <1>7 DEF Importer, Fresh, Sending
  <2> QED BY <2>1, <2>2, <2>3 DEF Importer
<1>10. \A q \in Procs \ {p} : pc[q] \notin {"write", "count"}
  BY <1>1 DEF MailInv, Importer, BoxLocked
<1>11. /\ \A q \in Procs : Importer(q)'
       /\ \A q \in Procs : \A r \in Procs \ {q} : Apart(q, r)'
  BY <1>1, <1>4, <1>5, <1>8, <1>9, <1>10, StepKeeps
<1>12. \A m \in (Mails \ excused)' : Kept(m)'
  BY <1>1, <1>4, <1>5, <1>7, <1>8, StepFinds
<1>13. \A i, j \in 1 .. last' : files'[i] = files'[j] /\ i # j => files'[i] \in excused'
  <2>1. Head(buf[p]) \in Arrived => Head(buf[p]) \in excused
    BY <1>2, <1>4 DEF Importer, Fresh
  <2>2. ASSUME NEW i \in 1 .. last, NEW j \in 1 .. last + 1, files[i] = files[j], i # j
        PROVE  files[i] \in excused
    BY <1>6, <2>1, <2>2 DEF MailInv, Arrived
  <2> QED BY <1>1, <1>6, <2>2
<1>14. (ToSet(spool) \cap Arrived \subseteq excused)'
  BY <1>1, <1>2, <1>4, <1>7 DEF MailInv, Importer, Fresh, Sending
<1> QED BY <1>8, <1>11, <1>12, <1>13, <1>14 DEF MailInv

LEMMA FailKeeps == ASSUME MailInv, NEW p \in Procs, Mail!Fail(p) PROVE MailInv'
<1>1. /\ pc[p] # "idle" /\ Mail!Goto(p, "idle") /\ spool' = spool /\ sent' = sent /\ copies' = copies
      /\ files' = files /\ last' = last /\ lock' = (IF lock = p THEN Nobody ELSE lock)
      /\ buf' = [buf EXCEPT ![p] = << >>] /\ seen' = seen
      /\ excused' = excused \cup IF pc[p] \in Sending /\ ~seen[p] THEN ToSet(buf[p]) ELSE {}
  BY SameSet DEF Mail!Fail, Mail!Idle, Sending
<1>2. MailTypes /\ "idle" \in MailPlaces /\ Importer(p)
  BY DEF MailInv, MailPlaces
<1>3. /\ pc' \in [Procs -> MailPlaces] /\ pc'[p] = "idle"
      /\ \A q \in Procs \ {p} : pc'[q] = pc[q]
  BY <1>1, <1>2, GoesTo
<1>4. /\ buf' \in [Procs -> Seq(Nat)] /\ buf'[p] = << >> /\ ToSet(buf'[p]) = {} /\ Once(buf'[p])
      /\ \A q \in Procs \ {p} : buf'[q] = buf[q]
  BY <1>1, <1>2, EmptySet DEF MailTypes
<1>5. Others(p) /\ MailTypes' /\ Arrived' = Arrived /\ Mails' = Mails
  <2>1. Arrived' = Arrived /\ Mails' = Mails BY <1>1 DEF Arrived, Mails
  <2>2. Others(p) BY <1>1, <1>3, <1>4 DEF Others
  <2>3. MailTypes' BY <1>1, <1>2, <1>3, <1>4, <2>1 DEF MailTypes
  <2> QED BY <2>1, <2>2, <2>3
<1>6. Importer(p)'
  BY <1>3, <1>4 DEF Importer, Holds, InSpool, InCopy, Copied, Fresh, BoxLocked, Sending
<1>7. \A q \in Procs \ {p} : pc[q] \in {"write", "count"} => lock' = lock
  BY <1>1 DEF MailInv, Importer, BoxLocked
<1>8. /\ \A q \in Procs : Importer(q)'
      /\ \A q \in Procs : \A r \in Procs \ {q} : Apart(q, r)'
  BY <1>1, <1>4, <1>5, <1>6, <1>7, StepKeeps
<1>9. ToSet(buf[p]) \subseteq copies \cup ToSet(spool) \cup excused'
  <2>1. CASE pc[p] \in {"read", "copied"}
    BY <1>1, <1>2, <2>1 DEF Importer, InSpool
  <2>2. CASE pc[p] \in Sending /\ seen[p]
    BY <1>1, <1>2, <2>2 DEF Importer, InCopy
  <2>3. CASE pc[p] \in Sending /\ ~seen[p]
    BY <1>1, <2>3
  <2> QED BY <1>1, <1>2, <2>1, <2>2, <2>3 DEF MailTypes, MailPlaces, Sending
<1>10. \A m \in (Mails \ excused)' : Kept(m)'
  BY <1>1, <1>5, <1>9, StepFinds
<1> QED BY <1>1, <1>5, <1>8, <1>10 DEF MailInv, Others

LEMMA MailStays ==
  ASSUME Nobody \notin Procs, MailInv, [Mail!Next]_(Mail!vars) PROVE MailInv'
<1>1. CASE UNCHANGED Mail!vars
  BY <1>1, SameMail DEF Mail!vars, Mail!mailbox, Mail!process
<1> QED
  BY <1>1, DeliverKeeps, ReadKeeps, CopyKeeps, TruncateKeeps, LockKeeps, WriteKeeps, CountKeeps,
     FailKeeps DEF Mail!Next

(* mailtoss: for any number of processes and mails, every mail is in the   *)
(* spool, in a copy, on its way or in the mailbox, and none comes twice,   *)
(* but those of two runs at a time, those between the copy and the         *)
(* truncation, and those of a run that fails without a copy.               *)
THEOREM MailComesOnce == ASSUME Nobody \notin Procs PROVE Mail!Spec => []Mail!MailSafe
<1>1. MailInv => Mail!MailSafe
  <2> SUFFICES ASSUME MailInv PROVE Mail!MailSafe
    OBVIOUS
  <2>1. /\ Mail!Imported \in Seq(Nat) /\ Len(Mail!Imported) = last
        /\ \A i \in 1 .. last : Mail!Imported[i] = files[i]
    BY DEF MailInv, MailTypes, Mail!Imported
  <2>2. ToSet(Mail!Imported) = Arrived
    BY <2>1 DEF ToSet, Arrived
  <2>3. \A m \in 1 .. sent \ excused : m \in Mail!Waiting \/ m \in Mail!ToSet(Mail!Imported)
    BY <2>2, SameSet DEF MailInv, Kept, Mails, Mail!Waiting
  <2> QED BY <2>3 DEF MailInv, Mail!MailSafe
<1> QED BY MailBegins, MailStays, <1>1, PTL DEF Mail!Spec

-----------------------------------------------------------------------------
(* One-liners: None is none of the values that it stands beside.           *)
Cells == [id : Ids \cup {None}, whole : BOOLEAN]
Lines == Seq(Cells)
Marked == None \notin Ids /\ None \notin Nat /\ None \notin Lines

IdsOf(c)  == {c[i].id : i \in 1 .. Len(c)}
OnceIn(c) == \A i, j \in 1 .. Len(c) : c[i].id = c[j].id /\ i # j => c[i].id = None
FoundIn(c, S) == \A n \in S : area[n] \in IdsOf(c) \cup {None}

IbolTypes ==
  /\ area \in Seq(Ids \cup {None}) /\ cache \in Lines \cup {None} /\ state \in Nat \cup {None}
  /\ Ibol!Checkpoint <= Len(area) /\ pc \in {"idle", "import", "state"}

(* The cache that a run makes: an update adds to the one there is.         *)
Made == IF job.op = "update" THEN cache \o job.out ELSE job.out

(* What it has gone through is in there, or it could not be read, or an    *)
(* earlier rebuild had given it up.                                        *)
GivenUp == job.failed \cup (IF job.op = "update" THEN passed ELSE {})
Importing ==
  pc = "import" =>
    /\ job.op = "update" => cache # None /\ Ibol!Checkpoint < job.next
    /\ job.op = "rebuild" => Ibol!Checkpoint <= job.high
    /\ OnceIn(Made) /\ job.ids = IdsOf(Made) \ {None}
    /\ FoundIn(Made, 1 .. job.next - 1 \ GivenUp)

IbolJobs == [op : {"update", "rebuild"}, next : Nat, high : Nat, ids : SUBSET Ids,
             failed : SUBSET Nat, out : Lines]
Running ==
  pc # "idle" => /\ job \in IbolJobs
                 /\ job.next \in 1 .. job.high + 1 /\ job.high <= Len(area)

(* The cache is installed, all there is to do is to move the checkpoint.   *)
Ending == pc = "state" => cache # None /\ FoundIn(cache, 1 .. job.high \ (job.failed \cup passed))

(* IbolOnce, with the lines counted from 1.                                *)
IbolKept == cache # None => OnceIn(cache) /\ FoundIn(cache, 1 .. Ibol!Checkpoint \ passed)

IbolInv == IbolTypes /\ Running /\ Importing /\ Ending /\ IbolKept

-----------------------------------------------------------------------------
LEMMA KnownIs == ASSUME NEW c \in Lines PROVE Ibol!Known(c) = IdsOf(c) \ {None} /\ DOMAIN c = 1 .. Len(c)
BY LenProperties DEF Ibol!Known, IdsOf, Lines

LEMMA KeptIs == ASSUME IbolTypes, IbolKept PROVE Ibol!IbolOnce
<1> SUFFICES ASSUME cache # None
             PROVE  /\ \A i, j \in DOMAIN cache : cache[i].id = cache[j].id /\ i # j => cache[i].id = None
                    /\ \A n \in 1 .. Ibol!Checkpoint \ passed : area[n] \in Ibol!Known(cache) \cup {None}
  BY DEF Ibol!IbolOnce
<1>1. cache \in Lines
  BY DEF IbolTypes
<1> QED BY <1>1, KnownIs DEF IbolKept, OnceIn, FoundIn

LEMMA JoinIs ==
  ASSUME NEW c \in Lines, NEW d \in Lines
  PROVE  /\ c \o d \in Lines /\ Len(c \o d) = Len(c) + Len(d) /\ Len(c) \in Nat /\ Len(d) \in Nat
         /\ \A i \in 1 .. Len(c) : (c \o d)[i] = c[i]
         /\ \A i \in 1 .. Len(d) : (c \o d)[Len(c) + i] = d[i]
         /\ \A i \in 1 .. Len(c) + Len(d) : i \in 1 .. Len(c) \/ \E k \in 1 .. Len(d) : i = Len(c) + k
<1>1. /\ c \o d \in Seq(Cells) /\ Len(c \o d) = Len(c) + Len(d) /\ Len(c) \in Nat /\ Len(d) \in Nat
      /\ \A i \in 1 .. Len(c) + Len(d) : (c \o d)[i] = IF i <= Len(c) THEN c[i] ELSE d[i - Len(c)]
  BY ConcatProperties, LenProperties DEF Lines
<1>2. \A i \in 1 .. Len(c) : (c \o d)[i] = c[i]
  BY <1>1
<1>3. ASSUME NEW i \in 1 .. Len(d) PROVE (c \o d)[Len(c) + i] = d[i]
  <2>1. Len(c) + i \in 1 .. Len(c) + Len(d) /\ ~ (Len(c) + i <= Len(c)) /\ Len(c) + i - Len(c) = i
    BY <1>1
  <2> QED BY <1>1, <2>1
<1>4. ASSUME NEW i \in 1 .. Len(c) + Len(d) PROVE i \in 1 .. Len(c) \/ \E k \in 1 .. Len(d) : i = Len(c) + k
  <2>1. i \in 1 .. Len(c) \/ (i - Len(c) \in 1 .. Len(d) /\ i = Len(c) + (i - Len(c)))
    BY <1>1
  <2> QED BY <2>1
<1> QED BY <1>1, <1>2, <1>3, <1>4 DEF Lines

LEMMA JoinIds ==
  ASSUME NEW c \in Lines, NEW d \in Lines
  PROVE  IdsOf(c \o d) = IdsOf(c) \cup IdsOf(d)
<1> DEFINE y == c \o d
<1>1. /\ Len(y) = Len(c) + Len(d) /\ Len(c) \in Nat /\ Len(d) \in Nat
      /\ \A i \in 1 .. Len(c) : y[i] = c[i]
      /\ \A i \in 1 .. Len(d) : y[Len(c) + i] = d[i]
      /\ \A i \in 1 .. Len(y) : i \in 1 .. Len(c) \/ \E k \in 1 .. Len(d) : i = Len(c) + k
  BY JoinIs
<1> HIDE DEF y
<1>2. ASSUME NEW i \in 1 .. Len(y) PROVE y[i].id \in IdsOf(c) \cup IdsOf(d)
  <2>1. CASE i \in 1 .. Len(c)
    BY <1>1, <2>1 DEF IdsOf
  <2>2. ASSUME NEW k \in 1 .. Len(d), i = Len(c) + k PROVE y[i].id \in IdsOf(d)
    BY <1>1, <2>2 DEF IdsOf
  <2> QED BY <1>1, <2>1, <2>2
<1>3. ASSUME NEW i \in 1 .. Len(c) PROVE c[i].id \in IdsOf(y)
  <2>1. i \in 1 .. Len(y) /\ y[i] = c[i]
    BY <1>1
  <2> QED BY <2>1 DEF IdsOf
<1>4. ASSUME NEW i \in 1 .. Len(d) PROVE d[i].id \in IdsOf(y)
  <2>1. Len(c) + i \in 1 .. Len(y) /\ y[Len(c) + i] = d[i]
    BY <1>1
  <2> QED BY <2>1 DEF IdsOf
<1>5. IdsOf(y) = IdsOf(c) \cup IdsOf(d)
  BY <1>2, <1>3, <1>4 DEF IdsOf
<1> QED BY <1>5 DEF y

(* Of what is added, a part can stand for the whole, with lines cut off.   *)
LEMMA PartOnce ==
  ASSUME NEW c \in Lines, NEW d \in Lines, NEW e \in Lines, OnceIn(c \o d), Len(e) <= Len(d),
         \A i \in 1 .. Len(e) : e[i].id \in {None, d[i].id}
  PROVE  OnceIn(c \o e)
<1> DEFINE x == c \o d  y == c \o e
<1>1. Len(c) \in Nat /\ Len(d) \in Nat /\ Len(e) \in Nat /\ Len(x) = Len(c) + Len(d) /\ Len(y) = Len(c) + Len(e)
  BY JoinIs
<1>2. ASSUME NEW i \in 1 .. Len(y) PROVE i \in 1 .. Len(x) /\ y[i].id \in {None, x[i].id}
  <2>1. CASE i \in 1 .. Len(c)
    BY <1>1, <2>1, JoinIs
  <2>2. ASSUME NEW k \in 1 .. Len(e), i = Len(c) + k PROVE i \in 1 .. Len(x) /\ y[i].id \in {None, x[i].id}
    <3>1. k \in 1 .. Len(d)
      BY <1>1
    <3>2. y[i] = e[k] /\ x[i] = d[k]
      BY <2>2, <3>1, JoinIs
    <3> QED BY <1>1, <2>2, <3>1, <3>2
  <2>3. i \in 1 .. Len(c) \/ \E k \in 1 .. Len(e) : i = Len(c) + k
    BY <1>1, JoinIs
  <2> QED BY <2>1, <2>2, <2>3
<1> HIDE DEF x, y
<1>3. OnceIn(y)
  BY <1>2 DEF OnceIn, x
<1> QED BY <1>3 DEF y

LEMMA PieceIs ==
  ASSUME NEW d \in Lines, NEW e \in Ibol!Pieces(d)
  PROVE  e \in Lines /\ Len(e) <= Len(d) /\ \A i \in 1 .. Len(e) : e[i].id \in {None, d[i].id}
<1>1. Len(d) \in Nat /\ \A i \in 1 .. Len(d) : d[i] \in Cells
  BY LenProperties, ElementOfSeq DEF Lines
<1>2. ASSUME NEW k \in 0 .. Len(d)
      PROVE  /\ SubSeq(d, 1, k) \in Lines /\ Len(SubSeq(d, 1, k)) = k
             /\ \A i \in 1 .. k : SubSeq(d, 1, k)[i] = d[i]
  <2>1. k \in Int /\ \A i \in 1 .. k : d[i] \in Cells
    BY <1>1
  <2>2. /\ SubSeq(d, 1, k) \in Seq(Cells) /\ Len(SubSeq(d, 1, k)) = IF 1 <= k THEN k - 1 + 1 ELSE 0
        /\ \A i \in 1 .. k - 1 + 1 : SubSeq(d, 1, k)[i] = d[1 + i - 1]
    BY <2>1, SubSeqProperties
  <2> QED BY <1>1, <2>2 DEF Lines
<1>3. CASE \E k \in 0 .. Len(d) : e = SubSeq(d, 1, k)
  BY <1>1, <1>2, <1>3
<1>4. ASSUME NEW k \in 1 .. Len(d), NEW l \in {Ibol!Torn, [d[k] EXCEPT !.whole = FALSE]},
             e = Append(SubSeq(d, 1, k - 1), l)
      PROVE  e \in Lines /\ Len(e) <= Len(d) /\ \A i \in 1 .. Len(e) : e[i].id \in {None, d[i].id}
  <2>1. l \in Cells /\ l.id \in {None, d[k].id}
    <3>1. d[k] \in Cells
      BY <1>1
    <3>2. CASE l = Ibol!Torn
      BY <3>2 DEF Ibol!Torn, Cells
    <3>3. CASE l = [d[k] EXCEPT !.whole = FALSE]
      BY <3>1, <3>3 DEF Cells
    <3> QED BY <3>2, <3>3
  <2> DEFINE b == SubSeq(d, 1, k - 1)
  <2>2. k - 1 \in 0 .. Len(d)
    BY <1>1
  <2>3. b \in Lines /\ Len(b) = k - 1 /\ \A i \in 1 .. k - 1 : b[i] = d[i]
    BY <1>2, <2>2
  <2> HIDE DEF b
  <2>4. /\ Append(b, l) \in Seq(Cells) /\ Len(Append(b, l)) = k /\ Append(b, l)[k] = l
        /\ \A i \in 1 .. k - 1 : Append(b, l)[i] = b[i]
    BY <1>1, <2>1, <2>3, AppendProperties DEF Lines
  <2>5. e = Append(b, l)
    BY <1>4 DEF b
  <2> QED BY <1>1, <2>1, <2>3, <2>4, <2>5 DEF Lines
<1> QED BY <1>3, <1>4 DEF Ibol!Pieces

LEMMA AppendJoin ==
  ASSUME NEW c \in Lines, NEW d \in Lines, NEW l \in Cells
  PROVE  c \o Append(d, l) = Append(c \o d, l)
<1>1. c \in Seq(Cells) /\ d \in Seq(Cells) /\ c \o d \in Seq(Cells) /\ << l >> \in Seq(Cells)
  BY JoinIs DEF Lines
<1>2. Append(d, l) = d \o << l >> /\ Append(c \o d, l) = (c \o d) \o << l >>
  BY <1>1, AppendIsConcat
<1>3. (c \o d) \o << l >> = c \o (d \o << l >>)
  BY <1>1, ConcatAssociative
<1> QED BY <1>2, <1>3

(* A line with another MSGID than those there are.                         *)
LEMMA AppendOnce ==
  ASSUME NEW c \in Lines, OnceIn(c), NEW l \in Cells, l.id \notin IdsOf(c)
  PROVE  /\ Append(c, l) \in Lines /\ OnceIn(Append(c, l))
         /\ IdsOf(Append(c, l)) = IdsOf(c) \cup {l.id}
<1> DEFINE a == Append(c, l)
<1>1. /\ a \in Seq(Cells) /\ Len(a) = Len(c) + 1 /\ Len(c) \in Nat /\ a[Len(c) + 1] = l
      /\ \A i \in 1 .. Len(c) : a[i] = c[i]
  BY AppendProperties, LenProperties DEF Lines
<1> HIDE DEF a
<1>2. \A i \in 1 .. Len(a) : i = Len(c) + 1 \/ i \in 1 .. Len(c)
  BY <1>1
<1>3. \A i \in 1 .. Len(c) : i \in 1 .. Len(a) /\ c[i].id # l.id
  BY <1>1 DEF IdsOf
<1>4. OnceIn(a)
  BY <1>1, <1>2, <1>3 DEF OnceIn
<1>5. Len(c) + 1 \in 1 .. Len(a)
  BY <1>1
<1>6. IdsOf(a) = IdsOf(c) \cup {l.id}
  BY <1>1, <1>2, <1>3, <1>5 DEF IdsOf
<1> QED BY <1>1, <1>4, <1>6 DEF Lines, a

-----------------------------------------------------------------------------
LEMMA IbolBegins == ASSUME Marked PROVE Ibol!Init => IbolInv
<1> SUFFICES ASSUME Ibol!Init PROVE IbolInv
  OBVIOUS
<1>1. area = << >> /\ cache = None /\ state = None /\ pc = "idle"
  BY DEF Ibol!Init
<1>2. area \in Seq(Ids \cup {None}) /\ Len(area) = 0
  BY <1>1, EmptySeq
<1> QED BY <1>1, <1>2 DEF IbolInv, IbolTypes, Running, Importing, Ending, IbolKept, Ibol!Checkpoint

LEMMA SameIbol ==
  ASSUME IbolInv, area' = area, cache' = cache, state' = state, pc' = pc, job' = job, passed' = passed
  PROVE  IbolInv'
<1>1. IbolTypes' /\ Running'
  BY DEF IbolInv, IbolTypes, Running, Ibol!Checkpoint
<1>2. Importing' /\ Ending' /\ IbolKept'
  BY DEF IbolInv, Importing, Ending, IbolKept, Made, GivenUp, FoundIn, Ibol!Checkpoint
<1> QED BY <1>1, <1>2 DEF IbolInv

(* New files come above the old ones.                                      *)
LEMMA ArriveKeeps ==
  ASSUME Marked, IbolInv, NEW id \in Ids \cup {None}, Ibol!Arrive(id) PROVE IbolInv'
<1>1. /\ area' = Append(area, id) /\ cache' = cache /\ state' = state /\ pc' = pc
      /\ job' = job /\ passed' = passed
  BY DEF Ibol!Arrive, Ibol!disk
<1>2. /\ area \in Seq(Ids \cup {None}) /\ area' \in Seq(Ids \cup {None}) /\ Len(area) \in Nat
      /\ Len(area') = Len(area) + 1 /\ \A n \in 1 .. Len(area) : area'[n] = area[n]
  BY <1>1, AppendProperties DEF IbolInv, IbolTypes
<1>3. Ibol!Checkpoint' = Ibol!Checkpoint /\ Ibol!Checkpoint \in 0 .. Len(area)
  BY <1>1, <1>2 DEF IbolInv, IbolTypes, Ibol!Checkpoint
<1>4. IbolTypes' /\ Running'
  BY <1>1, <1>2, <1>3 DEF IbolInv, IbolTypes, Running, IbolJobs
<1>5. pc # "idle" => job.next - 1 <= Len(area) /\ job.high <= Len(area) /\ job.next \in Nat /\ job.high \in Nat
  BY <1>2 DEF IbolInv, Running, IbolJobs
<1>6. pc = "import" => \A n \in 1 .. job.next - 1 \ GivenUp : n \in 1 .. Len(area)
  BY <1>2, <1>5
<1>7. Importing'
  <2>1. Made' = Made /\ GivenUp' = GivenUp
    BY <1>1 DEF Made, GivenUp
  <2> QED BY <1>1, <1>2, <1>3, <1>6, <2>1 DEF IbolInv, Importing, FoundIn
<1>8. Ending'
  BY <1>1, <1>2, <1>5 DEF IbolInv, Ending, FoundIn
<1>9. IbolKept'
  BY <1>1, <1>2, <1>3 DEF IbolInv, IbolKept, FoundIn
<1> QED BY <1>4, <1>7, <1>8, <1>9 DEF IbolInv

LEMMA RemoveCacheKeeps == ASSUME IbolInv, Ibol!RemoveCache PROVE IbolInv'
<1>1. /\ pc = "idle" /\ cache' = None /\ area' = area /\ state' = state /\ pc' = pc /\ passed' = passed
  BY DEF Ibol!RemoveCache
<1> QED BY <1>1 DEF IbolInv, IbolTypes, Running, Importing, Ending, IbolKept, Ibol!Checkpoint

LEMMA UpdateKeeps == ASSUME Marked, IbolInv, Ibol!Update PROVE IbolInv'
<1> DEFINE ids == Ibol!Known(Ibol!Lines)
           j == [op |-> "update", next |-> Ibol!Checkpoint + 1, high |-> Len(area),
                 ids |-> ids, failed |-> {}, out |-> << >>]
<1>1. /\ pc' = "import" /\ job' = j /\ cache' = Ibol!Lines /\ (state # None => cache # None)
      /\ area' = area /\ state' = state /\ passed' = passed
  BY DEF Ibol!Update, Ibol!Begin, Ibol!Highest
<1>2. /\ Ibol!Lines \in Lines /\ Ibol!Lines # None
      /\ cache # None => Ibol!Lines = cache
      /\ cache = None => Ibol!Lines = << >>
  BY EmptySeq DEF Marked, IbolInv, IbolTypes, Ibol!Lines, Lines
<1>3. ids = IdsOf(Ibol!Lines) \ {None} /\ ids \subseteq Ids
  <2>1. \A i \in 1 .. Len(Ibol!Lines) : Ibol!Lines[i] \in Cells
    BY <1>2, ElementOfSeq DEF Lines
  <2>2. \A i \in 1 .. Len(Ibol!Lines) : Ibol!Lines[i].id \in Ids \cup {None}
    BY <2>1 DEF Cells
  <2>3. ids = IdsOf(Ibol!Lines) \ {None}
    BY <1>2, KnownIs
  <2> QED BY <2>2, <2>3 DEF IdsOf
<1>4. /\ Len(area) \in Nat /\ Ibol!Checkpoint \in 0 .. Len(area) /\ Ibol!Checkpoint' = Ibol!Checkpoint
  BY <1>1 DEF IbolInv, IbolTypes, Ibol!Checkpoint
<1>5. /\ j.op = "update" /\ j.next = Ibol!Checkpoint + 1 /\ j.high = Len(area)
      /\ j.ids = ids /\ j.failed = {} /\ j.out = << >>
  OBVIOUS
<1>6. IbolTypes'
  BY <1>1, <1>2, <1>4 DEF IbolInv, IbolTypes
<1>7. j \in IbolJobs
  BY <1>3, <1>4, EmptySeq DEF IbolJobs, Lines
<1> HIDE DEF ids, j
<1>8. Running'
  BY <1>1, <1>4, <1>5, <1>7 DEF Running
<1>9. OnceIn(Ibol!Lines) /\ FoundIn(Ibol!Lines, 1 .. Ibol!Checkpoint \ passed)
  <2>1. CASE cache = None
    <3>1. Ibol!Checkpoint = 0 /\ Len(Ibol!Lines) = 0
      BY <1>1, <1>2, <2>1, EmptySeq DEF Ibol!Checkpoint
    <3> QED BY <3>1 DEF OnceIn, FoundIn
  <2>2. CASE cache # None
    BY <1>2, <2>2 DEF IbolInv, IbolKept
  <2> QED BY <2>1, <2>2
<1>10. Importing'
  <2>1. Made' = cache' /\ GivenUp' = passed
    BY <1>1, <1>2, <1>5, ConcatEmptySeq DEF Made, GivenUp, Lines
  <2> QED BY <1>1, <1>2, <1>3, <1>4, <1>5, <1>9, <2>1 DEF Importing, FoundIn
<1>11. Ending' /\ IbolKept'
  BY <1>1, <1>4, <1>9 DEF Ending, IbolKept, FoundIn
<1> QED BY <1>6, <1>8, <1>10, <1>11 DEF IbolInv

LEMMA RebuildKeeps == ASSUME IbolInv, Ibol!Rebuild PROVE IbolInv'
<1> DEFINE j == [op |-> "rebuild", next |-> 1, high |-> Len(area), ids |-> {}, failed |-> {},
                 out |-> << >>]
<1>1. /\ pc' = "import" /\ job' = j /\ cache' = cache
      /\ area' = area /\ state' = state /\ passed' = passed
  BY DEF Ibol!Rebuild, Ibol!Begin, Ibol!Highest, Ibol!disk
<1>2. j.op = "rebuild" /\ j.next = 1 /\ j.high = Len(area) /\ j.ids = {} /\ j.failed = {} /\ j.out = << >>
  OBVIOUS
<1>3. /\ Len(area) \in Nat /\ Ibol!Checkpoint \in 0 .. Len(area) /\ Ibol!Checkpoint' = Ibol!Checkpoint
  BY <1>1 DEF IbolInv, IbolTypes, Ibol!Checkpoint
<1>4. j \in IbolJobs
  BY <1>3, EmptySeq DEF IbolJobs, Lines
<1> HIDE DEF j
<1>5. IbolTypes' /\ Running' /\ Ending'
  BY <1>1, <1>2, <1>3, <1>4 DEF IbolInv, IbolTypes, Running, Ending
<1>6. Importing'
  <2>1. Made' = << >> /\ Len(Made') = 0
    BY <1>1, <1>2, EmptySeq DEF Made
  <2>2. IdsOf(Made') = {} /\ OnceIn(Made')
    BY <2>1 DEF IdsOf, OnceIn
  <2> QED BY <1>1, <1>2, <1>3, <2>1, <2>2 DEF Importing, FoundIn
<1>7. IbolKept'
  BY <1>1, <1>3 DEF IbolInv, IbolKept, FoundIn
<1> QED BY <1>5, <1>6, <1>7 DEF IbolInv

LEMMA DieKeeps == ASSUME Marked, IbolInv, Ibol!Die PROVE IbolInv'
<1>1. /\ pc # "idle" /\ pc' = "idle" /\ area' = area /\ state' = state /\ passed' = passed
      /\ \/ cache' = cache
         \/ /\ pc = "import" /\ job.op = "update"
            /\ \E new \in Ibol!Pieces(job.out) : cache' = cache \o new
  BY DEF Ibol!Die
<1>2. Ibol!Checkpoint' = Ibol!Checkpoint
  BY <1>1 DEF Ibol!Checkpoint
<1>3. Running' /\ Importing' /\ Ending'
  BY <1>1 DEF Running, Importing, Ending
<1>4. CASE cache' = cache
  BY <1>1, <1>2, <1>3, <1>4 DEF IbolInv, IbolTypes, IbolKept, FoundIn
<1>5. CASE pc = "import" /\ job.op = "update" /\ \E new \in Ibol!Pieces(job.out) : cache' = cache \o new
  <2>1. PICK new \in Ibol!Pieces(job.out) : cache' = cache \o new
    BY <1>5
  <2>2. cache \in Lines /\ job.out \in Lines /\ cache # None /\ OnceIn(cache \o job.out)
    BY <1>5 DEF IbolInv, IbolTypes, Running, Importing, IbolJobs, Made
  <2>3. new \in Lines /\ OnceIn(cache \o new)
    BY <2>2, PieceIs, PartOnce
  <2>4. cache \o new \in Lines /\ IdsOf(cache) \subseteq IdsOf(cache \o new)
    BY <2>2, <2>3, JoinIs, JoinIds
  <2>5. FoundIn(cache, 1 .. Ibol!Checkpoint \ passed)
    BY <2>2 DEF IbolInv, IbolKept
  <2>6. IbolKept'
    BY <1>1, <1>2, <2>1, <2>3, <2>4, <2>5 DEF IbolKept, FoundIn
  <2> QED BY <1>1, <1>2, <1>3, <2>1, <2>4, <2>6 DEF IbolInv, IbolTypes
<1> QED BY <1>1, <1>4, <1>5

(* One more file: what was found stays so, and this one is found too.      *)
LEMMA GoesOn ==
  ASSUME IbolInv, pc = "import", job.next <= job.high,
         area' = area, cache' = cache, state' = state, pc' = pc, passed' = passed,
         job'.op = job.op, job'.next = job.next + 1, job'.high = job.high, job' \in IbolJobs,
         job.failed \subseteq job'.failed, IdsOf(Made) \subseteq IdsOf(Made'),
         OnceIn(Made'), job'.ids = IdsOf(Made') \ {None},
         area[job.next] \in IdsOf(Made') \cup {None} \/ job.next \in job'.failed
  PROVE  IbolInv'
<1>1. /\ job.op \in {"update", "rebuild"} /\ job.next \in Nat \ {0} /\ job.high \in Nat /\ Len(area) \in Nat
      /\ job.high <= Len(area)
  BY DEF IbolInv, IbolTypes, Running, IbolJobs
<1>2. Ibol!Checkpoint' = Ibol!Checkpoint /\ Ibol!Checkpoint \in Nat
  BY DEF IbolInv, IbolTypes, Ibol!Checkpoint
<1>3. IbolTypes' /\ Running' /\ Ending'
  BY <1>1, <1>2 DEF IbolInv, IbolTypes, Running, Ending
<1>4. IbolKept'
  BY <1>2 DEF IbolInv, IbolKept, FoundIn
<1>5. GivenUp \subseteq GivenUp' /\ job'.failed \subseteq GivenUp'
  BY DEF GivenUp
<1>6. ASSUME NEW m \in 1 .. job'.next - 1 \ GivenUp' PROVE area'[m] \in IdsOf(Made') \cup {None}
  <2>1. CASE m = job.next
    BY <1>5, <1>6, <2>1
  <2>2. CASE m # job.next
    <3>1. m \in 1 .. job.next - 1 \ GivenUp
      BY <1>1, <1>5, <1>6, <2>2
    <3>2. area[m] \in IdsOf(Made) \cup {None}
      BY <3>1 DEF IbolInv, Importing, FoundIn
    <3> QED BY <3>2
  <2> QED BY <2>1, <2>2
<1>7. Importing'
  BY <1>1, <1>2, <1>6 DEF IbolInv, Importing, FoundIn
<1> QED BY <1>3, <1>4, <1>7 DEF IbolInv

LEMMA ImportKeeps == ASSUME Marked, IbolInv, Ibol!ImportFile PROVE IbolInv'
<1> DEFINE n == job.next
           id == area[n]
           l == Ibol!Line(id)
           out == Append(job.out, l)
<1>1. /\ pc = "import" /\ n <= job.high /\ area' = area /\ cache' = cache /\ state' = state /\ pc' = pc
      /\ passed' = passed
  BY DEF Ibol!ImportFile, Ibol!disk
<1>2. job \in IbolJobs /\ n \in 1 .. Len(area) /\ n + 1 \in Nat /\ job.out \in Lines /\ job.op \in {"update", "rebuild"}
  BY <1>1 DEF IbolInv, IbolTypes, Running, IbolJobs
<1>3. id \in Ids \cup {None}
  BY <1>2, ElementOfSeq DEF IbolInv, IbolTypes
<1>4. OnceIn(Made) /\ job.ids = IdsOf(Made) \ {None} /\ (job.op = "update" => cache \in Lines)
  BY <1>1 DEF IbolInv, Importing, IbolTypes
<1>5. Made \in Lines
  BY <1>2, <1>4, JoinIs DEF Made
<1>6. CASE job' = [job EXCEPT !.next = n + 1, !.failed = job.failed \cup {n}]
  <2>1. /\ job'.op = job.op /\ job'.next = n + 1 /\ job'.high = job.high /\ job'.ids = job.ids
        /\ job'.failed = job.failed \cup {n} /\ job'.out = job.out /\ job' \in IbolJobs
    BY <1>2, <1>6 DEF IbolJobs
  <2>2. Made' = Made
    BY <1>1, <2>1 DEF Made
  <2> QED BY <1>1, <1>4, <2>1, <2>2, GoesOn
<1>7. CASE job' = [job EXCEPT !.next = n + 1] /\ (id = None \/ id \in job.ids)
  <2>1. /\ job'.op = job.op /\ job'.next = n + 1 /\ job'.high = job.high /\ job'.ids = job.ids
        /\ job'.failed = job.failed /\ job'.out = job.out /\ job' \in IbolJobs
    BY <1>2, <1>7 DEF IbolJobs
  <2>2. Made' = Made
    BY <1>1, <2>1 DEF Made
  <2>3. id \in IdsOf(Made') \cup {None}
    BY <1>4, <1>7, <2>2
  <2> QED BY <1>1, <1>4, <2>1, <2>2, <2>3, GoesOn
<1>8. CASE /\ id # None /\ id \notin job.ids
           /\ job' = [job EXCEPT !.next = n + 1, !.ids = job.ids \cup {id}, !.out = out]
  <2>1. id \in Ids /\ l \in Cells /\ l.id = id /\ id \notin IdsOf(Made)
    BY <1>3, <1>4, <1>8 DEF Ibol!Line, Cells
  <2>2. out \in Lines
    BY <1>2, <2>1, AppendProperties DEF Lines
  <2> HIDE DEF l
  <2>3. Append(Made, l) \in Lines /\ OnceIn(Append(Made, l)) /\ IdsOf(Append(Made, l)) = IdsOf(Made) \cup {id}
    BY <1>4, <1>5, <2>1, AppendOnce
  <2>4. job.op = "update" => cache \o out = Append(cache \o job.out, l)
    BY <1>2, <1>4, <2>1, AppendJoin
  <2> HIDE DEF out
  <2>5. /\ job'.op = job.op /\ job'.next = n + 1 /\ job'.high = job.high /\ job'.ids = job.ids \cup {id}
        /\ job'.failed = job.failed /\ job'.out = out /\ job' \in IbolJobs
    BY <1>2, <1>8, <2>1, <2>2 DEF IbolJobs
  <2>6. Made' = Append(Made, l)
    BY <1>1, <1>2, <2>4, <2>5 DEF Made, out
  <2>7. job'.ids = IdsOf(Made') \ {None} /\ IdsOf(Made) \subseteq IdsOf(Made') /\ id \in IdsOf(Made')
    BY <1>4, <1>8, <2>3, <2>5, <2>6
  <2> QED BY <1>1, <2>3, <2>5, <2>6, <2>7, GoesOn
<1> QED BY <1>6, <1>7, <1>8 DEF Ibol!ImportFile, Ibol!New

LEMMA InstallKeeps == ASSUME Marked, IbolInv, Ibol!Install PROVE IbolInv'
<1>1. /\ pc = "import" /\ job.next > job.high /\ pc' = "state" /\ area' = area /\ state' = state /\ job' = job
      /\ cache' = IF job.op = "rebuild" THEN job.out ELSE cache \o job.out
      /\ passed' = IF job.op = "rebuild" THEN job.failed \cap (1 .. Ibol!Checkpoint) ELSE passed
  BY DEF Ibol!Install
<1>2. /\ job.op \in {"update", "rebuild"} /\ job.next = job.high + 1 /\ job.high \in Nat
      /\ job.out \in Lines
  BY <1>1 DEF IbolInv, Running, IbolJobs
<1>3. Ibol!Checkpoint' = Ibol!Checkpoint /\ Ibol!Checkpoint \in Nat
  BY <1>1 DEF IbolInv, IbolTypes, Ibol!Checkpoint
<1>4. Running' /\ Importing'
  BY <1>1 DEF IbolInv, Running, Importing
<1>5. cache' = Made /\ Made \in Lines
  <2>1. job.op = "update" => cache \in Lines
    BY <1>1 DEF IbolInv, IbolTypes, Importing
  <2> QED BY <1>1, <1>2, <2>1, JoinIs DEF Made
<1>6. cache' # None
  BY <1>5 DEF Marked
<1>7. OnceIn(cache') /\ FoundIn(cache', 1 .. job.high \ GivenUp)
  <2>1. OnceIn(Made) /\ FoundIn(Made, 1 .. job.next - 1 \ GivenUp)
    BY <1>1 DEF IbolInv, Importing
  <2>2. job.next - 1 = job.high
    BY <1>2
  <2> QED BY <1>5, <2>1, <2>2
<1>8. IbolTypes'
  BY <1>1, <1>3, <1>5 DEF IbolInv, IbolTypes
<1>9. Ending'
  BY <1>1, <1>2, <1>6, <1>7 DEF Ending, FoundIn, GivenUp
<1>10. FoundIn(cache', 1 .. Ibol!Checkpoint \ passed')
  <2>1. CASE job.op = "update"
    <3>1. cache \in Lines /\ cache # None /\ cache' = cache \o job.out /\ passed' = passed
      BY <1>1, <2>1 DEF IbolInv, IbolTypes, Importing
    <3>2. IdsOf(cache) \subseteq IdsOf(cache')
      BY <1>2, <3>1, JoinIds
    <3> QED BY <3>1, <3>2 DEF IbolInv, IbolKept, FoundIn
  <2>2. CASE job.op = "rebuild"
    <3>1. passed' = job.failed \cap (1 .. Ibol!Checkpoint) /\ Ibol!Checkpoint <= job.high /\ GivenUp = job.failed
      BY <1>1, <2>2 DEF IbolInv, Importing, GivenUp
    <3>2. \A m \in 1 .. Ibol!Checkpoint \ passed' : m \in 1 .. job.high \ GivenUp
      BY <1>2, <1>3, <3>1
    <3> QED BY <1>7, <3>2 DEF FoundIn
  <2> QED BY <1>2, <2>1, <2>2
<1>11. IbolKept'
  BY <1>1, <1>3, <1>7, <1>10 DEF IbolKept, FoundIn
<1> QED BY <1>4, <1>8, <1>9, <1>11 DEF IbolInv

LEMMA WriteStateKeeps == ASSUME Marked, IbolInv, Ibol!WriteState PROVE IbolInv'
<1>1. /\ pc = "state" /\ pc' = "idle" /\ area' = area /\ cache' = cache /\ passed' = passed
      /\ state' = IF job.failed = {} THEN job.high ELSE state
  BY DEF Ibol!WriteState, Ibol!Moves
<1>2. job.high \in Nat /\ job.high <= Len(area)
  BY <1>1 DEF IbolInv, Running, IbolJobs
<1>3. Running' /\ Importing' /\ Ending'
  BY <1>1 DEF Running, Importing, Ending
<1>4. IbolTypes'
  BY <1>1, <1>2 DEF Marked, IbolInv, IbolTypes, Ibol!Checkpoint
<1>5. IbolKept'
  <2>1. CASE job.failed # {}
    BY <1>1, <2>1 DEF IbolInv, IbolKept, FoundIn, Ibol!Checkpoint
  <2>2. CASE job.failed = {}
    <3>1. Ibol!Checkpoint' = job.high
      BY <1>1, <1>2, <2>2 DEF Marked, Ibol!Checkpoint
    <3>2. FoundIn(cache, 1 .. job.high \ passed)
      BY <1>1, <1>2, <2>2 DEF IbolInv, Ending, FoundIn
    <3> QED BY <1>1, <3>1, <3>2 DEF IbolInv, IbolKept, FoundIn
  <2> QED BY <2>1, <2>2
<1> QED BY <1>3, <1>4, <1>5 DEF IbolInv

LEMMA IbolStays == ASSUME Marked, IbolInv, [Ibol!Next]_(Ibol!vars) PROVE IbolInv'
<1>1. CASE UNCHANGED Ibol!vars
  BY <1>1, SameIbol DEF Ibol!vars, Ibol!disk
<1>2. ASSUME NEW n \in 1 .. Ibol!Highest, Ibol!Spoil(n) \/ Ibol!Mend(n) PROVE IbolInv'
  BY <1>2, SameIbol DEF Ibol!Spoil, Ibol!Mend, Ibol!disk
<1> QED
  BY <1>1, <1>2, ArriveKeeps, RemoveCacheKeeps, UpdateKeeps, RebuildKeeps, ImportKeeps, InstallKeeps,
     WriteStateKeeps, DieKeeps DEF Ibol!Next

(* ibolimport: for any number of messages and of runs, one at a time,      *)
(* wherever one is killed and whatever cannot be read at the time, no      *)
(* one-liner is in the cache twice and every one up to the checkpoint is   *)
(* in it, if only in part, but those a rebuild gave up.                    *)
THEOREM IbolComesOnce == ASSUME Marked PROVE Ibol!Spec => []Ibol!IbolOnce
<1>1. IbolInv => Ibol!IbolOnce
  BY KeptIs DEF IbolInv
<1> QED BY IbolBegins, IbolStays, <1>1, PTL DEF Ibol!Spec

-----------------------------------------------------------------------------
(* News: a gap is one missing article or more.                             *)
GapIs == Gap \in Nat \ {0}

Stamped(fs) == \A n \in DOMAIN fs : fs[n] \in 0 .. now
NewsPlaces  == {"idle", "active", "search", "open", "import"}
NewsJobs    == [last : Nat, high : Nat, first : Nat, to : Nat, mtime : Nat, list : SUBSET Nat,
                 stuck : BOOLEAN]

NewsTypes ==
  /\ now \in Nat /\ active \in Nat /\ texts \in Seq([art : Nat, com : Nat])
  /\ DOMAIN spool \subseteq 1 .. active /\ Stamped(spool)
  /\ DOMAIN files \subseteq 1 .. Len(texts) /\ Stamped(files)
  /\ pc \in NewsPlaces /\ job \in NewsJobs /\ job.list \subseteq 1 .. Len(texts)
  /\ \A t \in 1 .. Len(texts) : texts[t].art \in 1 .. active /\ texts[t].com \in 0 .. Len(texts)

There    == DOMAIN spool
Waiting  == There \ (News!Old \cup excused \cup lost)
CameBack == (News!Old \cap There) \ excused
LastText == Len(texts)

(* What waits is not older than the last text, and what was copied is.     *)
Told(stamp) == \A n \in Waiting : stamp <= spool[n]
TimesTell ==
  /\ (pc # "import" \/ job.last = LastText) /\ LastText \in DOMAIN files => Told(files[LastText])
  /\ \A n \in CameBack : LastText \in DOMAIN files /\ spool[n] < files[LastText]
  /\ pc = "import" => Told(job.mtime) /\ \A n \in CameBack : n < job.first \/ spool[n] < job.mtime

(* A run has come to job.first: what it left behind is in the conference,  *)
(* or failed, and is lost if the run has stored a text.                    *)
RunNews ==
  /\ pc \in {"active", "search", "open"} => job.last = LastText
  /\ pc = "active" => job.first = 1
  /\ pc \in {"search", "open", "import"} =>
       /\ job.high <= active /\ job.to <= job.high
       /\ \A n \in There \ (excused \cup lost) : n < job.first \/ n \in due
       /\ due \subseteq 1 .. job.high /\ due \ excused \subseteq There
       /\ \A n \in due \ excused : n < job.first => n \in News!Old
  /\ pc = "import" => job.last <= LastText
  /\ (due \ excused) \cap lost = {}
  /\ pc = "import" /\ job.last # LastText => \A n \in Waiting : ~ (n < job.first)

NewsInv ==
  /\ NewsTypes /\ TimesTell /\ RunNews /\ News!NewsOnce
  /\ News!Hidden(There) \subseteq excused

-----------------------------------------------------------------------------
LEMMA LeastOf ==
  ASSUME NEW T, T \subseteq Nat, T # {}
  PROVE  \E m \in T : \A k \in T : m <= k
<1> DEFINE R == {ss \in Nat \X Nat : ss[1] < ss[2]}
<1>1. IsWellFoundedOn(R, Nat)
  BY NatLessThanWellFounded DEF OpToRel
<1>2. \A a, b \in Nat : a < b => << a, b >> \in R
  OBVIOUS
<1> HIDE DEF R
<1>3. PICK m \in T : \A k \in T : << k, m >> \notin R
  BY <1>1, WFMin
<1>4. ASSUME NEW k \in T PROVE m <= k
  <2>1. m \in Nat /\ k \in Nat /\ ~ (k < m)
    BY <1>2, <1>3
  <2> QED BY <2>1
<1> QED BY <1>4

LEMMA ProbeFinds ==
  ASSUME NewsTypes, GapIs, NEW mid \in Nat, News!Probe(mid) # {}
  PROVE  News!Max(News!Probe(mid)) \in Nat /\ News!Max(News!Probe(mid)) <= mid
<1> DEFINE P == News!Probe(mid)
           B == {mid - n : n \in P}
<1>1. P \subseteq Nat /\ \A n \in P : n <= mid
  BY DEF News!Probe, NewsTypes, GapIs
<1>2. B \subseteq Nat /\ B # {}
  BY <1>1
<1>3. PICK m \in B : \A k \in B : m <= k
  BY <1>2, LeastOf
<1>4. PICK n \in P : m = mid - n
  BY <1>3
<1>5. ASSUME NEW k \in P PROVE n >= k
  <2>1. mid - k \in B
    OBVIOUS
  <2>2. mid - n <= mid - k /\ n \in Nat /\ k \in Nat
    BY <1>1, <1>3, <1>4, <2>1
  <2> QED BY <2>2
<1>6. News!Max(P) \in P
  BY <1>5 DEF News!Max
<1> QED BY <1>1, <1>6

LEMMA NewsBegins == ASSUME GapIs PROVE News!Init => NewsInv
<1> SUFFICES ASSUME News!Init PROVE NewsInv
  OBVIOUS
<1>1. Len(texts) = 0 /\ texts \in Seq([art : Nat, com : Nat]) /\ DOMAIN spool = {} /\ DOMAIN files = {}
  BY DEF News!Init
<1>2. NewsTypes
  BY <1>1 DEF NewsTypes, News!Init, News!Bottom, NewsPlaces, NewsJobs, Stamped
<1>3. News!Hidden(There) \subseteq excused
  BY <1>1 DEF News!Hidden, There
<1>4. News!Old = {} /\ Waiting = {} /\ CameBack = {}
  BY <1>1 DEF News!Old, Waiting, CameBack, There
<1>5. TimesTell
  BY <1>1, <1>4 DEF TimesTell, News!Init
<1>6. RunNews /\ News!NewsOnce
  BY <1>1 DEF RunNews, News!NewsOnce, News!Init
<1> QED BY <1>2, <1>3, <1>5, <1>6 DEF NewsInv

-----------------------------------------------------------------------------
(* A step of a run that stores nothing.                                    *)
Stands == UNCHANGED << now, spool, active, texts, files, excused >> /\ lost \subseteq lost'

LEMMA StandsIs ==
  ASSUME Stands
  PROVE  /\ News!Old' = News!Old /\ CameBack' = CameBack /\ There' = There /\ LastText' = LastText
         /\ Waiting' \subseteq Waiting /\ (lost' = lost => Waiting' = Waiting)
         /\ News!Hidden(There)' = News!Hidden(There)
BY DEF Stands, News!Old, Waiting, CameBack, There, LastText, News!Hidden

LEMMA GoesOnNews ==
  ASSUME NewsInv, Stands, pc' \in NewsPlaces, job' \in NewsJobs, job'.list \subseteq 1 .. Len(texts), RunNews',
         (pc' # "import" \/ job'.last = LastText) /\ LastText \in DOMAIN files =>
            \A n \in Waiting' : files[LastText] <= spool[n],
         pc' = "import" => /\ \A n \in Waiting' : job'.mtime <= spool[n]
                           /\ \A n \in CameBack : n < job'.first \/ spool[n] < job'.mtime,
         pc' = "idle" => due' \ excused \subseteq News!Old
  PROVE  NewsInv'
<1>1. NewsTypes'
  BY DEF NewsInv, NewsTypes, Stands, Stamped
<1>3. TimesTell'
  BY StandsIs DEF NewsInv, TimesTell, Told, Stands
<1>4. News!NewsOnce'
  BY StandsIs DEF NewsInv, News!NewsOnce, Stands
<1>5. News!Hidden(There)' \subseteq excused'
  BY StandsIs DEF NewsInv, Stands
<1> QED BY <1>1, <1>3, <1>4, <1>5 DEF NewsInv

LEMMA StartKeepsNews == ASSUME NewsInv, News!Start PROVE NewsInv'
<1>1. /\ Stands /\ pc = "idle" /\ pc' = "active" /\ job' = [News!Bottom EXCEPT !.last = Len(texts)]
      /\ Len(texts) \in Nat /\ due' = due /\ lost' = lost
  BY DEF News!Start, Stands, News!group, News!conf, News!history, NewsInv, NewsTypes
<1>2. job' \in NewsJobs /\ job'.list = {} /\ job'.last = Len(texts)
  BY <1>1 DEF News!Bottom, NewsJobs
<1>3. RunNews'
  BY <1>1, <1>2 DEF NewsInv, RunNews, Stands, LastText, News!Bottom
<1> QED BY <1>1, <1>2, <1>3, StandsIs, GoesOnNews DEF NewsInv, TimesTell, Told, NewsPlaces

LEMMA ReadActiveKeeps == ASSUME NewsInv, News!ReadActive PROVE NewsInv'
<1>1. /\ Stands /\ pc = "active" /\ pc' = "search" /\ due' = There \ lost /\ lost' = lost
      /\ job' = [job EXCEPT !.high = active, !.to = active] /\ job \in NewsJobs /\ active \in Nat
  BY DEF News!ReadActive, Stands, News!group, News!conf, NewsInv, NewsTypes, There
<1>2. job' \in NewsJobs /\ job'.list = job.list /\ job'.last = job.last /\ job'.first = job.first
  BY <1>1 DEF NewsJobs
<1>3. There \subseteq 1 .. active
  BY DEF NewsInv, NewsTypes, There
<1>4. RunNews'
  BY <1>1, <1>2, <1>3 DEF RunNews, NewsInv, Stands, LastText, There, NewsJobs
<1> QED BY <1>1, <1>2, <1>4, StandsIs, GoesOnNews DEF NewsInv, NewsTypes, TimesTell, Told, NewsPlaces

LEMMA SearchKeeps == ASSUME GapIs, NewsInv, News!Search PROVE NewsInv'
<1> DEFINE mid == (job.first + job.to) \div 2
<1>1. /\ Stands /\ pc = "search" /\ pc' = "search" /\ due' = due /\ lost' = lost /\ job.first < job.to
      /\ job' = IF News!Probe(mid) = {} THEN [job EXCEPT !.first = mid + 1]
                                       ELSE [job EXCEPT !.to = News!Max(News!Probe(mid))]
      /\ job \in NewsJobs /\ active \in Nat
  BY DEF News!Search, Stands, News!group, News!conf, News!history, NewsInv, NewsTypes
<1>2. mid \in Nat /\ job.first <= mid /\ mid < job.to
  BY <1>1 DEF NewsJobs
<1> HIDE DEF mid
<1>3. CASE News!Probe(mid) = {}
  <2>1. job' = [job EXCEPT !.first = mid + 1]
    BY <1>1, <1>3
  <2>2. /\ job' \in NewsJobs /\ job'.list = job.list /\ job'.last = job.last /\ job'.high = job.high
        /\ job'.to = job.to /\ job'.first = mid + 1
    BY <1>1, <1>2, <2>1 DEF NewsJobs
  <2>3. ASSUME NEW n \in due \ excused, n < mid + 1 PROVE FALSE
    <3>1. n \in There /\ n \in Nat /\ mid <= active
      BY <1>1, <1>2, <2>3 DEF NewsInv, RunNews, NewsTypes, NewsJobs
    <3>2. n < mid - Gap + 1
      BY <1>2, <1>3, <2>3, <3>1 DEF News!Probe, There, GapIs
    <3>3. ((mid - Gap + 1) .. (mid - Gap + 1) + Gap - 1) \cap There = {}
      BY <1>2, <1>3 DEF News!Probe, There, GapIs
    <3>4. mid - Gap + 1 \in n + 1 .. active - Gap + 1
      BY <1>1, <1>2, <3>1, <3>2 DEF GapIs
    <3>5. n \in News!Hidden(There)
      BY <3>1, <3>3, <3>4 DEF News!Hidden
    <3> QED BY <2>3, <3>5 DEF NewsInv
  <2>4. RunNews'
    <3>1. \A n \in There : n \in Nat
      BY DEF NewsInv, NewsTypes, There
    <3>2. \A n \in There \ (excused \cup lost) : n < mid + 1 \/ n \in due
      BY <1>1, <1>2, <3>1 DEF RunNews, NewsInv, NewsJobs
    <3> QED BY <1>1, <2>2, <2>3, <3>2, StandsIs DEF RunNews, NewsInv, Stands, LastText
  <2> QED BY <1>1, <2>2, <2>4, StandsIs, GoesOnNews DEF NewsInv, NewsTypes, TimesTell, Told, NewsPlaces
<1>4. CASE News!Probe(mid) # {}
  <2> DEFINE to == News!Max(News!Probe(mid))
  <2>1. to \in Nat /\ to <= mid
    BY <1>2, <1>4, ProbeFinds DEF NewsInv
  <2> HIDE DEF to
  <2>2. job' = [job EXCEPT !.to = to]
    BY <1>1, <1>4 DEF to
  <2>3. /\ job' \in NewsJobs /\ job'.list = job.list /\ job'.last = job.last /\ job'.high = job.high
        /\ job'.to = to /\ job'.first = job.first
    BY <1>1, <2>1, <2>2 DEF NewsJobs
  <2>4. to <= job.high
    BY <1>1, <1>2, <2>1 DEF RunNews, NewsInv, NewsJobs
  <2>5. RunNews'
    BY <1>1, <2>3, <2>4, StandsIs DEF RunNews, NewsInv, Stands, LastText
  <2> QED BY <1>1, <2>3, <2>5, StandsIs, GoesOnNews DEF NewsInv, NewsTypes, TimesTell, Told, NewsPlaces
<1> QED BY <1>3, <1>4

LEMMA FoundKeeps == ASSUME NewsInv, News!Found PROVE NewsInv'
<1>1. Stands /\ pc = "search" /\ pc' = "open" /\ due' = due /\ lost' = lost /\ job' = job
  BY DEF News!Found, Stands, News!group, News!conf, News!history
<1>2. RunNews'
  BY <1>1, StandsIs DEF RunNews, NewsInv, Stands
<1> QED BY <1>1, <1>2, StandsIs, GoesOnNews DEF NewsInv, NewsTypes, TimesTell, Told, NewsPlaces

LEMMA OpenKeeps == ASSUME NewsInv, News!Open PROVE NewsInv'
<1> DEFINE stamp == IF job.last \in DOMAIN files THEN files[job.last] ELSE 0
<1>1. /\ Stands /\ pc = "open" /\ pc' = "import" /\ due' = due /\ lost' = lost
      /\ job' = [job EXCEPT !.list = News!Known, !.mtime = stamp]
      /\ job \in NewsJobs /\ job.last = LastText
  BY DEF News!Open, Stands, News!group, News!conf, News!history, NewsInv, NewsTypes, RunNews
<1>2. stamp \in Nat /\ News!Known \subseteq 1 .. Len(texts) /\ News!Known \in SUBSET Nat
  BY DEF NewsInv, NewsTypes, Stamped, News!Known
<1>3. Told(stamp) /\ \A n \in CameBack : spool[n] < stamp
  BY <1>1 DEF NewsInv, NewsTypes, TimesTell, Told, Stamped, Waiting, There
<1> HIDE DEF stamp
<1>4. /\ job' \in NewsJobs /\ job'.list = News!Known /\ job'.mtime = stamp /\ job'.last = job.last
      /\ job'.high = job.high /\ job'.to = job.to /\ job'.first = job.first
  BY <1>1, <1>2 DEF NewsJobs
<1>6. LastText \in Nat
  BY DEF NewsInv, NewsTypes, LastText
<1>5. RunNews'
  BY <1>1, <1>4, <1>6, StandsIs DEF RunNews, NewsInv, Stands
<1> QED BY <1>1, <1>2, <1>3, <1>4, <1>5, StandsIs, GoesOnNews DEF NewsPlaces, NewsInv, TimesTell, Told

LEMMA PassKeeps == ASSUME NewsInv, News!Pass PROVE NewsInv'
<1>1. /\ Stands /\ pc \in {"open", "import"} /\ pc' = pc /\ due' = due /\ lost' = lost
      /\ job' = [job EXCEPT !.first = @ + 1] /\ job \in NewsJobs /\ job.first <= job.high
      /\ job.first \in There => pc = "import" /\ ~ (spool[job.first] >= job.mtime)
  BY DEF News!Pass, News!Wanted, Stands, News!group, News!conf, News!history, NewsInv, NewsTypes, There,
         News!NotOlder
<1>2. /\ job' \in NewsJobs /\ job'.list = job.list /\ job'.mtime = job.mtime /\ job'.last = job.last
      /\ job'.high = job.high /\ job'.to = job.to /\ job'.first = job.first + 1 /\ job.first \in Nat
  BY <1>1 DEF NewsJobs
<1>3. job.first \notin Waiting
  <2> SUFFICES ASSUME job.first \in Waiting PROVE FALSE
    OBVIOUS
  <2>1. job.first \in There
    BY DEF Waiting
  <2>2. pc = "import" /\ ~ (job.mtime <= spool[job.first])
    BY <1>1, <2>1 DEF NewsJobs, NewsInv, NewsTypes, Stamped, There
  <2> QED BY <2>2 DEF NewsInv, TimesTell, Told
<1>4. \A n \in There : n \in Nat /\ (n < job'.first <=> (n < job.first \/ n = job.first))
  BY <1>2 DEF NewsInv, NewsTypes, There
<1>7. ASSUME NEW n \in due \ excused, n < job'.first PROVE n \in News!Old
  <2>1. n \in There /\ (n < job.first \/ n = job.first)
    BY <1>1, <1>4, <1>7 DEF NewsInv, RunNews
  <2> QED BY <1>1, <1>3, <1>7, <2>1 DEF NewsInv, RunNews, Waiting
<1>5. RunNews'
  <2>1. \A n \in There \ (excused \cup lost) : n < job'.first \/ n \in due
    BY <1>1, <1>4 DEF NewsInv, RunNews
  <2>2. pc = "import" /\ job.last # LastText => \A n \in Waiting : ~ (n < job'.first)
    BY <1>3, <1>4 DEF NewsInv, RunNews, Waiting
  <2> QED BY <1>1, <1>2, <1>7, <2>1, <2>2, StandsIs DEF RunNews, NewsInv, Stands
<1>6. pc = "import" => \A n \in CameBack : n < job'.first \/ spool[n] < job'.mtime
  <2>1. \A n \in CameBack : n \in Nat
    BY DEF CameBack, There, NewsInv, NewsTypes
  <2> QED BY <1>1, <1>2, <2>1 DEF NewsInv, TimesTell
<1> QED BY <1>1, <1>2, <1>5, <1>6, StandsIs, GoesOnNews DEF NewsInv, NewsTypes, TimesTell, Told, NewsPlaces

LEMMA DoneKeepsNews == ASSUME NewsInv, News!Done PROVE NewsInv'
<1>1. /\ Stands /\ pc \in {"open", "import"} /\ pc' = "idle" /\ due' = due /\ lost' = lost
      /\ job.first > job.high /\ job' = News!Bottom /\ job \in NewsJobs
  BY DEF News!Done, Stands, News!group, News!conf, News!history, NewsInv, NewsTypes
<1>2. job' \in NewsJobs /\ job'.list = {}
  BY <1>1 DEF News!Bottom, NewsJobs
<1>3. \A n \in due : n \in Nat /\ n < job.first
  BY <1>1 DEF NewsInv, RunNews, NewsJobs
<1>4. due \ excused \subseteq News!Old
  BY <1>1, <1>3 DEF NewsInv, RunNews
<1>5. pc = "import" /\ job.last # LastText => Waiting = {}
  BY <1>1, <1>3 DEF NewsInv, RunNews, Waiting
<1>6. RunNews'
  BY <1>1 DEF NewsInv, RunNews, Stands
<1>7. LastText \in DOMAIN files => \A n \in Waiting' : files[LastText] <= spool[n]
  BY <1>1, <1>5, StandsIs DEF NewsInv, TimesTell, Told
<1> QED BY <1>1, <1>2, <1>4, <1>6, <1>7, GoesOnNews DEF NewsPlaces

LEMMA FailKeepsNews == ASSUME NewsInv, News!ImportFails PROVE NewsInv'
<1>1. /\ Stands /\ pc = "import" /\ pc' = "import" /\ job.first \in There /\ job.first <= job.high
      /\ due' = due \ {job.first} /\ job \in NewsJobs /\ job.last <= LastText /\ LastText \in Nat
  BY DEF News!ImportFails, News!Wanted, Stands, News!group, News!conf, NewsInv, NewsTypes, RunNews, There, LastText
<1>2. lost' = lost \cup (IF job.last # LastText THEN {job.first} ELSE {})
  BY <1>1 DEF News!ImportFails, News!Stored, LastText, NewsJobs
<1>3. /\ job' \in NewsJobs /\ job'.list = job.list /\ job'.mtime = job.mtime /\ job'.last = job.last
      /\ job'.high = job.high /\ job'.to = job.to /\ job'.first = job.first + 1 /\ job.first \in Nat
  <2>1. CASE job' = [job EXCEPT !.first = @ + 1]
    BY <1>1, <2>1 DEF NewsJobs
  <2>2. CASE job' = [job EXCEPT !.first = @ + 1, !.stuck = TRUE]
    <3> DEFINE f == job.first + 1
    <3>1. f \in Nat /\ job' = [job EXCEPT !.first = f, !.stuck = TRUE]
      BY <1>1, <2>2 DEF NewsJobs
    <3>2. f = job.first + 1 /\ job.first \in Nat
      BY <1>1 DEF NewsJobs
    <3> HIDE DEF f
    <3> QED BY <1>1, <3>1, <3>2 DEF NewsJobs
  <2> QED BY <2>1, <2>2 DEF News!ImportFails
<1>4. \A n \in There : n \in Nat /\ (n < job'.first <=> (n < job.first \/ n = job.first))
  BY <1>3 DEF NewsInv, NewsTypes, There
<1>5. RunNews'
  <2>1. \A n \in There \ (excused \cup lost') : n < job'.first \/ n \in due'
    BY <1>1, <1>2, <1>4 DEF NewsInv, RunNews
  <2>2. job.last # LastText => \A n \in Waiting' : ~ (n < job'.first)
    BY <1>1, <1>2, <1>4, StandsIs DEF NewsInv, RunNews, Waiting
  <2>3. (due' \ excused) \cap lost' = {}
    BY <1>1, <1>2 DEF NewsInv, RunNews
  <2>4. due' \subseteq 1 .. job.high /\ due' \ excused \subseteq There
    BY <1>1 DEF NewsInv, RunNews
  <2>5. \A n \in due' \ excused : n < job'.first => n \in News!Old
    BY <1>1, <1>4, <2>4 DEF NewsInv, RunNews
  <2>6. job.high <= active /\ job.to <= job.high
    BY <1>1 DEF NewsInv, RunNews
  <2>7. UNCHANGED << excused, active >>
    BY <1>1 DEF Stands
  <2> QED BY <1>1, <1>3, <2>1, <2>2, <2>3, <2>4, <2>5, <2>6, <2>7, StandsIs DEF RunNews
<1>6. \A n \in CameBack : n < job'.first \/ spool[n] < job'.mtime
  <2>1. \A n \in CameBack : n \in There
    BY DEF CameBack
  <2> QED BY <1>1, <1>3, <1>4, <2>1 DEF NewsInv, TimesTell
<1> QED BY <1>1, <1>3, <1>5, <1>6, StandsIs, GoesOnNews DEF NewsInv, NewsTypes, TimesTell, Told, NewsPlaces

LEMMA DieKeepsNews == ASSUME NewsInv, News!Die PROVE NewsInv'
<1>1. /\ Stands /\ pc # "idle" /\ pc' = "idle" /\ job' = News!Bottom /\ due' = {} /\ LastText \in Nat
      /\ lost' = lost \cup (IF LastText > job.last THEN There \ News!Old ELSE {})
  BY DEF News!Die, News!Stored, Stands, News!group, News!conf, NewsInv, NewsTypes, There, LastText
<1>2. job' \in NewsJobs /\ job'.list = {} /\ job.last \in Nat
  BY <1>1 DEF News!Bottom, NewsJobs, NewsInv, NewsTypes
<1>3. RunNews'
  BY <1>1 DEF RunNews
<1>4. LastText \in DOMAIN files => \A n \in Waiting' : files[LastText] <= spool[n]
  <2>1. CASE LastText > job.last
    <3>1. Waiting' = {}
      BY <1>1, <2>1, StandsIs DEF Waiting
    <3> QED BY <3>1
  <2>2. CASE ~ (LastText > job.last)
    <3>1. pc # "import" \/ job.last = LastText
      BY <1>1, <1>2, <2>2 DEF NewsInv, RunNews
    <3> QED BY <1>1, <3>1, StandsIs DEF NewsInv, TimesTell, Told
  <2> QED BY <2>1, <2>2
<1> QED BY <1>1, <1>2, <1>3, <1>4, GoesOnNews DEF NewsPlaces

-----------------------------------------------------------------------------
(* A step of the world leaves the texts and the run alone, and may excuse  *)
(* more articles.                                                          *)
Beside == UNCHANGED << texts, pc, job, due, lost >> /\ excused \subseteq excused'

Remains ==
  /\ active <= active' /\ There \ excused' \subseteq There'
  /\ pc # "idle" => There' \ excused' \subseteq There
  /\ \A n \in There \cap There' : spool'[n] = spool[n]

TimesRemain ==
  /\ (pc # "import" \/ job.last = LastText) /\ LastText \in DOMAIN files' => Told(files[LastText])'
  /\ \A n \in CameBack' : n \in There /\ LastText \in DOMAIN files' /\ spool[n] < files'[LastText]

LEMMA BesideKeeps ==
  ASSUME NewsInv, Beside, NewsTypes', News!Hidden(There)' \subseteq excused', Remains, TimesRemain
  PROVE  NewsInv'
<1>1. News!Old' = News!Old /\ LastText' = LastText /\ CameBack' \subseteq CameBack
  BY DEF Beside, News!Old, LastText, CameBack, TimesRemain
<1>2. pc # "idle" => Waiting' \subseteq Waiting
  BY <1>1 DEF Beside, Waiting, Remains
<1>3. TimesTell'
  <2>1. \A n \in CameBack' : LastText' \in DOMAIN files' /\ spool'[n] < files'[LastText']
    BY <1>1 DEF CameBack, Remains, TimesRemain
  <2>2. pc = "import" => Told(job.mtime)'
    BY <1>2 DEF Told, NewsInv, TimesTell, Beside, Waiting, Remains
  <2>3. pc = "import" => \A n \in CameBack' : n < job'.first \/ spool'[n] < job'.mtime
    BY <1>1 DEF NewsInv, TimesTell, Beside, CameBack, Remains
  <2> QED BY <1>1, <2>1, <2>2, <2>3 DEF TimesTell, Beside, TimesRemain
<1>4. RunNews'
  <2>1. pc \in {"search", "open", "import"} => job.high <= active'
    BY DEF NewsInv, NewsTypes, NewsJobs, RunNews, Remains
  <2>2. pc # "idle" => \A n \in There' \ (excused' \cup lost) : n < job.first \/ n \in due \/ pc = "active"
    BY DEF NewsInv, RunNews, Beside, Remains, NewsTypes, NewsPlaces
  <2>3. pc = "import" /\ job.last # LastText => \A n \in Waiting' : ~ (n < job.first)
    BY <1>2 DEF NewsInv, RunNews
  <2>4. (due \ excused') \cap lost = {}
    BY DEF NewsInv, RunNews, Beside
  <2>5. pc \in {"search", "open", "import"} =>
          /\ due \ excused' \subseteq There' /\ \A n \in due \ excused' : n < job.first => n \in News!Old
    BY DEF NewsInv, RunNews, Beside, Remains
  <2>6. UNCHANGED << pc, job, due, lost >>
    BY DEF Beside
  <2> QED BY <1>1, <2>1, <2>2, <2>3, <2>4, <2>5, <2>6 DEF NewsInv, RunNews
<1>5. News!NewsOnce'
  BY <1>1 DEF NewsInv, News!NewsOnce, Beside
<1> QED BY <1>3, <1>4, <1>5 DEF NewsInv

LEMMA TickKeepsNews == ASSUME NewsInv, News!Tick PROVE NewsInv'
<1>1. Beside /\ now' = now + 1 /\ UNCHANGED << spool, active, files, excused >>
  BY DEF News!Tick, Beside, News!group, News!conf, News!history
<1>2. NewsTypes'
  BY <1>1 DEF NewsInv, NewsTypes, Stamped, Beside
<1>3. News!Old' = News!Old /\ There' = There /\ Waiting' = Waiting /\ CameBack' = CameBack /\ News!Hidden(There)' = News!Hidden(There)
  BY <1>1 DEF Beside, News!Old, There, Waiting, CameBack, News!Hidden
<1>4. TimesRemain
  BY <1>1, <1>3 DEF NewsInv, TimesTell, TimesRemain, Told, Beside, LastText, CameBack
<1>5. Remains /\ News!Hidden(There)' \subseteq excused'
  BY <1>1, <1>3 DEF Remains, NewsInv, NewsTypes
<1> QED BY <1>1, <1>2, <1>4, <1>5, BesideKeeps

LEMMA WithIs ==
  ASSUME NEW fs, NEW n
  PROVE  /\ DOMAIN News!With(fs, n) = {n} \cup DOMAIN fs /\ News!With(fs, n)[n] = now
         /\ \A m \in DOMAIN fs \ {n} : News!With(fs, n)[m] = fs[m]
BY DEF News!With

LEMMA ArriveKeepsNews == ASSUME GapIs, NewsInv, News!Arrive PROVE NewsInv'
<1> DEFINE a == active + 1
<1>1. /\ Beside /\ active' = a /\ spool' = News!With(spool, a) /\ UNCHANGED << now, files >>
      /\ excused' = excused \cup (IF pc = "idle" THEN {} ELSE {a})
  BY DEF News!Arrive, Beside, News!conf
<1>2. active \in Nat /\ a \notin There /\ a \notin News!Old /\ now \in Nat /\ \A n \in There : n \in Nat /\ n <= active
  BY DEF NewsInv, NewsTypes, There, News!Old
<1>3. There' = {a} \cup There /\ spool'[a] = now /\ \A n \in There : spool'[n] = spool[n]
  BY <1>1, <1>2, WithIs DEF There
<1>4. NewsTypes'
  <2>1. now' \in Nat /\ active' \in Nat /\ 1 .. active \subseteq 1 .. active'
    BY <1>1, <1>2
  <2>2. DOMAIN spool' \subseteq 1 .. active' /\ Stamped(spool)'
    <3>1. DOMAIN spool' = {a} \cup DOMAIN spool BY <1>3 DEF There
    <3>2. DOMAIN spool \subseteq 1 .. active /\ a \in 1 .. active' BY <1>1, <1>2 DEF NewsInv, NewsTypes
    <3>3. \A n \in DOMAIN spool' : spool'[n] \in 0 .. now'
      BY <1>1, <1>2, <1>3, <3>1 DEF NewsInv, NewsTypes, Stamped, There
    <3> QED BY <2>1, <3>1, <3>2, <3>3 DEF Stamped
  <2>3. UNCHANGED << texts, files, now, pc, job >> BY <1>1 DEF Beside
  <2> QED BY <2>1, <2>2, <2>3 DEF NewsInv, NewsTypes, Stamped
<1>5. News!Hidden(There)' \subseteq excused'
  <2> SUFFICES ASSUME NEW m \in There',
                      NEW k \in m + 1 .. a - Gap + 1, (k .. k + Gap - 1) \cap There' = {}
               PROVE  m \in excused
    BY <1>1 DEF News!Hidden
  <2>1. k \in Int /\ a \notin k .. k + Gap - 1 /\ m \in Nat /\ m + 1 <= k /\ k <= a - Gap + 1
    BY <1>2, <1>3 DEF GapIs
  <2>2. k \in m + 1 .. active - Gap + 1 /\ m # a
    BY <1>2, <2>1 DEF GapIs
  <2>3. m \in News!Hidden(There)
    BY <1>3, <2>2 DEF News!Hidden
  <2> QED BY <2>3 DEF NewsInv
<1>6. News!Old' = News!Old /\ LastText' = LastText /\ CameBack' \subseteq CameBack /\ Waiting' \subseteq {a} \cup Waiting
  BY <1>1, <1>2, <1>3 DEF Beside, News!Old, CameBack, LastText, Waiting
<1>7. (pc # "import" \/ job.last = LastText) /\ LastText \in DOMAIN files' => Told(files[LastText])'
  <2> SUFFICES ASSUME pc # "import" \/ job.last = LastText, LastText \in DOMAIN files, NEW n \in Waiting' PROVE files[LastText] <= spool'[n]
    BY <1>1, <1>6 DEF Told
  <2>1. CASE n = a
    BY <1>3, <2>1 DEF NewsInv, NewsTypes, Stamped
  <2>2. CASE n \in Waiting
    BY <1>3, <2>2 DEF NewsInv, TimesTell, Told, Waiting
  <2> QED BY <1>6, <2>1, <2>2
<1>8. \A n \in CameBack' : n \in There /\ LastText \in DOMAIN files' /\ spool[n] < files'[LastText]
  BY <1>1, <1>6 DEF NewsInv, TimesTell, CameBack
<1>9. Remains
  BY <1>1, <1>2, <1>3 DEF Remains
<1> QED BY <1>1, <1>4, <1>5, <1>7, <1>8, <1>9, BesideKeeps DEF TimesRemain

LEMMA ExpireKeeps == ASSUME NewsInv, NEW n \in There, News!Expire(n) PROVE NewsInv'
<1>1. /\ Beside /\ spool' = News!Restrict(spool, There \ {n}) /\ UNCHANGED << now, active, files >>
      /\ excused' = excused \cup {n} \cup News!Hidden(There \ {n})
  BY DEF News!Expire, Beside, News!conf, There
<1>2. There' = There \ {n} /\ \A m \in There' : spool'[m] = spool[m]
  BY <1>1 DEF There, News!Restrict
<1>3. NewsTypes'
  BY <1>1, <1>2 DEF NewsInv, NewsTypes, Stamped, Beside, There
<1>4. News!Hidden(There)' \subseteq excused'
  BY <1>1, <1>2 DEF News!Hidden
<1>5. News!Old' = News!Old /\ LastText' = LastText /\ CameBack' \subseteq CameBack /\ Waiting' \subseteq Waiting
  BY <1>1, <1>2 DEF Beside, News!Old, CameBack, LastText, Waiting
<1>6. (pc # "import" \/ job.last = LastText) /\ LastText \in DOMAIN files' => Told(files[LastText])'
  BY <1>1, <1>2, <1>5 DEF NewsInv, TimesTell, Told, Waiting
<1>7. \A m \in CameBack' : m \in There /\ LastText \in DOMAIN files' /\ spool[m] < files'[LastText]
  BY <1>1, <1>5 DEF NewsInv, TimesTell, CameBack
<1>8. Remains
  <2>1. n \in excused' /\ active' = active /\ active \in Nat
    BY <1>1 DEF NewsInv, NewsTypes
  <2> QED BY <1>2, <2>1 DEF Remains
<1> QED BY <1>1, <1>3, <1>4, <1>6, <1>7, <1>8, BesideKeeps DEF TimesRemain

LEMMA TouchKeeps == ASSUME NewsInv, NEW t \in DOMAIN files, News!Touch(t) PROVE NewsInv'
<1>1. /\ Beside /\ files' = [files EXCEPT ![t] = now] /\ UNCHANGED << now, spool, active >>
      /\ excused' = excused \cup (IF t = LastText THEN There \ News!Old ELSE {})
  BY DEF News!Touch, Beside, News!group, There, LastText
<1>2. DOMAIN files' = DOMAIN files /\ files'[t] = now /\ \A s \in DOMAIN files \ {t} : files'[s] = files[s]
  BY <1>1
<1>3. NewsTypes'
  BY <1>1, <1>2 DEF NewsInv, NewsTypes, Stamped, Beside
<1>4. /\ News!Old' = News!Old /\ LastText' = LastText /\ There' = There
      /\ CameBack' \subseteq CameBack /\ Waiting' \subseteq Waiting /\ News!Hidden(There)' = News!Hidden(There)
  BY <1>1 DEF Beside, News!Old, CameBack, LastText, Waiting, There, News!Hidden
<1>5. t = LastText => Waiting' = {}
  BY <1>1, <1>4 DEF Waiting
<1>6. (pc # "import" \/ job.last = LastText) /\ LastText \in DOMAIN files' => Told(files[LastText])'
  BY <1>1, <1>2, <1>4, <1>5 DEF NewsInv, TimesTell, Told
<1>7. \A m \in CameBack' : m \in There /\ LastText \in DOMAIN files' /\ spool[m] < files'[LastText]
  <2> SUFFICES ASSUME NEW m \in CameBack' PROVE m \in There /\ LastText \in DOMAIN files /\ spool[m] < files'[LastText]
    BY <1>2
  <2>1. m \in There /\ LastText \in DOMAIN files /\ spool[m] < files[LastText]
    BY <1>4 DEF NewsInv, TimesTell, CameBack
  <2>2. spool[m] \in 0 .. now /\ files[LastText] \in 0 .. now /\ now \in Nat
    BY <2>1 DEF NewsInv, NewsTypes, Stamped, There
  <2> QED BY <1>2, <2>1, <2>2
<1>8. Remains /\ News!Hidden(There)' \subseteq excused'
  BY <1>1, <1>4 DEF Remains, NewsInv, NewsTypes
<1> QED BY <1>1, <1>3, <1>6, <1>7, <1>8, BesideKeeps DEF TimesRemain

LEMMA DeleteKeepsNews == ASSUME NewsInv, NEW t \in DOMAIN files, News!Delete(t) PROVE NewsInv'
<1>1. /\ Beside /\ files' = News!Restrict(files, DOMAIN files \ {t}) /\ UNCHANGED << now, spool, active >>
      /\ excused' = excused \cup (IF t = LastText THEN News!Old ELSE {})
  BY DEF News!Delete, Beside, News!group, LastText
<1>2. DOMAIN files' = DOMAIN files \ {t} /\ \A s \in DOMAIN files' : files'[s] = files[s]
  BY <1>1 DEF News!Restrict
<1>3. NewsTypes'
  BY <1>1, <1>2 DEF NewsInv, NewsTypes, Stamped, Beside
<1>4. /\ News!Old' = News!Old /\ LastText' = LastText /\ There' = There
      /\ CameBack' \subseteq CameBack /\ Waiting' \subseteq Waiting /\ News!Hidden(There)' = News!Hidden(There)
  BY <1>1 DEF Beside, News!Old, CameBack, LastText, Waiting, There, News!Hidden
<1>5. t = LastText => CameBack' = {}
  BY <1>1, <1>4 DEF CameBack
<1>6. (pc # "import" \/ job.last = LastText) /\ LastText \in DOMAIN files' => Told(files[LastText])'
  BY <1>1, <1>2, <1>4 DEF NewsInv, TimesTell, Told
<1>7. \A m \in CameBack' : m \in There /\ LastText \in DOMAIN files' /\ spool[m] < files'[LastText]
  BY <1>2, <1>4, <1>5 DEF NewsInv, TimesTell, CameBack
<1>8. Remains /\ News!Hidden(There)' \subseteq excused'
  BY <1>1, <1>4 DEF Remains, NewsInv, NewsTypes
<1> QED BY <1>1, <1>3, <1>6, <1>7, <1>8, BesideKeeps DEF TimesRemain

-----------------------------------------------------------------------------
LEMMA RefIs ==
  ASSUME NewsTypes, NEW L \in SUBSET (1 .. Len(texts)), NEW r
  PROVE  /\ News!FindRef(L, r) \in 0 .. Len(texts)
         /\ News!FindRef(L, r) # 0 => texts[News!FindRef(L, r)].art = r
<1> DEFINE hits == {t \in L : texts[t].art = r}
<1>1. Len(texts) \in Nat /\ hits \subseteq Nat /\ hits \subseteq 1 .. Len(texts)
  <2>1. Len(texts) \in Nat
    BY DEF NewsTypes
  <2>2. hits \subseteq L
    OBVIOUS
  <2> HIDE DEF hits
  <2> QED BY <2>1, <2>2
<1>2. hits # {} => News!Min(hits) \in hits
  <2> HIDE DEF hits
  <2>1. hits # {} => \E m \in hits : \A k \in hits : m <= k
    BY <1>1, LeastOf
  <2> QED BY <2>1 DEF News!Min
<1>3. News!FindRef(L, r) = IF hits = {} THEN 0 ELSE News!Min(hits)
  BY DEF News!FindRef
<1> QED BY <1>1, <1>2, <1>3

LEMMA ImportKeepsNews == ASSUME NewsInv, News!Import PROVE NewsInv'
<1> DEFINE a == job.first
           t == Len(texts) + 1
           com == News!FindRef(job.list, Refs[a])
           e == [art |-> a, com |-> com]
<1>1. /\ pc = "import" /\ pc' = "import" /\ UNCHANGED << now, spool, active, due >>
      /\ a <= job.high /\ a \in There /\ spool[a] >= job.mtime
      /\ texts' = Append(texts, e) /\ files' = News!With(files, t)
      /\ lost' = lost \cup {m \in There : m < a /\ m \notin News!Old}
      /\ excused' = excused \cup (IF spool[a] = now THEN {a} ELSE {})
  BY DEF News!Import, News!Wanted, News!group, News!NotOlder, There
<1>2. /\ job \in NewsJobs /\ a \in 1 .. active /\ t \in Nat /\ Len(texts) \in Nat /\ texts \in Seq([art : Nat, com : Nat])
      /\ active \in Nat /\ now \in Nat /\ job.list \subseteq 1 .. Len(texts) /\ spool[a] \in 0 .. now
  BY <1>1 DEF NewsInv, NewsTypes, There, Stamped
<1>3. com \in 0 .. Len(texts) /\ (com # 0 => texts[com].art = Refs[a])
  BY <1>2, RefIs DEF NewsInv
<1> HIDE DEF com
<1>4. e \in [art : Nat, com : Nat] /\ e.art = a /\ e.com = com
  BY <1>2, <1>3
<1> HIDE DEF e
<1>5. /\ texts' \in Seq([art : Nat, com : Nat]) /\ Len(texts') = t /\ texts'[t] = e
      /\ \A s \in 1 .. Len(texts) : texts'[s] = texts[s]
  BY <1>1, <1>2, <1>4, AppendProperties
<1> HIDE DEF t
<1>6. /\ DOMAIN files' = {t} \cup DOMAIN files /\ files'[t] = now
      /\ \A s \in DOMAIN files \ {t} : files'[s] = files[s]
  <2>1. files' = News!With(files, t)
    BY <1>1
  <2>2. /\ DOMAIN News!With(files, t) = {t} \cup DOMAIN files /\ News!With(files, t)[t] = now
        /\ \A s \in DOMAIN files \ {t} : News!With(files, t)[s] = files[s]
    BY DEF News!With
  <2> QED BY <2>1, <2>2
<1>7. /\ job' \in NewsJobs /\ job'.list \subseteq job.list \cup {t} /\ job'.mtime = job.mtime /\ job'.last = job.last
      /\ job'.high = job.high /\ job'.to = job.to /\ job'.first = a + 1
  <2>2. PICK new \in {{t}, {}} : job' = [job EXCEPT !.first = @ + 1, !.list = @ \cup new]
    BY DEF News!Import, t
  <2>1. new \subseteq {t} /\ job.list \cup new \in SUBSET Nat
    BY <1>2 DEF NewsJobs
  <2>3. job.first + 1 \in Nat
    BY <1>2
  <2> QED BY <1>2, <2>1, <2>2, <2>3 DEF NewsJobs
<1>8. t = Len(texts) + 1 /\ DOMAIN texts = 1 .. Len(texts) /\ DOMAIN texts' = 1 .. t
  <2>1. t = Len(texts) + 1
    BY DEF t
  <2> QED BY <1>2, <1>5, <2>1
<1>18. DOMAIN texts' = {t} \cup DOMAIN texts /\ \A s \in DOMAIN texts : texts'[s] = texts[s]
  <2>1. 1 .. t = {t} \cup 1 .. Len(texts)
    BY <1>2, <1>8
  <2> QED BY <1>5, <1>8, <2>1
<1>9. NewsTypes'
  <2>1. \A s \in 1 .. t : texts'[s].art \in 1 .. active /\ texts'[s].com \in 0 .. t
    <3>1. \A s \in 1 .. Len(texts) : texts[s].art \in 1 .. active /\ texts[s].com \in 0 .. Len(texts)
      BY DEF NewsInv, NewsTypes
    <3>2. \A s \in 1 .. t : s = t \/ s \in 1 .. Len(texts)
      BY <1>2, <1>8
    <3>3. texts'[t].art = a /\ texts'[t].com \in 0 .. t
      BY <1>2, <1>3, <1>4, <1>5, <1>8
    <3>4. ASSUME NEW s \in 1 .. Len(texts) PROVE texts'[s].art \in 1 .. active /\ texts'[s].com \in 0 .. t
      <4>1. texts'[s] = texts[s] /\ texts[s].art \in 1 .. active /\ texts[s].com \in 0 .. Len(texts)
        BY <1>5, <3>1
      <4>2. 0 .. Len(texts) \subseteq 0 .. t
        BY <1>2, <1>8
      <4> QED BY <4>1, <4>2
    <3> QED BY <1>2, <3>2, <3>3, <3>4
  <2>2. DOMAIN files' \subseteq 1 .. t /\ Stamped(files)'
    BY <1>1, <1>2, <1>6, <1>8 DEF NewsInv, NewsTypes, Stamped
  <2>3. Stamped(spool)'
    BY <1>1 DEF NewsInv, NewsTypes, Stamped
  <2>4. job'.list \subseteq 1 .. t
    BY <1>2, <1>7, <1>8
  <2> QED BY <1>1, <1>2, <1>5, <1>7, <1>8, <2>1, <2>2, <2>3, <2>4 DEF NewsInv, NewsTypes
<1>10. News!Old' = {a} \cup News!Old
  BY <1>4, <1>5, <1>18 DEF News!Old
<1>11. a \in News!Old => a \in excused
  <2> SUFFICES ASSUME a \in News!Old, a \notin excused PROVE FALSE
    OBVIOUS
  <2>1. a \in CameBack
    BY <1>1 DEF CameBack
  <2>2. ~ (a < a) /\ ~ (spool[a] < job.mtime)
    BY <1>1, <1>2 DEF NewsJobs
  <2> QED BY <1>1, <2>1, <2>2 DEF NewsInv, TimesTell
<1>12. There' = There /\ Waiting' \subseteq Waiting /\ CameBack' \subseteq {a} \cup CameBack
  BY <1>1, <1>10 DEF There, Waiting, CameBack
<1>13. \A n \in CameBack' : spool[n] < now
  <2>1. CASE spool[a] = now
    <3>1. a \in excused'
      BY <1>1, <2>1
    <3>2. CameBack' \subseteq CameBack
      BY <1>12, <3>1 DEF CameBack
    <3>3. ASSUME NEW n \in CameBack PROVE spool[n] < now
      <4>1. LastText \in DOMAIN files /\ spool[n] < files[LastText] /\ n \in There
        BY DEF NewsInv, TimesTell, CameBack
      <4>2. files[LastText] \in 0 .. now /\ spool[n] \in 0 .. now
        BY <4>1 DEF NewsInv, NewsTypes, Stamped, There
      <4> QED BY <1>2, <4>1, <4>2
    <3> QED BY <3>2, <3>3
  <2>2. CASE spool[a] # now
    <3>1. spool[a] < now
      BY <1>2, <2>2
    <3>2. ASSUME NEW n \in CameBack PROVE spool[n] < now
      <4>1. LastText \in DOMAIN files /\ spool[n] < files[LastText] /\ n \in There
        BY DEF NewsInv, TimesTell, CameBack
      <4>2. files[LastText] \in 0 .. now /\ spool[n] \in 0 .. now
        BY <4>1 DEF NewsInv, NewsTypes, Stamped, There
      <4> QED BY <1>2, <4>1, <4>2
    <3> QED BY <1>12, <3>1, <3>2
  <2> QED BY <2>1, <2>2
<1>14. TimesTell'
  <2>1. LastText' = t
    BY <1>5 DEF LastText
  <2>2. Told(job.mtime)'
    BY <1>1, <1>7, <1>12 DEF NewsInv, TimesTell, Told
  <2>3. \A n \in CameBack' : n < a + 1 \/ spool[n] < job.mtime
    <3>1. \A n \in CameBack : n \in Nat
      BY DEF CameBack, There, NewsInv, NewsTypes
    <3>2. ASSUME NEW n \in CameBack PROVE n < a + 1 \/ spool[n] < job.mtime
      <4>1. n \in Nat /\ (n < a \/ spool[n] < job.mtime)
        BY <1>1, <3>1 DEF NewsInv, TimesTell
      <4> QED BY <1>2, <4>1
    <3> QED BY <1>2, <1>12, <3>2
  <2>4. job'.last # LastText'
    BY <1>1, <1>2, <1>7, <1>8, <2>1 DEF NewsInv, RunNews, LastText, NewsJobs
  <2> QED BY <1>1, <1>6, <1>7, <1>13, <2>1, <2>2, <2>3, <2>4 DEF TimesTell
<1>15. RunNews'
  <2>1. ASSUME NEW n \in due \ excused', n < a + 1 PROVE n \in News!Old'
    <3>1. n \in Nat /\ n \notin excused /\ (n < a \/ n = a)
      BY <1>1, <1>2, <2>1 DEF NewsInv, RunNews
    <3> QED BY <1>1, <1>10, <2>1, <3>1 DEF NewsInv, RunNews
  <2>2. \A n \in There' : n \in Nat
    BY <1>12 DEF NewsInv, NewsTypes, There
  <2>3. \A n \in There' \ (excused' \cup lost') : n < a + 1 \/ n \in due
    BY <1>1, <1>2, <1>12, <2>2 DEF NewsInv, RunNews
  <2>4. \A n \in Waiting' : ~ (n < a + 1)
    <3> SUFFICES ASSUME NEW n \in Waiting', n < a + 1 PROVE FALSE
      OBVIOUS
    <3>1. n \in There /\ n \notin lost' /\ n # a /\ n \notin News!Old
      BY <1>10, <1>12 DEF Waiting
    <3>2. n < a
      BY <1>2, <1>12, <2>2, <3>1
    <3> QED BY <1>1, <3>1, <3>2
  <2>5. (due \ excused') \cap lost' = {}
    BY <1>1 DEF NewsInv, RunNews
  <2>6. job'.last <= LastText'
    BY <1>1, <1>2, <1>5, <1>7, <1>8 DEF NewsInv, RunNews, LastText, NewsJobs
  <2>7. /\ job'.high <= active' /\ job'.to <= job'.high /\ due \subseteq 1 .. job'.high
        /\ due \ excused' \subseteq There'
    BY <1>1, <1>7, <1>12 DEF NewsInv, RunNews
  <2> QED BY <1>1, <1>7, <2>1, <2>3, <2>4, <2>5, <2>6, <2>7 DEF RunNews
<1>16. News!NewsOnce'
  <2>1. DOMAIN texts = 1 .. Len(texts) /\ DOMAIN texts' = {t} \cup DOMAIN texts /\ \A s \in DOMAIN texts : texts'[s] = texts[s]
    BY <1>8, <1>18
  <2>2. ASSUME NEW s \in DOMAIN texts', NEW r \in DOMAIN texts', texts'[s].art = texts'[r].art, s # r
        PROVE  texts'[s].art \in excused'
    <3>1. CASE s \in DOMAIN texts /\ r \in DOMAIN texts
      BY <1>1, <2>1, <2>2, <3>1 DEF NewsInv, News!NewsOnce
    <3>2. CASE s = t \/ r = t
      <4>1. texts'[s].art = a /\ a \in News!Old
        BY <1>4, <1>5, <2>1, <2>2, <3>2 DEF News!Old
      <4> QED BY <1>1, <1>11, <4>1
    <3> QED BY <2>1, <3>1, <3>2
  <2>3. ASSUME NEW s \in DOMAIN texts', texts'[s].com # 0 PROVE texts'[texts'[s].com].art = Refs[texts'[s].art]
    <3>1. CASE s = t
      BY <1>3, <1>4, <1>5, <2>1, <2>3, <3>1
    <3>2. CASE s \in DOMAIN texts
      <4>1. texts[s].com # 0 /\ texts[s].com \in 0 .. Len(texts)
        BY <2>1, <2>3, <3>2 DEF NewsInv, NewsTypes
      <4>2. texts[s].com \in DOMAIN texts
        BY <1>2, <2>1, <4>1
      <4> QED BY <2>1, <3>2, <4>1, <4>2 DEF NewsInv, News!NewsOnce
    <3> QED BY <2>1, <3>1, <3>2
  <2> QED BY <1>1, <2>2, <2>3 DEF News!NewsOnce
<1>17. News!Hidden(There)' \subseteq excused'
  BY <1>1, <1>12 DEF NewsInv, News!Hidden
<1> QED BY <1>9, <1>14, <1>15, <1>16, <1>17 DEF NewsInv

LEMMA NewsStays == ASSUME GapIs, NewsInv, [News!Next]_(News!vars) PROVE NewsInv'
<1>1. CASE UNCHANGED News!vars
  <2>1. Stands /\ pc' = pc /\ job' = job /\ due' = due /\ lost' = lost
    BY <1>1 DEF News!vars, News!group, News!conf, News!history, Stands
  <2>2. RunNews'
    BY <2>1, StandsIs DEF RunNews, NewsInv, Stands
  <2> QED BY <2>1, <2>2, StandsIs, GoesOnNews DEF NewsInv, NewsTypes, TimesTell, Told, News!NewsOnce
<1> QED
  BY <1>1, TickKeepsNews, ArriveKeepsNews, ExpireKeeps, TouchKeeps, DeleteKeepsNews, StartKeepsNews,
     ReadActiveKeeps, SearchKeeps, FoundKeeps, OpenKeeps, ImportKeepsNews, PassKeeps, DoneKeepsNews,
     FailKeepsNews, DieKeepsNews
  DEF News!Next, There

(* newstoss: for any number of articles, texts and runs, every article that *)
(* waited becomes a text and none becomes two, though what is new is told   *)
(* by times alone, but for the exceptions that NewsOnce names; and a        *)
(* follow-up comments on the text of the article it refers to.              *)
THEOREM NewsComesOnce == ASSUME GapIs PROVE News!Spec => []News!NewsOnce
<1>1. NewsInv => News!NewsOnce
  BY DEF NewsInv
<1> QED BY NewsBegins, NewsStays, <1>1, PTL DEF News!Spec

-----------------------------------------------------------------------------
(* Users: None is nobody's name.                                           *)
NoName == None \notin Names

Entries   == [num : People, last : Nat, name : Names]
Setups    == {"home", "mbox", "confs", "sklaffrc", "mailbox", "entry"}
FilesMade == Setups \ {"entry"}
Changing  == {"chfn", "restore"}
UserTypes ==
  /\ file \in Seq(Entries) /\ gecos \in [People -> Names]
  /\ made \in [People -> SUBSET FilesMade] /\ pc \in [People -> {"out", "in"} \cup Changing \cup Setups]
  /\ old \in [People -> Names \cup {None}] /\ time \in Nat /\ left \in [People -> Nat]
  /\ \A u \in People : left[u] <= time

Entry(u) == Accounts!Of(u)

(* What there is of a user when setup_new_user comes to a step.            *)
MadeBefore(l) ==
  CASE l = "mbox"     -> {"home"}
    [] l = "confs"    -> {"home", "mbox"}
    [] l = "sklaffrc" -> {"home", "mbox", "confs"}
    [] l = "mailbox"  -> {"home", "mbox", "confs", "sklaffrc"}
    [] l = "entry"    -> FilesMade

(* A user without an entry is at its beginning, on the way or was cut off. *)
IsNew(u) ==
  /\ left[u] = 0 /\ pc[u] \in {"out"} \cup Setups
  /\ "home" \notin made[u] => made[u] = {}
  /\ made[u] # {} /\ pc[u] \in {"out", "home"} => u \in cut
  /\ pc[u] \in Setups \ {"home"} => made[u] = MadeBefore(pc[u])

(* The entry has the end of the last session, or of one before it, and the *)
(* name in the password file; a session that changes the name knows that   *)
(* one.  Who is taken for a new user has his home.                         *)
IsKnown(u, e) ==
  /\ pc[u] \in Setups => pc[u] = "home" /\ u \in misread
  /\ made[u] = FilesMade /\ e.last <= left[u] /\ (u \notin unsaved => e.last = left[u])
  /\ pc[u] \notin Changing /\ u \notin split => e.name = gecos[u]
  /\ pc[u] \in Changing => old[u] \in Names /\ (u \notin split => old[u] = gecos[u])

UserOk(u) ==
  /\ \A i, j \in Entry(u) : i = j
  /\ Entry(u) = {} => IsNew(u)
  /\ \A i \in Entry(u) : IsKnown(u, file[i])

UsersInv == UserTypes /\ \A u \in People : UserOk(u)

-----------------------------------------------------------------------------
LEMMA SetupIs ==
  /\ Accounts!ToSet(Accounts!Setup) = Setups /\ Accounts!Setup[1] = "home" /\ Len(Accounts!Setup) - 1 = 5
  /\ Accounts!Setup[2] = "mbox" /\ Accounts!Setup[3] = "confs" /\ Accounts!Setup[4] = "sklaffrc"
  /\ Accounts!Setup[5] = "mailbox" /\ Accounts!Setup[6] = "entry"
<1>1. DOMAIN Accounts!Setup = 1 .. 6
  BY DEF Accounts!Setup
<1>2. Accounts!ToSet(Accounts!Setup) = {Accounts!Setup[i] : i \in {1, 2, 3, 4, 5, 6}}
  BY <1>1 DEF Accounts!ToSet
<1>3. {Accounts!Setup[i] : i \in {1, 2, 3, 4, 5, 6}} = Setups
  BY DEF Accounts!Setup, Setups
<1> QED BY <1>2, <1>3 DEF Accounts!Setup

LEMMA FirstIs ==
  ASSUME NEW T, T \subseteq Nat, T # {}
  PROVE  Accounts!FirstOf(T) \in T
BY LeastOf DEF Accounts!FirstOf

LEMMA EntryIs ==
  ASSUME UserTypes, NEW u \in People, UserOk(u)
  PROVE  /\ Entry(u) = {} => Accounts!user_name(u) = None /\ Accounts!last_session(u) = 0
         /\ \A i \in Entry(u) : /\ i \in 1 .. Len(file) /\ file[i] \in Entries /\ file[i].num = u
                                /\ Entry(u) = {i} /\ Accounts!EntryOf(u) = i
                                /\ Accounts!user_name(u) = file[i].name /\ Accounts!last_session(u) = file[i].last
<1>1. file \in Seq(Entries) /\ DOMAIN file = 1 .. Len(file) /\ Len(file) \in Nat
  BY DEF UserTypes
<1>2. ASSUME NEW i \in Entry(u)
      PROVE  /\ i \in 1 .. Len(file) /\ file[i] \in Entries /\ file[i].num = u
             /\ Entry(u) = {i} /\ Accounts!EntryOf(u) = i
  <2>1. i \in 1 .. Len(file) /\ file[i].num = u
    BY <1>1 DEF Entry, Accounts!Of
  <2>2. file[i] \in Entries
    BY <1>1, <2>1
  <2>3. Entry(u) = {i}
    BY DEF UserOk
  <2>4. Accounts!FirstOf(Entry(u)) \in Entry(u)
    <3>1. Entry(u) \subseteq Nat /\ Entry(u) # {}
      BY <1>1, <2>1, <2>3
    <3> QED BY <3>1, FirstIs
  <2> QED BY <2>1, <2>2, <2>3, <2>4 DEF Accounts!EntryOf, Entry
<1> QED BY <1>2 DEF Accounts!user_name, Accounts!last_session, Entry

LEMMA UsersBegin == Accounts!Init => UsersInv
<1> SUFFICES ASSUME Accounts!Init PROVE UsersInv
  OBVIOUS
<1>1. UserTypes
  BY DEF Accounts!Init, UserTypes
<1>2. \A u \in People : Entry(u) = {}
  BY DEF Accounts!Init, Entry, Accounts!Of
<1>3. \A u \in People : IsNew(u)
  BY DEF Accounts!Init, IsNew, Setups
<1> QED BY <1>1, <1>2, <1>3 DEF UsersInv, UserOk

-----------------------------------------------------------------------------
(* A step of one user leaves the others as they are.                       *)
OthersStay(u) ==
  \A v \in People \ {u} :
    /\ Entry(v)' = Entry(v) /\ \A i \in Entry(v) : file'[i] = file[i]
    /\ gecos'[v] = gecos[v] /\ made'[v] = made[v] /\ pc'[v] = pc[v] /\ old'[v] = old[v] /\ left'[v] = left[v]
    /\ v \in cut' <=> v \in cut
    /\ v \in split' <=> v \in split
    /\ v \in unsaved' <=> v \in unsaved
    /\ v \in misread' <=> v \in misread

LEMMA OneSteps ==
  ASSUME UsersInv, NEW u \in People, OthersStay(u), UserTypes', UserOk(u)'
  PROVE  UsersInv'
<1> SUFFICES ASSUME NEW v \in People \ {u} PROVE UserOk(v)'
  BY DEF UsersInv
<1>1. UserOk(v)
  BY DEF UsersInv
<1>2. /\ Entry(v)' = Entry(v) /\ \A i \in Entry(v) : file'[i] = file[i]
      /\ gecos'[v] = gecos[v] /\ made'[v] = made[v] /\ pc'[v] = pc[v] /\ old'[v] = old[v] /\ left'[v] = left[v]
      /\ v \in cut' <=> v \in cut
      /\ v \in split' <=> v \in split
      /\ v \in unsaved' <=> v \in unsaved
      /\ v \in misread' <=> v \in misread
  BY DEF OthersStay
<1>3. Entry(v)' = {} => IsNew(v)'
  BY <1>1, <1>2 DEF UserOk, IsNew
<1>4. \A i \in Entry(v) : IsKnown(v, file[i])'
  BY <1>1, <1>2 DEF UserOk, IsKnown
<1> QED BY <1>1, <1>2, <1>3, <1>4 DEF UserOk

(* So does a step that leaves USER_FILE alone.                             *)
LEMMA FileStays ==
  ASSUME UsersInv, NEW u \in People, file' = file,
         \A v \in People \ {u} : /\ gecos'[v] = gecos[v] /\ made'[v] = made[v] /\ pc'[v] = pc[v]
                                 /\ old'[v] = old[v] /\ left'[v] = left[v]
                                 /\ v \in cut' <=> v \in cut
                                 /\ v \in split' <=> v \in split
                                 /\ v \in unsaved' <=> v \in unsaved
                                 /\ v \in misread' <=> v \in misread
  PROVE  OthersStay(u) /\ Entry(u)' = Entry(u) /\ (\A i, j \in Entry(u) : i = j)
BY DEF OthersStay, Entry, Accounts!Of, UsersInv, UserOk

LEMMA LoginKeepsUser == ASSUME NoName, UsersInv, NEW u \in People, Accounts!Login(u) PROVE UsersInv'
<1>1. PICK read \in BOOLEAN :
        /\ pc[u] = "out" /\ time' = time + 1
        /\ pc' = [pc EXCEPT ![u] = IF read /\ Accounts!user_name(u) # None THEN "in" ELSE "home"]
        /\ misread' = (IF read THEN misread \ {u} ELSE misread \cup {u})
        /\ UNCHANGED << file, gecos, made, old, left, cut, split, unsaved >>
  BY SetupIs DEF Accounts!Login, Accounts!Goto
<1>2. UserTypes /\ UserOk(u)
  BY DEF UsersInv
<1>3. UserTypes'
  BY <1>1, <1>2 DEF UserTypes, Setups
<1>4. OthersStay(u) /\ Entry(u)' = Entry(u) /\ (\A i, j \in Entry(u) : i = j)
  <2>1. \A v \in People \ {u} : pc'[v] = pc[v] /\ (v \in misread' <=> v \in misread)
    BY <1>1, <1>2 DEF UserTypes
  <2> QED BY <1>1, <2>1, FileStays
<1>5. CASE Entry(u) = {}
  <2>1. pc'[u] = "home"
    BY <1>1, <1>2, <1>5, EntryIs DEF UserTypes
  <2>2. IsNew(u)'
    BY <1>1, <1>2, <1>5, <2>1 DEF UserOk, IsNew, Setups
  <2>3. UserOk(u)'
    BY <1>4, <1>5, <2>2 DEF UserOk
  <2> QED BY <1>3, <1>4, <2>3, OneSteps
<1>6. CASE Entry(u) # {}
  <2>1. PICK i \in Entry(u) : TRUE
    BY <1>6
  <2>2. Accounts!user_name(u) = file[i].name /\ file[i] \in Entries
    BY <1>2, EntryIs
  <2>3. Accounts!user_name(u) # None
    BY <2>2 DEF Entries, NoName
  <2>4. pc'[u] = "in" \/ (pc'[u] = "home" /\ u \in misread')
    BY <1>1, <1>2, <2>3 DEF UserTypes
  <2>5. \A k \in Entry(u) : IsKnown(u, file[k])'
    BY <1>1, <1>2, <2>4 DEF UserOk, IsKnown, Setups, Changing
  <2>6. UserOk(u)'
    BY <1>1, <1>4, <1>6, <2>5 DEF UserOk
  <2> QED BY <1>3, <1>4, <2>6, OneSteps
<1> QED BY <1>5, <1>6

LEMMA MakeKeeps == ASSUME UsersInv, NEW u \in People, Accounts!Make(u) PROVE UsersInv'
<1>1. PICK k \in 1 .. 5 : /\ pc[u] = Accounts!Setup[k] /\ Accounts!Setup[k] \notin made[u]
                          /\ made' = [made EXCEPT ![u] = @ \cup {Accounts!Setup[k]}]
                          /\ pc' = [pc EXCEPT ![u] = Accounts!Setup[k + 1]]
                          /\ UNCHANGED << file, gecos, old, time, left, cut, split, unsaved, misread >>
  BY SetupIs DEF Accounts!Make, Accounts!Goto, Accounts!history
<1>2. UserTypes /\ UserOk(u)
  BY DEF UsersInv
<1>3. made'[u] = made[u] \cup {Accounts!Setup[k]} /\ pc'[u] = Accounts!Setup[k + 1]
  BY <1>1, <1>2 DEF UserTypes
<1>4. k = 1 \/ k = 2 \/ k = 3 \/ k = 4 \/ k = 5
  BY <1>1
<1>5. Accounts!Setup[k] \in FilesMade /\ Accounts!Setup[k + 1] \in Setups \ {"home"}
  BY <1>4, SetupIs DEF FilesMade, Setups
<1>6. UserTypes'
  <2>1. made' \in [People -> SUBSET FilesMade]
    BY <1>1, <1>2, <1>5 DEF UserTypes
  <2> QED BY <1>1, <1>2, <1>5, <2>1 DEF UserTypes
<1>7. OthersStay(u) /\ Entry(u)' = Entry(u) /\ (\A i, j \in Entry(u) : i = j)
  <2>1. \A v \in People \ {u} : pc'[v] = pc[v] /\ made'[v] = made[v]
    BY <1>1, <1>2 DEF UserTypes
  <2> QED BY <1>1, <2>1, FileStays
<1>8. Entry(u) = {} /\ IsNew(u)
  <2>1. pc[u] \in Setups /\ (pc[u] = "home" => "home" \notin made[u])
    BY <1>1, <1>4, SetupIs DEF Setups
  <2> QED BY <1>2, <2>1 DEF UserOk, IsKnown, FilesMade, Setups
<1>9. made'[u] = MadeBefore(pc'[u]) /\ "home" \in made'[u]
  <2>1. k = 1 => made[u] = {}
    BY <1>1, <1>8, SetupIs DEF IsNew
  <2>2. k # 1 => made[u] = MadeBefore(pc[u])
    BY <1>1, <1>4, <1>8, SetupIs DEF IsNew, Setups
  <2>3. k = 1 => made'[u] = {"home"} /\ pc'[u] = "mbox"
    BY <1>3, <2>1, SetupIs
  <2>4. k = 2 => made'[u] = {"home", "mbox"} /\ pc'[u] = "confs"
    BY <1>1, <1>3, <2>2, SetupIs DEF MadeBefore
  <2>5. k = 3 => made'[u] = {"home", "mbox", "confs"} /\ pc'[u] = "sklaffrc"
    BY <1>1, <1>3, <2>2, SetupIs DEF MadeBefore
  <2>6. k = 4 => made'[u] = {"home", "mbox", "confs", "sklaffrc"} /\ pc'[u] = "mailbox"
    BY <1>1, <1>3, <2>2, SetupIs DEF MadeBefore
  <2>7. k = 5 => made'[u] = FilesMade /\ pc'[u] = "entry"
    BY <1>1, <1>3, <2>2, SetupIs DEF MadeBefore, FilesMade, Setups
  <2> QED BY <1>4, <2>3, <2>4, <2>5, <2>6, <2>7 DEF MadeBefore, FilesMade, Setups
<1>10. IsNew(u)'
  BY <1>1, <1>3, <1>5, <1>8, <1>9 DEF IsNew, Setups
<1> QED BY <1>6, <1>7, <1>8, <1>10, OneSteps DEF UserOk

LEMMA SetupFailsKeeps == ASSUME UsersInv, NEW u \in People, Accounts!SetupFails(u) PROVE UsersInv'
<1>1. /\ pc[u] \in Setups /\ pc' = [pc EXCEPT ![u] = "out"]
      /\ cut' = (IF made[u] = {} \/ Entry(u) # {} THEN cut ELSE cut \cup {u})
      /\ UNCHANGED << file, gecos, made, old, time, left, split, unsaved, misread >>
  BY SetupIs DEF Accounts!SetupFails, Accounts!Goto, Entry
<1>2. UserTypes /\ UserOk(u)
  BY DEF UsersInv
<1>3. UserTypes' /\ pc'[u] = "out"
  BY <1>1, <1>2 DEF UserTypes
<1>4. OthersStay(u) /\ Entry(u)' = Entry(u) /\ (\A i, j \in Entry(u) : i = j)
  <2>1. \A v \in People \ {u} : pc'[v] = pc[v] /\ (v \in cut' <=> v \in cut)
    BY <1>1, <1>2 DEF UserTypes
  <2> QED BY <1>1, <2>1, FileStays
<1>5. Entry(u) = {} => IsNew(u)'
  BY <1>1, <1>2, <1>3 DEF UserOk, IsNew, Setups
<1>6. \A i \in Entry(u) : IsKnown(u, file[i])'
  BY <1>1, <1>2, <1>3 DEF UserOk, IsKnown, Setups, Changing
<1>7. UserOk(u)'
  BY <1>1, <1>4, <1>5, <1>6 DEF UserOk
<1> QED BY <1>3, <1>4, <1>7, OneSteps

LEMMA ChfnKeeps == ASSUME UsersInv, NEW u \in People, Accounts!Chfn(u) PROVE UsersInv'
<1>1. /\ pc[u] = "chfn" /\ pc' = [pc EXCEPT ![u] = "in"]
      /\ gecos' = [gecos EXCEPT ![u] = Accounts!user_name(u)] /\ split' = split \ {u}
      /\ UNCHANGED << file, made, old, time, left, cut, unsaved, misread >>
  BY DEF Accounts!Chfn, Accounts!Goto
<1>2. UserTypes /\ UserOk(u)
  BY DEF UsersInv
<1>3. PICK i \in Entry(u) : TRUE
  BY <1>1, <1>2 DEF UserOk, IsNew, Setups
<1>4. Entry(u) = {i} /\ Accounts!user_name(u) = file[i].name /\ file[i].name \in Names
  BY <1>2, EntryIs DEF Entries
<1>5. UserTypes' /\ pc'[u] = "in" /\ gecos'[u] = file[i].name
  BY <1>1, <1>2, <1>4 DEF UserTypes
<1>6. OthersStay(u) /\ Entry(u)' = Entry(u) /\ (\A j, k \in Entry(u) : j = k)
  <2>1. \A v \in People \ {u} : pc'[v] = pc[v] /\ gecos'[v] = gecos[v] /\ (v \in split' <=> v \in split)
    BY <1>1, <1>2 DEF UserTypes
  <2> QED BY <1>1, <2>1, FileStays
<1>7. IsKnown(u, file[i])'
  BY <1>1, <1>2, <1>5 DEF UserOk, IsKnown, Setups, Changing
<1> QED BY <1>1, <1>4, <1>5, <1>6, <1>7, OneSteps DEF UserOk

LEMMA ChfnFailsKeeps == ASSUME UsersInv, NEW u \in People, Accounts!ChfnFails(u) PROVE UsersInv'
<1>1. /\ pc[u] = "chfn" /\ pc' = [pc EXCEPT ![u] = "restore"]
      /\ UNCHANGED << file, gecos, made, old, time, left, cut, split, unsaved, misread >>
  BY DEF Accounts!ChfnFails, Accounts!Goto, Accounts!history
<1>2. UserTypes /\ UserOk(u)
  BY DEF UsersInv
<1>3. UserTypes' /\ pc'[u] = "restore"
  BY <1>1, <1>2 DEF UserTypes, Changing
<1>4. OthersStay(u) /\ Entry(u)' = Entry(u) /\ (\A j, k \in Entry(u) : j = k)
  <2>1. \A v \in People \ {u} : pc'[v] = pc[v]
    BY <1>1, <1>2 DEF UserTypes
  <2> QED BY <1>1, <2>1, FileStays
<1>5. Entry(u) # {}
  BY <1>1, <1>2 DEF UserOk, IsNew, Setups
<1>6. \A i \in Entry(u) : IsKnown(u, file[i])'
  BY <1>1, <1>2, <1>3 DEF UserOk, IsKnown, Setups, Changing
<1> QED BY <1>1, <1>3, <1>4, <1>5, <1>6, OneSteps DEF UserOk

LEMMA RestoreFailsKeeps == ASSUME UsersInv, NEW u \in People, Accounts!RestoreFails(u) PROVE UsersInv'
<1>1. /\ pc[u] = "restore" /\ pc' = [pc EXCEPT ![u] = "in"] /\ split' = split \cup {u}
      /\ UNCHANGED << file, gecos, made, old, time, left, cut, unsaved, misread >>
  BY DEF Accounts!RestoreFails, Accounts!Goto
<1>2. UserTypes /\ UserOk(u)
  BY DEF UsersInv
<1>3. UserTypes' /\ pc'[u] = "in"
  BY <1>1, <1>2 DEF UserTypes
<1>4. OthersStay(u) /\ Entry(u)' = Entry(u) /\ (\A j, k \in Entry(u) : j = k)
  <2>1. \A v \in People \ {u} : pc'[v] = pc[v] /\ (v \in split' <=> v \in split)
    BY <1>1, <1>2 DEF UserTypes
  <2> QED BY <1>1, <2>1, FileStays
<1>5. Entry(u) # {}
  BY <1>1, <1>2 DEF UserOk, IsNew, Setups
<1>6. \A i \in Entry(u) : IsKnown(u, file[i])'
  BY <1>1, <1>2, <1>3 DEF UserOk, IsKnown, Setups, Changing
<1> QED BY <1>1, <1>3, <1>4, <1>5, <1>6, OneSteps DEF UserOk

-----------------------------------------------------------------------------
LEMMA AddEntryKeeps == ASSUME UsersInv, NEW u \in People, Accounts!AddEntry(u) PROVE UsersInv'
<1> DEFINE e == Accounts!User(u, 0, gecos[u])
<1>0. PICK n \in Nat : n = Len(file) + 1
  BY DEF UsersInv, UserTypes
<1>1. /\ pc[u] = "entry" /\ pc' = [pc EXCEPT ![u] = "in"] /\ file' = Append(file, e)
      /\ UNCHANGED << gecos, made, old, time, left, cut, split, unsaved, misread >>
  BY DEF Accounts!AddEntry, Accounts!Goto, Accounts!history
<1>2. UserTypes /\ UserOk(u)
  BY DEF UsersInv
<1>3. e \in Entries /\ e.num = u /\ e.last = 0 /\ e.name = gecos[u]
  BY <1>2 DEF Accounts!User, Entries, UserTypes
<1> HIDE DEF e
<1>4. /\ file' \in Seq(Entries) /\ Len(file') = n /\ file'[n] = e
      /\ \A i \in 1 .. Len(file) : file'[i] = file[i]
  BY <1>0, <1>1, <1>2, <1>3, AppendProperties DEF UserTypes
<1>5. DOMAIN file = 1 .. Len(file) /\ DOMAIN file' = 1 .. n /\ Len(file) \in Nat
  BY <1>2, <1>4 DEF UserTypes
<1>6. DOMAIN file' = {n} \cup DOMAIN file /\ n \notin DOMAIN file
  <2>1. 1 .. n = {n} \cup 1 .. Len(file)
    BY <1>0, <1>5
  <2> QED BY <1>0, <1>5, <2>1
<1>7. UserTypes' /\ pc'[u] = "in"
  BY <1>1, <1>2, <1>4 DEF UserTypes
<1>8. \A v \in People \ {u} : Entry(v)' = Entry(v)
  BY <1>3, <1>4, <1>5, <1>6 DEF Entry, Accounts!Of
<1>9. OthersStay(u)
  <2>1. \A v \in People \ {u} : pc'[v] = pc[v]
    BY <1>1, <1>2 DEF UserTypes
  <2>2. \A v \in People : \A i \in Entry(v) : file'[i] = file[i]
    BY <1>4, <1>5 DEF Entry, Accounts!Of
  <2> QED BY <1>1, <1>8, <2>1, <2>2 DEF OthersStay
<1>10. Entry(u) = {} /\ IsNew(u)
  BY <1>1, <1>2 DEF UserOk, IsKnown, Setups
<1>11. Entry(u)' = {n}
  <2>1. \A i \in DOMAIN file : file[i].num # u /\ file'[i] = file[i]
    BY <1>4, <1>5, <1>10 DEF Entry, Accounts!Of
  <2>2. file'[n].num = u
    BY <1>3, <1>4
  <2>3. Entry(u)' = {i \in DOMAIN file' : file'[i].num = u}
    BY DEF Entry, Accounts!Of
  <2> QED BY <1>6, <2>1, <2>2, <2>3
<1>12. IsKnown(u, file[n])'
  <2>1. made[u] = FilesMade /\ left[u] = 0
    BY <1>1, <1>10 DEF IsNew, Setups, MadeBefore
  <2> QED BY <1>1, <1>3, <1>4, <1>7, <2>1 DEF IsKnown, Setups, Changing
<1>13. UserOk(u)'
  BY <1>11, <1>12 DEF UserOk
<1> QED BY <1>7, <1>9, <1>13, OneSteps

(* A change of an entry in its place.                                      *)
Rewritten(u, end, name) ==
  file' = [i \in DOMAIN file |-> IF i \in Entry(u) THEN Accounts!User(u, end, name) ELSE file[i]]

LEMMA RewriteKeeps ==
  ASSUME UsersInv, NEW u \in People, NEW end \in Nat, NEW name \in Names, Rewritten(u, end, name)
  PROVE  /\ file' \in Seq(Entries) /\ Entry(u)' = Entry(u)
         /\ \A v \in People \ {u} : Entry(v)' = Entry(v) /\ \A i \in Entry(v) : file'[i] = file[i]
         /\ \A i \in Entry(u) : file'[i].last = end /\ file'[i].name = name
<1>1. /\ UserTypes /\ UserOk(u) /\ file \in Seq(Entries) /\ DOMAIN file = 1 .. Len(file) /\ Len(file) \in Nat
      /\ \A i \in DOMAIN file : file[i] \in Entries
  BY DEF UsersInv, UserTypes
<1>2. /\ Accounts!User(u, end, name) \in Entries /\ Accounts!User(u, end, name).num = u
      /\ Accounts!User(u, end, name).last = end /\ Accounts!User(u, end, name).name = name
  BY DEF Entries, Accounts!User
<1>3. \A i \in DOMAIN file : file'[i] \in Entries /\ file'[i].num = file[i].num
  BY <1>1, <1>2 DEF Rewritten, Entry, Accounts!Of
<1>4. DOMAIN file' = DOMAIN file
  BY DEF Rewritten
<1>5. file' \in Seq(Entries)
  BY <1>1, <1>3, <1>4 DEF Rewritten
<1>6. \A v : Entry(v)' = Entry(v)
  BY <1>3, <1>4 DEF Entry, Accounts!Of
<1>7. \A v : Entry(v) \subseteq DOMAIN file
  BY DEF Entry, Accounts!Of
<1>8. \A v \in People \ {u} : Entry(v) \cap Entry(u) = {}
  BY DEF Entry, Accounts!Of
<1>9. \A i \in DOMAIN file : file'[i] = IF i \in Entry(u) THEN Accounts!User(u, end, name) ELSE file[i]
  BY DEF Rewritten
<1> QED BY <1>2, <1>5, <1>6, <1>7, <1>8, <1>9

LEMMA LogoutKeeps == ASSUME NoName, UsersInv, NEW u \in People, Accounts!Logout(u) PROVE UsersInv'
<1>1. /\ Entry(u) # {} /\ pc' = [pc EXCEPT ![u] = "out"]
      /\ file' = Accounts!WithLast(u, time) /\ left' = [left EXCEPT ![u] = time]
      /\ split' = (IF pc[u] \in Changing THEN split \cup {u} ELSE split) /\ unsaved' = unsaved \ {u}
      /\ UNCHANGED << gecos, made, old, time, cut, misread >>
  BY DEF Accounts!Logout, Accounts!Leave, Accounts!Goto, Changing, Entry
<1>2. UserTypes /\ UserOk(u) /\ file \in Seq(Entries)
  BY DEF UsersInv, UserTypes
<1>3. PICK i \in Entry(u) : TRUE
  BY <1>1
<1>4. /\ Entry(u) = {i} /\ Accounts!EntryOf(u) = i /\ Accounts!user_name(u) = file[i].name
      /\ file[i] \in Entries /\ file[i].num = u /\ i \in DOMAIN file
  BY <1>2, EntryIs
<1>5. Accounts!user_name(u) # None
  BY <1>4 DEF Entries, NoName
<1>6. file' = [file EXCEPT ![i].last = time]
  BY <1>1, <1>4, <1>5 DEF Accounts!WithLast
<1>7. [file[i] EXCEPT !.last = time] = Accounts!User(u, time, file[i].name)
  BY <1>4 DEF Entries, Accounts!User
<1>8. Rewritten(u, time, file[i].name)
  <2>1. file' = [k \in DOMAIN file |-> IF k = i THEN [file[i] EXCEPT !.last = time] ELSE file[k]]
    BY <1>2, <1>4, <1>6
  <2> QED BY <1>4, <1>7, <2>1 DEF Rewritten
<1>9. /\ file' \in Seq(Entries) /\ Entry(u)' = {i}
      /\ \A v \in People \ {u} : Entry(v)' = Entry(v) /\ \A k \in Entry(v) : file'[k] = file[k]
      /\ file'[i].last = time /\ file'[i].name = file[i].name
  <2>1. time \in Nat /\ file[i].name \in Names
    BY <1>2, <1>4 DEF UserTypes, Entries
  <2> QED BY <1>4, <1>8, <2>1, RewriteKeeps
<1>10. UserTypes' /\ pc'[u] = "out" /\ left'[u] = time
  BY <1>1, <1>2, <1>9 DEF UserTypes
<1>11. OthersStay(u)
  <2>1. \A v \in People \ {u} : /\ pc'[v] = pc[v] /\ left'[v] = left[v] /\ (v \in split' <=> v \in split)
                                 /\ (v \in unsaved' <=> v \in unsaved)
    BY <1>1, <1>2 DEF UserTypes
  <2> QED BY <1>1, <1>9, <2>1 DEF OthersStay
<1>12. IsKnown(u, file[i])'
  <2>1. IsKnown(u, file[i])
    BY <1>2 DEF UserOk
  <2>2. u \notin split' => pc[u] \notin Changing /\ u \notin split
    BY <1>1
  <2>3. time \in Nat
    BY <1>2 DEF UserTypes
  <2> QED BY <1>1, <1>9, <1>10, <2>1, <2>2, <2>3 DEF IsKnown, Setups, Changing
<1>13. UserOk(u)'
  BY <1>9, <1>12 DEF UserOk
<1> QED BY <1>10, <1>11, <1>13, OneSteps

LEMMA LogoutFailsKeeps == ASSUME UsersInv, NEW u \in People, Accounts!LogoutFails(u) PROVE UsersInv'
<1>1. /\ Entry(u) # {} /\ pc' = [pc EXCEPT ![u] = "out"] /\ left' = [left EXCEPT ![u] = time]
      /\ split' = (IF pc[u] \in Changing THEN split \cup {u} ELSE split) /\ unsaved' = unsaved \cup {u}
      /\ UNCHANGED << file, gecos, made, old, time, cut, misread >>
  BY DEF Accounts!LogoutFails, Accounts!Leave, Accounts!Goto, Changing, Entry
<1>2. UserTypes /\ UserOk(u)
  BY DEF UsersInv
<1>3. UserTypes' /\ pc'[u] = "out" /\ left'[u] = time
  BY <1>1, <1>2 DEF UserTypes
<1>4. OthersStay(u) /\ Entry(u)' = Entry(u) /\ (\A j, k \in Entry(u) : j = k)
  <2>1. \A v \in People \ {u} : /\ pc'[v] = pc[v] /\ left'[v] = left[v] /\ (v \in split' <=> v \in split)
                                 /\ (v \in unsaved' <=> v \in unsaved)
    BY <1>1, <1>2 DEF UserTypes
  <2> QED BY <1>1, <2>1, FileStays
<1>5. ASSUME NEW i \in Entry(u) PROVE IsKnown(u, file[i])'
  <2>1. IsKnown(u, file[i]) /\ file[i] \in Entries
    BY <1>2, EntryIs DEF UserOk
  <2>2. file[i].last <= time
    <3>1. file[i].last \in Nat /\ left[u] \in Nat /\ time \in Nat /\ left[u] <= time /\ file[i].last <= left[u]
      BY <1>2, <2>1 DEF UserTypes, Entries, IsKnown
    <3> QED BY <3>1
  <2>3. u \notin split' => pc[u] \notin Changing /\ u \notin split
    BY <1>1
  <2> QED BY <1>1, <1>3, <2>1, <2>2, <2>3 DEF IsKnown, Setups, Changing
<1>6. UserOk(u)'
  BY <1>1, <1>4, <1>5 DEF UserOk
<1> QED BY <1>3, <1>4, <1>6, OneSteps

LEMMA RenamedIs ==
  ASSUME UsersInv, NEW u \in People, NEW i \in Entry(u), NEW name \in Names, file' = Accounts!Renamed(file, u, name)
  PROVE  Rewritten(u, file[i].last, name) /\ file[i].last \in Nat
<1>1. UserTypes /\ UserOk(u)
  BY DEF UsersInv
<1>2. Entry(u) = {i} /\ file[i] \in Entries /\ file[i].num = u
  BY <1>1, EntryIs
<1>3. [file[i] EXCEPT !.name = name] = Accounts!User(u, file[i].last, name)
  BY <1>2 DEF Entries, Accounts!User
<1>4. \A k \in DOMAIN file : file[k].num = u <=> k = i
  BY <1>2 DEF Entry, Accounts!Of
<1>5. file' = [k \in DOMAIN file |-> IF file[k].num = u THEN [file[k] EXCEPT !.name = name] ELSE file[k]]
  BY DEF Accounts!Renamed
<1>6. file' = [k \in DOMAIN file |-> IF k = i THEN Accounts!User(u, file[i].last, name) ELSE file[k]]
  BY <1>3, <1>4, <1>5
<1> QED BY <1>2, <1>6 DEF Rewritten, Entries

LEMMA ModPinfoKeeps == ASSUME UsersInv, NEW u \in People, Accounts!ModPinfo(u) PROVE UsersInv'
<1>1. PICK name \in Names \cup {BadName} :
        /\ pc[u] = "in" /\ Accounts!CanRename(u, name) /\ old' = [old EXCEPT ![u] = Accounts!user_name(u)]
        /\ file' = Accounts!Renamed(file, u, name) /\ pc' = [pc EXCEPT ![u] = "chfn"]
        /\ UNCHANGED << gecos, made, time, left, cut, split, unsaved, misread >>
  BY DEF Accounts!ModPinfo, Accounts!Goto, Accounts!history
<1>2. UserTypes /\ UserOk(u) /\ name \in Names
  BY <1>1 DEF UsersInv, Accounts!CanRename
<1>3. PICK i \in Entry(u) : TRUE
  BY <1>1, <1>2 DEF UserOk, IsNew, Setups
<1>4. Entry(u) = {i} /\ Accounts!user_name(u) = file[i].name /\ file[i] \in Entries
  BY <1>2, EntryIs
<1>5. Rewritten(u, file[i].last, name) /\ file[i].last \in Nat
  BY <1>1, <1>2, RenamedIs
<1>6. /\ file' \in Seq(Entries) /\ Entry(u)' = {i}
      /\ \A v \in People \ {u} : Entry(v)' = Entry(v) /\ \A k \in Entry(v) : file'[k] = file[k]
      /\ file'[i].last = file[i].last /\ file'[i].name = name
  BY <1>2, <1>4, <1>5, RewriteKeeps
<1>7. UserTypes' /\ pc'[u] = "chfn" /\ old'[u] = file[i].name
  BY <1>1, <1>2, <1>4, <1>6 DEF UserTypes, Changing, Entries
<1>8. OthersStay(u)
  <2>1. \A v \in People \ {u} : pc'[v] = pc[v] /\ old'[v] = old[v]
    BY <1>1, <1>2 DEF UserTypes
  <2> QED BY <1>1, <1>6, <2>1 DEF OthersStay
<1>9. IsKnown(u, file[i])'
  <2>1. IsKnown(u, file[i])
    BY <1>2 DEF UserOk
  <2> QED BY <1>1, <1>4, <1>6, <1>7, <2>1 DEF IsKnown, Setups, Changing, Entries
<1>10. UserOk(u)'
  BY <1>6, <1>9 DEF UserOk
<1> QED BY <1>7, <1>8, <1>10, OneSteps

LEMMA RestoreKeeps == ASSUME UsersInv, NEW u \in People, Accounts!Restore(u) PROVE UsersInv'
<1>1. /\ pc[u] = "restore" /\ file' = Accounts!Renamed(file, u, old[u]) /\ pc' = [pc EXCEPT ![u] = "in"]
      /\ UNCHANGED << gecos, made, old, time, left, cut, split, unsaved, misread >>
  BY DEF Accounts!Restore, Accounts!Goto, Accounts!history
<1>2. UserTypes /\ UserOk(u)
  BY DEF UsersInv
<1>3. PICK i \in Entry(u) : TRUE
  BY <1>1, <1>2 DEF UserOk, IsNew, Setups
<1>4. Entry(u) = {i} /\ old[u] \in Names /\ IsKnown(u, file[i])
  BY <1>1, <1>2, EntryIs DEF UserOk, IsKnown, Changing
<1>5. Rewritten(u, file[i].last, old[u]) /\ file[i].last \in Nat
  BY <1>1, <1>4, RenamedIs
<1>6. /\ file' \in Seq(Entries) /\ Entry(u)' = {i}
      /\ \A v \in People \ {u} : Entry(v)' = Entry(v) /\ \A k \in Entry(v) : file'[k] = file[k]
      /\ file'[i].last = file[i].last /\ file'[i].name = old[u]
  BY <1>4, <1>5, RewriteKeeps
<1>7. UserTypes' /\ pc'[u] = "in"
  BY <1>1, <1>2, <1>6 DEF UserTypes
<1>8. OthersStay(u)
  <2>1. \A v \in People \ {u} : pc'[v] = pc[v]
    BY <1>1, <1>2 DEF UserTypes
  <2> QED BY <1>1, <1>6, <2>1 DEF OthersStay
<1>9. IsKnown(u, file[i])'
  BY <1>1, <1>4, <1>6, <1>7 DEF IsKnown, Setups, Changing
<1>10. UserOk(u)'
  BY <1>6, <1>9 DEF UserOk
<1> QED BY <1>7, <1>8, <1>10, OneSteps

LEMMA UsersStay == ASSUME NoName, UsersInv, [Accounts!Next]_(Accounts!vars) PROVE UsersInv'
<1>1. CASE UNCHANGED Accounts!vars
  BY <1>1 DEF Accounts!vars, Accounts!history, UsersInv, UserTypes, UserOk, IsNew, IsKnown, Entry, Accounts!Of
<1> QED
  BY <1>1, LoginKeepsUser, MakeKeeps, AddEntryKeeps, SetupFailsKeeps, LogoutKeeps, LogoutFailsKeeps,
     ModPinfoKeeps, ChfnKeeps, ChfnFailsKeeps, RestoreKeeps, RestoreFailsKeeps
  DEF Accounts!Next

-----------------------------------------------------------------------------
(* exec_logout, setup_new_user, cmd_mod_pinfo, user_uid: for any people,   *)
(* names and logins, whoever has an entry in USER_FILE has one, has all his *)
(* files, the time of his last session that could be written and the name  *)
(* that the password file has unless a change was cut off; a name that one *)
(* person has finds him; and nobody is kept out but those whose first      *)
(* login was cut off, or who are known while USER_FILE could not be read.  *)
THEOREM UsersAreKept == ASSUME NoName PROVE Accounts!Spec => []Accounts!UsersKept
<1>1. UsersInv => Accounts!UsersKept
  <2> SUFFICES ASSUME UsersInv, NEW u \in People
               PROVE  Accounts!Complete(u) /\ Accounts!SameName(u) /\ Accounts!Found(u) /\ Accounts!Welcome(u)
    BY DEF Accounts!UsersKept
  <2>1. UserTypes /\ UserOk(u) /\ (\A v \in People : UserOk(v))
    BY DEF UsersInv
  <2>2. CASE Entry(u) = {}
    <3>1. ~ Accounts!Known(u)
      BY <2>2 DEF Entry, Accounts!Known
    <3>2. pc[u] = "home" /\ "home" \in made[u] => u \in cut
      BY <2>1, <2>2 DEF UserOk, IsNew
    <3> QED BY <3>1, <3>2 DEF Accounts!Complete, Accounts!SameName, Accounts!Found, Accounts!Welcome
  <2>3. CASE Entry(u) # {}
    <3>1. PICK i \in Entry(u) : TRUE
      BY <2>3
    <3>2. /\ Entry(u) = {i} /\ file[i].num = u /\ i \in 1 .. Len(file) /\ IsKnown(u, file[i])
          /\ Accounts!user_name(u) = file[i].name /\ Accounts!last_session(u) = file[i].last
      BY <2>1, EntryIs DEF UserOk
    <3>3. Accounts!Complete(u)
      <4>1. Accounts!Cardinality(Accounts!Of(u)) = Cardinality({i})
        BY <3>2 DEF Entry, Cardinality, Accounts!Cardinality
      <4>2. Cardinality({i}) = 1
        BY FS_Singleton
      <4>3. made[u] = Accounts!ToSet(Accounts!Setup) \ {"entry"}
        BY <3>2, SetupIs DEF IsKnown, FilesMade
      <4> QED BY <3>2, <4>1, <4>2, <4>3 DEF Accounts!Complete, IsKnown
    <3>4. Accounts!SameName(u)
      BY <3>2 DEF Accounts!SameName, IsKnown, Changing
    <3>5. Accounts!Found(u)
      <4> SUFFICES ASSUME \A v \in People \ {u} : Accounts!user_name(v) # file[i].name
                   PROVE  Accounts!user_uid(file[i].name) = u
        BY <3>2 DEF Accounts!Found
      <4> DEFINE who == Accounts!Named(file[i].name)
      <4>1. file \in Seq(Entries) /\ DOMAIN file = 1 .. Len(file) /\ Len(file) \in Nat
        BY <2>1 DEF UserTypes
      <4>2. i \in who /\ who \subseteq Nat
        BY <3>2, <4>1 DEF Accounts!Named
      <4>3. ASSUME NEW k \in who PROVE file[k].num = u
        <5>1. k \in DOMAIN file /\ file[k].name = file[i].name /\ file[k] \in Entries
          BY <4>1 DEF Accounts!Named
        <5>2. file[k].num \in People /\ k \in Entry(file[k].num)
          BY <5>1 DEF Entries, Entry, Accounts!Of
        <5>3. Accounts!user_name(file[k].num) = file[k].name
          BY <2>1, <5>2, EntryIs
        <5> QED BY <5>1, <5>2, <5>3
      <4>4. who # {} /\ Accounts!FirstOf(who) \in who
        <5> HIDE DEF who
        <5> QED BY <4>2, FirstIs
      <4> QED BY <4>3, <4>4 DEF Accounts!user_uid
    <3>6. Accounts!Welcome(u)
      BY <2>3, <3>2 DEF Accounts!Welcome, Accounts!Known, Entry, IsKnown, Setups
    <3> QED BY <3>3, <3>4, <3>5, <3>6
  <2> QED BY <2>2, <2>3
<1> QED BY UsersBegin, UsersStay, <1>1, PTL DEF Accounts!Spec
=============================================================================
