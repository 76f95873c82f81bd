------------------------------ MODULE MailToss ------------------------------
(***************************************************************************)
(* mailtoss moves the mail of one user from the mail spool of the system   *)
(* into his mailbox: it reads the whole spool, keeps a copy of it, empties *)
(* it, and imports one mail after the other.  Mail goes on arriving, a     *)
(* second mailtoss may be started, and each may fail or be killed.         *)
(***************************************************************************)
EXTENDS Integers, Sequences, FiniteSets, SequencesExt

CONSTANTS
  Procs,      \* processes that run mailtoss
  Nobody,     \* nobody has MAILBOX_FILE locked
  MaxMail,    \* bound: mails delivered
  MaxRuns     \* bound: starts of mailtoss

VARIABLES
  spool,      \* the mails in the spool
  copies,     \* the mails in copies of the spool
  files,      \* the texts of the mailbox, by number
  last,       \* last_text in MAILBOX_FILE
  lock,       \* the process that has MAILBOX_FILE locked
  pc, buf,    \* per process what it is at, and the mails it still has to import
  \* history:
  runs,       \* starts so far
  sent,       \* mails delivered so far
  seen,       \* per process whether its copy worked
  excused     \* mails that may be lost, or come twice

mailbox == << files, last, lock >>
process == << pc, buf, seen >>
vars == << spool, copies, mailbox, process, runs, sent, excused >>

Idle == "idle"

Init ==
  /\ spool = << >> /\ copies = {} /\ files = << >> /\ last = 0 /\ lock = Nobody
  /\ pc = [p \in Procs |-> Idle] /\ buf = [p \in Procs |-> << >>]
  /\ runs = 0 /\ sent = 0 /\ seen = [p \in Procs |-> FALSE] /\ excused = {}

Goto(p, l) == pc' = [pc EXCEPT ![p] = l]

(* Mail that comes after the spool was copied and before it is emptied is  *)
(* lost.                                                                   *)
Deliver ==
  /\ sent < MaxMail /\ sent' = sent + 1 /\ spool' = Append(spool, sent + 1)
  /\ excused' = excused \cup IF \E p \in Procs : pc[p] = "copied" THEN {sent + 1} ELSE {}
  /\ UNCHANGED << copies, mailbox, process, runs >>

Running == {q \in Procs : pc[q] # Idle}

(* The spool is read under its lock; an empty one is left alone.  Nothing  *)
(* keeps a second process from reading the same mails.                     *)
ReadSpool(p) ==
  /\ pc[p] = Idle /\ runs < MaxRuns /\ runs' = runs + 1
  /\ \/ spool = << >> /\ UNCHANGED << process, excused >>
     \/ /\ spool # << >>
        /\ Goto(p, "read") /\ buf' = [buf EXCEPT ![p] = spool] /\ seen' = [seen EXCEPT ![p] = FALSE]
        /\ excused' = excused \cup UNION {ToSet(spool) \cup ToSet(buf[q]) : q \in Running}
  /\ UNCHANGED << spool, copies, mailbox, sent >>

(* MAILTOSS_DEBUG: the copy fails if there is no directory for it.         *)
Copy(p) ==
  /\ pc[p] = "read" /\ Goto(p, "copied")
  /\ \/ copies' = copies \cup ToSet(spool) /\ seen' = [seen EXCEPT ![p] = TRUE] /\ UNCHANGED excused
     \/ excused' = excused \cup (ToSet(spool) \ ToSet(buf[p])) /\ UNCHANGED << copies, seen >>
  /\ UNCHANGED << spool, mailbox, buf, runs, sent >>

(* Mutant: the spool is emptied before it is copied.                       *)
TruncateFirst(p) ==
  /\ pc[p] = "read" /\ Goto(p, "send") /\ spool' = << >> /\ seen' = [seen EXCEPT ![p] = TRUE]
  /\ UNCHANGED << copies, mailbox, buf, runs, sent, excused >>

(* truncate_spool does not lock it.                                        *)
Truncate(p) ==
  /\ pc[p] = "copied" /\ Goto(p, "send") /\ spool' = << >>
  /\ UNCHANGED << copies, mailbox, buf, seen, runs, sent, excused >>

(* send_mail: MAILBOX_FILE stays locked from the number until it is        *)
(* counted; the text is written first.                                     *)
LockBox(p) ==
  /\ pc[p] = "send" /\ lock = Nobody /\ lock' = p /\ Goto(p, "write")
  /\ UNCHANGED << spool, copies, files, last, buf, seen, runs, sent, excused >>

WriteText(p) ==
  /\ pc[p] = "write" /\ Goto(p, "count")
  /\ files' = SubSeq(files, 1, last) \o << Head(buf[p]) >>
  /\ UNCHANGED << spool, copies, last, lock, buf, seen, runs, sent, excused >>

CountText(p) ==
  /\ pc[p] = "count" /\ last' = last + 1 /\ lock' = Nobody
  /\ buf' = [buf EXCEPT ![p] = Tail(@)]
  /\ Goto(p, IF Tail(buf[p]) = << >> THEN Idle ELSE "send")
  /\ UNCHANGED << spool, copies, files, seen, runs, sent, excused >>

(* A mail that cannot be stored ends the program, and so does a death: the *)
(* mails that are left are in the copy, if that worked.                    *)
Fail(p) ==
  /\ pc[p] # Idle /\ Goto(p, Idle) /\ buf' = [buf EXCEPT ![p] = << >>]
  /\ lock' = IF lock = p THEN Nobody ELSE lock
  /\ excused' = excused \cup IF pc[p] \in {"send", "write", "count"} /\ ~seen[p]
                             THEN ToSet(buf[p]) ELSE {}
  /\ UNCHANGED << spool, copies, files, last, seen, runs, sent >>

Next == \/ Deliver
        \/ \E p \in Procs : ReadSpool(p) \/ Copy(p) \/ Truncate(p) \/ LockBox(p)
                            \/ WriteText(p) \/ CountText(p) \/ Fail(p)

Spec == Init /\ [][Next]_vars

-----------------------------------------------------------------------------
Imported == SubSeq(files, 1, last)
Waiting == ToSet(spool) \cup copies \cup UNION {ToSet(buf[p]) : p \in Procs}

(* main: every mail is in the spool, in a copy, in the mailbox or still    *)
(* being imported, and none is in the mailbox twice.  Excused are mails    *)
(* that come between the copy and the truncation, those of a run that      *)
(* fails without a copy, and those of two processes at a time.             *)
MailSafe ==
  /\ \A m \in 1 .. sent \ excused : m \in Waiting \/ m \in ToSet(Imported)
  /\ \A i, j \in 1 .. last : files[i] = files[j] /\ i # j => files[i] \in excused
=============================================================================
