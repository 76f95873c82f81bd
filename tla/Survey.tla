------------------------------- MODULE Survey -------------------------------
(***************************************************************************)
(* One survey: the file of the replies, the file of the users who have     *)
(* taken it, the sessions that show it, and survreport, which reports on   *)
(* it when its time is over.                                               *)
(*                                                                         *)
(* A file that cannot be opened, because it does not exist or because it   *)
(* has been locked for 30 seconds, is taken not to exist, and begun anew.  *)
(***************************************************************************)
EXTENDS Integers, FiniteSets

CONSTANTS
  Users,
  None,       \* no such file
  Nobody,     \* nobody has a file locked
  MaxShown    \* bound: times the survey is shown to somebody

VARIABLES
  result,     \* the replies, in an order of their own: [user, n]
  taken,      \* the users in the other file
  lock,       \* who has locked each file
  pc, job,    \* the sessions
  over,       \* the time of the survey is over
  report,     \* survreport: [pc, replies, warned]
  \* history:
  shown,
  saved,      \* the replies that were saved
  due,        \* those saved when the report began
  excused,    \* replies that may be lost
  again,      \* users who may take the survey again
  uneven      \* there may be more replies than users, or fewer

files   == << result, taken, lock >>
session == << pc, job >>
history == << shown, saved, due, excused, again, uneven >>
vars    == << files, session, over, report, history >>

NoJob == [op |-> "none"]
NoReport == [pc |-> "idle", replies |-> {}, warned |-> FALSE]

Init ==
  /\ result = None /\ taken = None /\ lock = [f \in {"result", "taken"} |-> Nobody]
  /\ pc = [u \in Users |-> "idle"] /\ job = [u \in Users |-> NoJob]
  /\ over = FALSE /\ report = NoReport
  /\ shown = 0 /\ saved = {} /\ due = {} /\ excused = {} /\ again = {} /\ uneven = FALSE

Goto(u, p, j) == pc' = [pc EXCEPT ![u] = p] /\ job' = [job EXCEPT ![u] = j]
Move(u, p)    == Goto(u, p, job[u])

Free(f) == lock[f] = Nobody
Take(u, f) == Free(f) /\ lock' = [lock EXCEPT ![f] = u]
Release(f) == lock' = [lock EXCEPT ![f] = Nobody]

-----------------------------------------------------------------------------
(* display_text: who has not taken the survey is asked.                    *)
Show(u) ==
  /\ pc[u] = "idle" /\ shown < MaxShown /\ shown' = shown + 1 /\ ~over
  /\ \/ Free("taken") /\ taken # None /\ u \in taken /\ UNCHANGED << session, again, uneven >>
     \/ /\ Free("taken") /\ (taken # None => u \notin taken)
        /\ Goto(u, "ask", [n |-> shown + 1]) /\ UNCHANGED << again, uneven >>
     \/ /\ ~Free("taken") /\ Goto(u, "ask", [n |-> shown + 1])
        /\ again' = again \cup {u} /\ uneven' = TRUE
  /\ UNCHANGED << files, over, report, saved, due, excused >>

(* "No" to the question whether to save it, or nothing.                    *)
Refuse(u) ==
  /\ pc[u] = "ask" /\ Goto(u, "idle", NoJob) /\ UNCHANGED << files, over, report, history >>

(* save_survey_result.                                                     *)
Save(u) == pc[u] = "ask" /\ Move(u, "save") /\ UNCHANGED << files, over, report, history >>

Begins(f) == {v \in Users : pc[v] \in (IF f = "result" THEN {"create", "lock"} ELSE {"mcreate", "mlock"})}

OpenResult(u) ==
  /\ pc[u] = "save"
  /\ \/ result = None /\ Move(u, "create") /\ UNCHANGED << lock, excused, uneven >>
     \/ /\ result # None /\ Take(u, "result")
        /\ Goto(u, "write", [n |-> job[u].n, buf |-> result]) /\ UNCHANGED << excused, uneven >>
     \/ /\ result # None /\ ~Free("result") /\ Move(u, "create")
        /\ excused' = excused \cup result /\ uneven' = TRUE /\ UNCHANGED lock
  /\ UNCHANGED << result, taken, over, report, shown, saved, due, again >>

CreateResult(u) ==
  /\ pc[u] = "create" /\ Move(u, "lock") /\ result' = IF result = None THEN {} ELSE result
  /\ UNCHANGED << taken, lock, over, report, history >>

(* Without the lock the reply is not saved, and is marked all the same.    *)
LockResult(u) ==
  /\ pc[u] = "lock"
  /\ \/ Take(u, "result") /\ Goto(u, "write", [n |-> job[u].n, buf |-> {}]) /\ UNCHANGED uneven
     \/ ~Free("result") /\ Move(u, "mark") /\ uneven' = TRUE /\ UNCHANGED lock
  /\ UNCHANGED << result, taken, over, report, shown, saved, due, excused, again >>

Reply(u) == [user |-> u, n |-> job[u].n]

(* Mutant: the new reply takes the place of one that is there.             *)
InsertOver(buf, r) == {r} \cup (IF buf = {} THEN {} ELSE buf \ {CHOOSE s \in buf : TRUE})
Insert(buf, r)     == {r} \cup buf

(* What somebody else who begins the file overwrites is lost.              *)
WriteResult(u) ==
  /\ pc[u] = "write" /\ result' = Insert(job[u].buf, Reply(u)) /\ Release("result")
  /\ saved' = saved \cup {Reply(u)}
  /\ excused' = excused \cup IF Begins("result") = {} THEN {} ELSE result'
  /\ uneven' = (uneven \/ Begins("result") # {})
  /\ Move(u, "mark")
  /\ UNCHANGED << taken, over, report, shown, due, again >>

(* The file stays locked as long as the session lasts.                     *)
WriteFails(u) ==
  /\ pc[u] = "write" /\ Move(u, "mark") /\ uneven' = TRUE
  /\ UNCHANGED << files, over, report, shown, saved, due, excused, again >>

(* mark_survey_as_taken.                                                   *)
OpenTaken(u) ==
  /\ pc[u] = "mark"
  /\ \/ taken = None /\ Move(u, "mcreate") /\ UNCHANGED << lock, again, uneven >>
     \/ /\ taken # None /\ Take(u, "taken")
        /\ Goto(u, "mwrite", [buf |-> taken]) /\ UNCHANGED << again, uneven >>
     \/ /\ taken # None /\ ~Free("taken") /\ Move(u, "mcreate")
        /\ again' = again \cup taken /\ uneven' = TRUE /\ UNCHANGED lock
  /\ UNCHANGED << result, taken, over, report, shown, saved, due, excused >>

CreateTaken(u) ==
  /\ pc[u] = "mcreate" /\ Move(u, "mlock") /\ taken' = IF taken = None THEN {} ELSE taken
  /\ UNCHANGED << result, lock, over, report, history >>

LockTaken(u) ==
  /\ pc[u] = "mlock"
  /\ \/ Take(u, "taken") /\ Goto(u, "mwrite", [buf |-> {}]) /\ UNCHANGED << again, uneven >>
     \/ /\ ~Free("taken") /\ Goto(u, "idle", NoJob)
        /\ again' = again \cup {u} /\ uneven' = TRUE /\ UNCHANGED lock
  /\ UNCHANGED << result, taken, over, report, shown, saved, due, excused >>

WriteTaken(u) ==
  /\ pc[u] = "mwrite" /\ taken' = job[u].buf \cup {u} /\ Release("taken")
  /\ again' = again \cup IF Begins("taken") = {} THEN {} ELSE taken'
  /\ uneven' = (uneven \/ Begins("taken") # {})
  /\ Goto(u, "idle", NoJob)
  /\ UNCHANGED << result, over, report, shown, saved, due, excused >>

MarkFails(u) ==
  /\ pc[u] = "mwrite" /\ Goto(u, "idle", NoJob)
  /\ again' = again \cup {u} /\ uneven' = TRUE
  /\ UNCHANGED << files, over, report, shown, saved, due, excused >>

(* The session ends, at any point; nobody is marked who has not come to it.*)
Leave(u) ==
  /\ pc[u] # "idle" \/ u \in {lock[f] : f \in DOMAIN lock}
  /\ Goto(u, "idle", NoJob)
  /\ lock' = [f \in DOMAIN lock |-> IF lock[f] = u THEN Nobody ELSE lock[f]]
  /\ again' = again \cup IF pc[u] \in {"mark", "mcreate", "mlock", "mwrite"} THEN {u} ELSE {}
  /\ uneven' = (uneven \/ pc[u] \in {"mark", "mcreate", "mlock", "mwrite"})
  /\ UNCHANGED << result, taken, over, report, shown, saved, due, excused >>

-----------------------------------------------------------------------------
TimeOver == ~over /\ over' = TRUE /\ UNCHANGED << files, session, report, history >>

(* show_survey_result: the replies, then the number of users.              *)
Report ==
  /\ over /\ report.pc = "idle" /\ due' = saved
  /\ \/ /\ result # None /\ Free("result")
        /\ report' = [report EXCEPT !.pc = "compare", !.replies = result] /\ UNCHANGED excused
     \/ /\ result = None /\ report' = [report EXCEPT !.pc = "posted"] /\ UNCHANGED excused
     \/ /\ result # None /\ ~Free("result")        \* no replies
        /\ report' = [report EXCEPT !.pc = "posted"] /\ excused' = excused \cup saved
  /\ UNCHANGED << files, session, over, shown, saved, again, uneven >>

Compare ==
  /\ report.pc = "compare"
  /\ LET n == IF taken # None /\ Free("taken") THEN Cardinality(taken) ELSE 0 IN
     report' = [report EXCEPT !.pc = "posted", !.warned = n # Cardinality(report.replies)]
  /\ uneven' = (uneven \/ ~Free("taken") \/ \E u \in Users : pc[u] # "idle" \/ saved # due)
  /\ UNCHANGED << files, session, over, shown, saved, due, excused, again >>

Next ==
  \/ \E u \in Users :
       \/ Show(u) \/ Refuse(u) \/ Save(u) \/ OpenResult(u) \/ CreateResult(u) \/ LockResult(u)
       \/ WriteResult(u) \/ WriteFails(u) \/ OpenTaken(u) \/ CreateTaken(u) \/ LockTaken(u)
       \/ WriteTaken(u) \/ MarkFails(u) \/ Leave(u)
  \/ TimeOver \/ Report \/ Compare

Spec == Init /\ [][Next]_vars

-----------------------------------------------------------------------------
(* save_survey_result, mark_survey_as_taken, show_survey_result: a reply   *)
(* that was saved stays and is reported, nobody's reply counts twice, and  *)
(* the report does not find other numbers of replies and of users.  These  *)
(* hold but when two begin a file at a time, when a file is locked for 30  *)
(* seconds or cannot be written, and when a session ends between its reply *)
(* and its mark; the numbers may differ while somebody is being asked.     *)
RepliesKept ==
  /\ \A r \in saved \ excused : result # None /\ r \in result
  /\ result # None => \A r, s \in result : r.user = s.user /\ r # s => r.user \in again
  /\ report.pc = "posted" => due \ excused \subseteq report.replies
  /\ report.warned => uneven
=============================================================================
