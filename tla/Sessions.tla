------------------------------ MODULE Sessions ------------------------------
(***************************************************************************)
(* Logging in and out.  ACTIVE_FILE has one entry per session, and it is   *)
(* through this list that sessions find each other: to send messages, to   *)
(* signal a change of the database, to throw everybody out.  add_active    *)
(* first removes the entries of dead processes, then asks a user who is    *)
(* logged in already whether to end that session, then adds its own entry. *)
(* remove_active removes the first entry of the user Uid.                  *)
(*                                                                         *)
(* Every look at the file and every change of it happens under the lock of *)
(* open_file, which gives up when the lock is held for 30 seconds.         *)
(***************************************************************************)
EXTENDS Integers, FiniteSets, SequencesExt

CONSTANTS
  Procs,        \* the processes, each one a session of one user at a time
  Users,        \* the users
  UserOf,       \* the user who started a process (getuid), [Procs -> Users]
  None,         \* no process
  MaxEntries,   \* bound: entries in the list when a login begins
  MaxLogins,    \* how many processes are in add_active at a time
  Hangups,      \* the labels where SIGHUP may reach a session
  Kicks,        \* whether a user answers yes to ending the other session
  LongLocks     \* whether a lock may be held for 30 seconds

ASSUME ProcsAssumption == None \notin Procs /\ UserOf \in [Procs -> Users]
ASSUME BoundsAssumption ==
  MaxEntries \in Nat /\ MaxLogins \in Nat /\ Kicks \in BOOLEAN /\ LongLocks \in BOOLEAN

VARIABLES
  active,   \* the entries of ACTIVE_FILE
  holder,   \* the process that has ACTIVE_FILE locked
  told,     \* a process that somebody who has read ACTIVE_FILE will signal
  quit,     \* processes with SIGHUP or SIGTERM pending
  pc,       \* per process, where it is
  uid,      \* ... its variable Uid
  again,    \* ... restart: it logs in again after its logout
  rest,     \* ... the entries add_active has yet to look at
  buf,      \* ... ACTIVE_FILE as it read it to change it
  other     \* ... the process check_active found

file  == << active, holder >>
local == << uid, again, rest, buf, other >>
vars  == << file, told, quit, pc, local >>

Entry == [user : Users, pid : Procs]

Entries(s, u) == {i \in DOMAIN s : s[i].user = u}

First(s, u) == CHOOSE i \in Entries(s, u) : \A j \in Entries(s, u) : i <= j

WithoutFirst(s, u) == IF Entries(s, u) = {} THEN s ELSE RemoveAt(s, First(s, u))

Outside  == {"out", "dead"}
Login    == {"purge", "clean", "purging", "check", "ask", "term", "kill", "evict", "evicting",
             "add", "adding"}
Leaving  == {"bye", "leaving", "gone", "reset"}
Labels   == Outside \cup Login \cup {"on"} \cup Leaving

ASSUME HangupsAssumption == Hangups \subseteq Labels \ {"reset"}

(* With ACTIVE_FILE open to be changed, and before that.                   *)
Waiting == {"clean", "evict", "add", "bye"}
Changing == {"purging", "evicting", "adding", "leaving"}

Opened == [clean |-> "purging", evict |-> "evicting", add |-> "adding", bye |-> "leaving"]
Closed == [purging |-> "purge", evicting |-> "add", adding |-> "on", leaving |-> "gone"]

(* kill(pid, 0) finds the process.                                         *)
Alive(p) == pc[p] \notin Outside

Go(p, from, to) == pc[p] = from /\ pc' = [pc EXCEPT ![p] = to]

Init ==
  /\ active = <<>> /\ holder = None
  /\ told = None /\ quit = {}
  /\ pc = [p \in Procs |-> "out"]
  /\ uid = UserOf
  /\ again = [p \in Procs |-> FALSE]
  /\ rest = [p \in Procs |-> <<>>]
  /\ buf = [p \in Procs |-> <<>>]
  /\ other = [p \in Procs |-> None]

-----------------------------------------------------------------------------
(* open_file(ACTIVE_FILE).                                                 *)

Free == holder = None

(* Thirty seconds have passed.                                             *)
TimedOut == LongLocks /\ ~Free

(* Mutant: the file is not locked.                                         *)
OpenUnlocked(p) ==
  /\ pc[p] \in Waiting
  /\ buf' = [buf EXCEPT ![p] = active]
  /\ pc' = [pc EXCEPT ![p] = Opened[@]]
  /\ UNCHANGED << file, told, quit, uid, again, rest, other >>

(* remove_active, and add_active's last part: open and read ...            *)
Open(p) ==
  /\ pc[p] \in Waiting /\ Free
  /\ holder' = p
  /\ buf' = [buf EXCEPT ![p] = active]
  /\ pc' = [pc EXCEPT ![p] = Opened[@]]
  /\ UNCHANGED << active, told, quit, uid, again, rest, other >>

(* ... then write and close.                                               *)
Changed(p) == IF pc[p] = "adding" THEN Append(buf[p], [user |-> uid[p], pid |-> p])
                                  ELSE WithoutFirst(buf[p], uid[p])

Write(p) ==
  /\ pc[p] \in Changing
  /\ active' = Changed(p)
  /\ holder' = None
  /\ buf' = [buf EXCEPT ![p] = <<>>]
  /\ pc' = [pc EXCEPT ![p] = Closed[@]]
  /\ UNCHANGED << told, quit, uid, again, rest, other >>

(* remove_active failed: the entry stays.  add_active failed: exit.        *)
GiveUp(p) ==
  /\ pc[p] \in Waiting /\ TimedOut
  /\ pc' = [pc EXCEPT ![p] = IF @ = "add" THEN "dead" ELSE Closed[Opened[@]]]
  /\ UNCHANGED << file, told, quit, local >>

-----------------------------------------------------------------------------
(* add_active.                                                             *)

(* How a session begins, and begins again.                                 *)
BeginLogin(p) ==
  /\ Len(active) <= MaxEntries
  /\ Cardinality({q \in Procs : pc[q] \in Login}) < MaxLogins
  /\ Free
  /\ rest' = [rest EXCEPT ![p] = active]
  /\ uid' = [uid EXCEPT ![p] = UserOf[p]]
  /\ again' = [again EXCEPT ![p] = FALSE]
  /\ UNCHANGED << file, told, quit, buf, other >>

Start(p) == Go(p, "out", "purge") /\ BeginLogin(p)

(* Mutant: Uid stays the user who logs in.                                 *)
PurgeOwn(p) ==
  /\ pc[p] = "purge" /\ rest[p] # <<>>
  /\ pc' = [pc EXCEPT ![p] = IF Alive(Head(rest[p]).pid) THEN "purge" ELSE "clean"]
  /\ rest' = [rest EXCEPT ![p] = Tail(@)]
  /\ UNCHANGED << file, told, quit, uid, again, buf, other >>

(* Mutant: the entry that was removed is looked at again.                  *)
PurgeAnew(p) ==
  /\ pc[p] = "purge" /\ rest[p] # <<>>
  /\ LET e == Head(rest[p])
     IN  /\ uid' = [uid EXCEPT ![p] = e.user]
         /\ pc' = [pc EXCEPT ![p] = IF Alive(e.pid) THEN "purge" ELSE "clean"]
         /\ rest' = IF Alive(e.pid) THEN [rest EXCEPT ![p] = Tail(@)] ELSE rest
  /\ UNCHANGED << file, told, quit, again, buf, other >>

(* While it looks at an entry, Uid is the user of that entry.              *)
Purge(p) ==
  /\ pc[p] = "purge" /\ rest[p] # <<>>
  /\ LET e == Head(rest[p])
     IN  /\ uid' = [uid EXCEPT ![p] = e.user]
         /\ pc' = [pc EXCEPT ![p] = IF Alive(e.pid) THEN "purge" ELSE "clean"]
  /\ rest' = [rest EXCEPT ![p] = Tail(@)]
  /\ UNCHANGED << file, told, quit, again, buf, other >>

PurgeEnd(p) ==
  /\ Go(p, "purge", "check") /\ rest[p] = <<>>
  /\ uid' = [uid EXCEPT ![p] = UserOf[p]]
  /\ UNCHANGED << file, told, quit, again, rest, buf, other >>

(* Mutant: nobody is ever logged in already.                               *)
NotFoundEver(p) == Go(p, "check", "add") /\ UNCHANGED << file, told, quit, local >>

(* check_active: the first entry of the user.  A list that cannot be read  *)
(* counts as one where the user is not.                                    *)
Found(p) ==
  /\ Free /\ Entries(active, uid[p]) # {}
  /\ other' = [other EXCEPT ![p] = active[First(active, uid[p])].pid]
  /\ Go(p, "check", "ask")
  /\ UNCHANGED << file, told, quit, uid, again, rest, buf >>

NotFound(p) ==
  /\ TimedOut \/ (Free /\ Entries(active, uid[p]) = {})
  /\ Go(p, "check", "add")
  /\ UNCHANGED << file, told, quit, local >>

AnswerNo(p) == Go(p, "ask", "dead") /\ UNCHANGED << file, told, quit, local >>

(* kill(pid, SIGTERM), and two seconds later user_is_active.               *)
AnswerYes(p) ==
  /\ Kicks /\ Go(p, "ask", "term")
  /\ quit' = IF Alive(other[p]) THEN quit \cup {other[p]} ELSE quit
  /\ UNCHANGED << file, told, local >>

StillActive(p) ==
  /\ Free /\ Entries(active, uid[p]) # {}
  /\ Go(p, "term", "kill")
  /\ UNCHANGED << file, told, quit, local >>

NotActive(p) ==
  /\ TimedOut \/ (Free /\ Entries(active, uid[p]) = {})
  /\ Go(p, "term", "add")
  /\ UNCHANGED << file, told, quit, local >>

(* Mutant: a process ends, its lock stays.                                 *)
EndedLocked(q) == quit' = quit \ {q} /\ UNCHANGED holder

(* A process ends; its locks and pending signals end with it.              *)
Ended(q) ==
  /\ holder' = IF holder = q THEN None ELSE holder
  /\ quit' = quit \ {q}

(* kill(pid, SIGKILL); after two more seconds remove_active.               *)
SigKill(p) ==
  /\ pc[p] = "kill"
  /\ pc' = [pc EXCEPT ![p] = IF other[p] = p THEN "dead" ELSE "evict",
                      ![other[p]] = "dead"]
  /\ Ended(other[p])
  /\ UNCHANGED << active, told, local >>

-----------------------------------------------------------------------------
(* exec_logout, called by the main loop or by the handler of a signal.     *)

Logout(p) == Go(p, "on", "bye") /\ UNCHANGED << file, told, quit, local >>

Restart(p) ==
  /\ Go(p, "on", "bye")
  /\ again' = [again EXCEPT ![p] = TRUE]
  /\ UNCHANGED << file, told, quit, uid, rest, buf, other >>

Hangup(p) ==
  /\ pc[p] \in Hangups /\ ~again[p]
  /\ quit' = quit \cup {p}
  /\ UNCHANGED << file, told, pc, local >>

(* critical has the signals blocked while the file is open.  Left out: a   *)
(* signal in the logout of a restart, whose inner exec_logout returns.     *)
Quit(p) ==
  /\ p \in quit /\ pc[p] \notin Changing \cup Outside \cup {"reset"} /\ ~again[p]
  /\ quit' = quit \ {p}
  /\ pc' = [pc EXCEPT ![p] = "bye"]
  /\ UNCHANGED << file, told, local >>

(* sig_reset: from here on a signal has its default effect.                *)
Reset(p) == Go(p, "gone", "reset") /\ UNCHANGED << file, told, quit, local >>

(* A restart ends too when add_active cannot open the list, or when the    *)
(* default effect of a signal ends it.                                     *)
Exit(p) ==
  /\ Go(p, "reset", "dead") /\ (~again[p] \/ TimedOut \/ p \in quit)
  /\ Ended(p)
  /\ UNCHANGED << active, told, local >>

Again(p) == again[p] /\ Go(p, "reset", "purge") /\ BeginLogin(p)

-----------------------------------------------------------------------------
(* The ends of a session that are not a logout: end of input; and          *)
(* set_avail, which does not look whether it found the user's entry.       *)

EndOfInput(p) ==
  /\ pc[p] \in {"ask", "on"}
  /\ pc' = [pc EXCEPT ![p] = "dead"]
  /\ Ended(p)
  /\ UNCHANGED << active, told, local >>

SetAvail(p) ==
  /\ pc[p] = "on" /\ Free
  /\ Entries(active, uid[p]) = {}
  /\ pc' = [pc EXCEPT ![p] = "dead"]
  /\ Ended(p)
  /\ UNCHANGED << active, told, local >>

(* notify_all_processes, of any session or tosser: read the list, then     *)
(* signal one process after the other; told is any one of them.            *)
Notify ==
  /\ Free /\ told = None
  /\ \E i \in DOMAIN active : told' = active[i].pid
  /\ UNCHANGED << file, quit, pc, local >>

Tell ==
  /\ told # None /\ told' = None
  /\ IF pc[told] = "reset"
     THEN pc' = [pc EXCEPT ![told] = "dead"] /\ Ended(told) /\ UNCHANGED active
     ELSE UNCHANGED << file, quit, pc >>
  /\ UNCHANGED local

-----------------------------------------------------------------------------
(* What a process does by itself, once it is there.                        *)
Step(p) ==
  \/ Open(p) \/ Write(p) \/ GiveUp(p)
  \/ Purge(p) \/ PurgeEnd(p) \/ Found(p) \/ NotFound(p)
  \/ StillActive(p) \/ NotActive(p) \/ SigKill(p)
  \/ Reset(p) \/ Exit(p)

Next ==
  \/ \E p \in Procs :
       \/ Step(p) \/ Start(p) \/ Again(p)
       \/ AnswerNo(p) \/ AnswerYes(p) \/ Logout(p) \/ Restart(p)
       \/ Hangup(p) \/ Quit(p) \/ EndOfInput(p) \/ SetAvail(p)
  \/ Notify \/ Tell

(* A process is scheduled again and again.                                 *)
Spec == Init /\ [][Next]_vars /\ \A p \in Procs : WF_vars(Step(p))

-----------------------------------------------------------------------------
(* Types; and the lock is held by the process that changes the file.       *)
TypeOK ==
  /\ active \in Seq(Entry)
  /\ holder \in Procs \cup {None}
  /\ told \in Procs \cup {None} /\ quit \in SUBSET Procs
  /\ pc \in [Procs -> Labels]
  /\ uid \in [Procs -> Users]
  /\ again \in [Procs -> BOOLEAN]
  /\ rest \in [Procs -> Seq(Entry)]
  /\ buf \in [Procs -> Seq(Entry)]
  /\ other \in [Procs -> Procs \cup {None}]
  /\ \A p \in Procs : pc[p] \in Changing <=> holder = p

(* A session at its prompt is in the list: notify_all_processes, send_msg  *)
(* and the shutdown of sklaffadm reach it.                                 *)
Listed == \A p \in Procs : pc[p] = "on" => \E i \in DOMAIN active : active[i].pid = p

(* add_active lets nobody in who is logged in already.                     *)
OneSession ==
  \A p, q \in Procs : pc[p] = "on" /\ pc[q] = "on" /\ UserOf[p] = UserOf[q] => p = q

(* A session that the user restarts comes back: nothing ends it between    *)
(* its logout and its login.                                               *)
RestartComesBack ==
  [][\A p \in Procs : pc[p] = "reset" /\ again[p] => pc'[p] # "dead"]_vars

(* A login gets to its question or to the prompt, or the process is gone,  *)
(* whatever the other processes do with the list.                          *)
LoginEnds ==
  \A p \in Procs : pc[p] \in Login ~> pc[p] \in {"ask", "on", "dead", "bye"}

(* No session loses its entry to two processes that change the list at the *)
(* same time.                                                              *)
Reg == INSTANCE Registry WITH entries <- active
ImplementsRegistry == Reg!Spec
=============================================================================
