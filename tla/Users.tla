------------------------------- MODULE Users -------------------------------
(***************************************************************************)
(* USER_FILE, which has of every user the time of the last session and the *)
(* name that others write to, and what it has to agree with: the files a   *)
(* user gets with the first login, and the name that Unix has.  A user has *)
(* one session (Sessions), and whoever changes USER_FILE has it locked     *)
(* from the reading to the writing (Posting), so that a change is a step.  *)
(***************************************************************************)
EXTENDS Integers, Sequences, FiniteSets, SequencesExt

CONSTANTS
  None,
  People,      \* who has an account
  Names,       \* names that people may have, all of them valid
  BadName,     \* one with a colon, or too long
  MaxTime      \* bound: logins

VARIABLES
  file,        \* USER_FILE: entries [num, last, name]
  gecos,       \* the names in the password file
  made,        \* per user which of his files there are
  pc,          \* what a session does: one of Setup, or
               \* "out", "in", "chfn" (the name is changed here, not yet there), "restore"
  old,         \* the name a session has changed
  time,        \* the number of logins, as the clock
  \* history:
  left,        \* per user the end of the last session, 0 before it
  cut,         \* users whose first login did not come to its end
  split,       \* users whose names were changed in one place only
  unsaved,     \* users whose last logout could not write its time
  misread      \* users whose last login could not read USER_FILE

history == << left, cut, split, unsaved, misread >>
vars    == << file, gecos, made, pc, old, time, history >>

(* What setup_new_user makes, in this order; the entry is the last.        *)
Setup == << "home", "mbox", "confs", "sklaffrc", "mailbox", "entry" >>

User(u, last, name) == [num |-> u, last |-> last, name |-> name]

(* user_name, last_session and user_uid take the first entry that fits.    *)
Of(u)       == {i \in DOMAIN file : file[i].num = u}
Named(name) == {i \in DOMAIN file : file[i].name = name}
FirstOf(S) == CHOOSE i \in S : \A j \in S : i <= j
EntryOf(u) == FirstOf(Of(u))

user_name(u) == IF Of(u) = {} THEN None ELSE file[EntryOf(u)].name
user_uid(name) == IF Named(name) = {} THEN None
                  ELSE file[FirstOf(Named(name))].num
last_session(u) == IF Of(u) = {} THEN 0 ELSE file[EntryOf(u)].last

(* Mutant: the time of the last session is lost.                           *)
RenamedAnew(f, u, name) == [i \in DOMAIN f |-> IF f[i].num = u THEN User(u, 0, name) ELSE f[i]]

(* set_sklaff_user_name changes the name in the line of the user, exactly  *)
(* one, and exec_logout the time in his first.                             *)
Renamed(f, u, name) == [i \in DOMAIN f |-> IF f[i].num = u THEN [f[i] EXCEPT !.name = name] ELSE f[i]]

CanRename(u, name) == name # BadName /\ Cardinality(Of(u)) = 1

WithLast(u, t) == IF user_name(u) = None THEN file ELSE [file EXCEPT ![EntryOf(u)].last = t]

-----------------------------------------------------------------------------
Init ==
  /\ file = << >> /\ gecos \in [People -> Names]
  /\ made = [u \in People |-> {}] /\ pc = [u \in People |-> "out"]
  /\ old = [u \in People |-> None] /\ time = 0
  /\ left = [u \in People |-> 0] /\ cut = {} /\ split = {} /\ unsaved = {} /\ misread = {}

Goto(u, l) == pc' = [pc EXCEPT ![u] = l]

(* display_welcome: who has no entry is a new user.  So is everybody when  *)
(* the file is locked for thirty seconds or cannot be read.                *)
Login(u) == \E read \in BOOLEAN :
  /\ pc[u] = "out" /\ time < MaxTime
  /\ time' = time + 1 /\ Goto(u, IF read /\ user_name(u) # None THEN "in" ELSE Setup[1])
  /\ misread' = IF read THEN misread \ {u} ELSE misread \cup {u}
  /\ UNCHANGED << file, gecos, made, old, left, cut, split, unsaved >>

(* A step of setup_new_user.  The home directory must not exist yet.       *)
Make(u) == \E k \in 1 .. Len(Setup) - 1 :
  /\ pc[u] = Setup[k] /\ Setup[k] \notin made[u]
  /\ made' = [made EXCEPT ![u] = @ \cup {Setup[k]}] /\ Goto(u, Setup[k + 1])
  /\ UNCHANGED << file, gecos, old, time, history >>

AddEntry(u) ==
  /\ pc[u] = "entry"
  /\ file' = Append(file, User(u, 0, gecos[u])) /\ Goto(u, "in")
  /\ UNCHANGED << gecos, made, old, time, history >>

(* A step of it fails, or the line drops: what was made stays.             *)
SetupFails(u) ==
  /\ pc[u] \in ToSet(Setup)
  /\ Goto(u, "out") /\ cut' = IF made[u] = {} \/ Of(u) # {} THEN cut ELSE cut \cup {u}
  /\ UNCHANGED << file, gecos, made, old, time, left, split, unsaved, misread >>

(* exec_logout, at the end or at any time: SIGHUP.                         *)
Leave(u) ==
  /\ pc[u] # "out" /\ Of(u) # {}
  /\ Goto(u, "out") /\ left' = [left EXCEPT ![u] = time]
  /\ split' = IF pc[u] \in {"chfn", "restore"} THEN split \cup {u} ELSE split
  /\ UNCHANGED << gecos, made, old, time, cut, misread >>

Logout(u)      == Leave(u) /\ file' = WithLast(u, time) /\ unsaved' = unsaved \ {u}

(* The file cannot be opened or read, or the session is killed.            *)
LogoutFails(u) == Leave(u) /\ file' = file /\ unsaved' = unsaved \cup {u}

(* cmd_mod_pinfo changes the name here, then runs chfn, and takes the old  *)
(* name back when that does not work.                                      *)
ModPinfo(u) == \E name \in Names \cup {BadName} :
  /\ pc[u] = "in" /\ name # user_name(u) /\ CanRename(u, name)
  /\ old' = [old EXCEPT ![u] = user_name(u)]
  /\ file' = Renamed(file, u, name) /\ Goto(u, "chfn")
  /\ UNCHANGED << gecos, made, time, history >>

Chfn(u) ==
  /\ pc[u] = "chfn"
  /\ gecos' = [gecos EXCEPT ![u] = user_name(u)] /\ Goto(u, "in")
  /\ split' = split \ {u}
  /\ UNCHANGED << file, made, old, time, left, cut, unsaved, misread >>

ChfnFails(u) == pc[u] = "chfn" /\ Goto(u, "restore")
                /\ UNCHANGED << file, gecos, made, old, time, history >>

Restore(u) ==
  /\ pc[u] = "restore"
  /\ file' = Renamed(file, u, old[u]) /\ Goto(u, "in")
  /\ UNCHANGED << gecos, made, old, time, history >>

(* The file cannot be opened.                                              *)
RestoreFails(u) ==
  /\ pc[u] = "restore"
  /\ Goto(u, "in") /\ split' = split \cup {u}
  /\ UNCHANGED << file, gecos, made, old, time, left, cut, unsaved, misread >>

Next == \E u \in People :
  \/ Login(u) \/ Make(u) \/ AddEntry(u) \/ SetupFails(u) \/ Logout(u) \/ LogoutFails(u)
  \/ ModPinfo(u) \/ Chfn(u) \/ ChfnFails(u) \/ Restore(u) \/ RestoreFails(u)

Spec == Init /\ [][Next]_vars

-----------------------------------------------------------------------------
(* Whom the system knows has all files, one name, and that is the name in  *)
(* the password file, unless a change of it was cut off; and the time of   *)
(* his last session is that of its end, or of an earlier one when it could *)
(* not be written.                                                         *)
Known(u) == Of(u) # {}

Complete(u) == Known(u) => /\ Cardinality(Of(u)) = 1
                           /\ made[u] = ToSet(Setup) \ {"entry"}
                           /\ last_session(u) <= left[u]
                           /\ u \notin unsaved => last_session(u) = left[u]
SameName(u) == Known(u) /\ pc[u] \notin {"chfn", "restore"} /\ u \notin split =>
                 user_name(u) = gecos[u]

(* A letter to a name is for the user who has it, if he is the only one.   *)
Found(u) == Known(u) /\ (\A v \in People \ {u} : user_name(v) # user_name(u)) =>
              user_uid(user_name(u)) = u

(* Nobody is kept out but those whose first login was cut off, or who are  *)
(* known while USER_FILE could not be read.                                *)
Welcome(u) == pc[u] = "home" /\ "home" \in made[u] => u \in cut \/ (Known(u) /\ u \in misread)

UsersKept == \A u \in People : Complete(u) /\ SameName(u) /\ Found(u) /\ Welcome(u)
=============================================================================
