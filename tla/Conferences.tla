---------------------------- MODULE Conferences ----------------------------
(***************************************************************************)
(* Who may be in which conference: CONF_FILE, the list of users beside     *)
(* each conference (CONFRC_FILE), the conferences each user subscribes to, *)
(* and the commands of creators who set up, rename, link, change and       *)
(* delete conferences.  Most of them ask a question between the check and  *)
(* the change, while other sessions go on.                                 *)
(*                                                                         *)
(* A name is a sequence of words; a name typed stands for every name it    *)
(* is the beginning of.                                                    *)
(***************************************************************************)
EXTENDS Integers, Sequences, FiniteSets, SequencesExt, FiniteSetsExt

CONSTANTS
  Users,
  Nobody,     \* -1, the creator of a deleted conference
  Names,      \* the names users give
  Founded,    \* the files to begin with, and
              \* bound: the commands each user gives in one behaviour
  MaxConf     \* bound: conferences ever created

VARIABLES
  entry,      \* CONF_FILE: the conferences by number
  confrc,     \* per number the users in CONFRC_FILE
  subs,       \* per user the conferences of CONFS_FILE
  pc, job,    \* per user what the session is at
  menu,       \* per user the commands of this behaviour
  \* history:
  may,        \* per number the users its creator lets in
  kept,       \* per user conferences lost during the session, or not clear at login
  raced       \* conferences linked to one while it was being deleted

files   == << entry, confrc >>
session == << pc, job >>
history == << may, kept, raced >>
vars    == << files, subs, session, menu, history >>

NoJob == [op |-> "none"]
Accesses == {"open", "closed", "secret"}
Numbers == DOMAIN entry
Live(c) == entry[c].creator # Nobody

Init ==
  /\ \E f \in Founded : entry = f.entry /\ subs = f.subs /\ menu = f.menu
  /\ confrc = [c \in Numbers |-> {}]
  /\ may = [c \in Numbers |-> IF entry[c].access = "open" THEN Users ELSE {entry[c].creator}]
  /\ pc = [u \in Users |-> "off"] /\ job = [u \in Users |-> NoJob]
  /\ kept = [u \in Users |-> {}] /\ raced = {}

-----------------------------------------------------------------------------
(* Mutant: an open conference has nobody to refuse.                        *)
ConfRightOpen(list, u, e) ==
  IF e.creator = u \/ e.access = "open" THEN 0 ELSE
  IF u \in list THEN 0 ELSE IF e.access = "closed" THEN 1 ELSE 2

(* 0 is all, 1 is look, 2 is none: the list of an open conference names    *)
(* those kept out, that of the others those let in.                        *)
ConfRight(list, u, e) ==
  IF e.creator = u THEN 0 ELSE
  IF u \in list THEN (IF e.access = "open" THEN 1 ELSE 0) ELSE
  CASE e.access = "open" -> 0 [] e.access = "closed" -> 1 [] e.access = "secret" -> 2

Right(c, u) == ConfRight(confrc[c], u, entry[c])

CanSee(u, c) == entry[c].access = "secret" => c \in subs[u] \/ Right(c, u) < 2

(* conf_num: the first conference of exactly this name.                    *)
WithName(n) == {c \in Numbers : entry[c].name = n}
ConfNum(n) == IF WithName(n) = {} THEN -1 ELSE Min(WithName(n))

(* expand_name: one of the names that begin so, by way of its number; an   *)
(* ambiguous name is asked about.                                          *)
Matches(S, n) == {c \in S : IsPrefix(n, entry[c].name)}
Picked(S) == {ConfNum(entry[c].name) : c \in S}
Seen(u) == {c \in Numbers : Live(c) /\ CanSee(u, c)}
Named(u) == Picked(Seen(u))

(* The current conference, or one that is named.                           *)
Own(u) == {c \in subs[u] \cup Named(u) : entry[c].creator = u}

(* Those who are let in no longer keep their place until they log in anew. *)
Withdrawn(m) == [u \in Users |-> kept[u] \cup
                   IF pc[u] = "off" THEN {} ELSE {c \in Numbers : u \in may[c] /\ u \notin m[c]}]
Decide(m) == may' = m /\ kept' = Withdrawn(m)

Goto(u, p, j) == pc' = [pc EXCEPT ![u] = p] /\ job' = [job EXCEPT ![u] = j] /\ UNCHANGED menu
Gives(u, op)  == pc[u] = "idle" /\ op \in menu[u]
Ask(u, j)     == Gives(u, j.op) /\ Goto(u, "ask", j)
Answered(u, op) == pc[u] = "ask" /\ job[u].op = op /\ Goto(u, "idle", NoJob)

-----------------------------------------------------------------------------
(* Login: the types are read once, the list of each conference at its turn.*)
Login(u) ==
  /\ pc[u] = "off"
  /\ Goto(u, "login", [op |-> "force", todo |-> subs[u],
                       types |-> [c \in subs[u] |-> [creator |-> entry[c].creator, access |-> entry[c].access]]])
  /\ kept' = [kept EXCEPT ![u] = {}]
  /\ UNCHANGED << files, subs, may, raced >>

(* force_unsubscribe: out of every conference without a right, by name.    *)
ForceUnsubscribe(u) ==
  LET j == job[u]
      c == Min(j.todo)
      S == Matches(subs[u], entry[c].name)
      sure == S = {c} /\ ConfNum(entry[c].name) = c /\ entry[c].access = j.types[c].access
  IN
  /\ pc[u] = "login" /\ j.todo # {}
  /\ Goto(u, "login", [j EXCEPT !.todo = @ \ {c}])
  /\ \/ ConfRight(confrc[c], u, j.types[c]) = 0 /\ UNCHANGED subs
     \/ /\ ConfRight(confrc[c], u, j.types[c]) # 0
        /\ \E D \in IF S = {c} THEN {Picked(S)} ELSE {{}} \cup {{d} : d \in Picked(S)} :
             subs' = [subs EXCEPT ![u] = @ \ D]
  /\ kept' = [kept EXCEPT ![u] = @ \cup IF sure THEN {} ELSE {c}]
  /\ UNCHANGED << files, may, raced >>

LoggedIn(u) ==
  /\ pc[u] = "login" /\ job[u].todo = {} /\ Goto(u, "idle", NoJob)
  /\ UNCHANGED << files, subs, history >>

(* Logout, or a hang-up at a question.                                     *)
Leave(u) == pc[u] # "off" /\ Goto(u, "off", NoJob) /\ UNCHANGED << files, subs, history >>

-----------------------------------------------------------------------------
Subscribe(u, c) ==
  /\ Gives(u, "subscribe") /\ c \in Picked(Seen(u) \ subs[u]) \ subs[u] /\ Right(c, u) = 0
  /\ subs' = [subs EXCEPT ![u] = @ \cup {c}]
  /\ UNCHANGED << files, session, menu, history >>

Unsubscribe(u, c) ==
  /\ Gives(u, "unsubscribe") /\ c \in Picked(subs[u]) \cap subs[u]
  /\ subs' = [subs EXCEPT ![u] = @ \ {c}]
  /\ UNCHANGED << files, session, menu, history >>

CreateConf(u, n, a) ==
  /\ Ask(u, [op |-> "create", name |-> n, access |-> a]) /\ ConfNum(n) <= 0
  /\ UNCHANGED << files, subs, history >>

CreateStored(u) ==
  LET j == job[u]
      c == Len(entry) + 1
  IN
  /\ c <= MaxConf /\ Answered(u, "create")
  /\ entry' = Append(entry, [name |-> j.name, creator |-> u, access |-> j.access, comconf |-> 0])
  /\ confrc' = Append(confrc, {})
  /\ may' = Append(may, IF j.access = "open" THEN Users ELSE {u})
  /\ subs' = [subs EXCEPT ![u] = @ \cup {c}]
  /\ UNCHANGED << kept, raced >>

(* cmd_change_cname checks the new name after its question.                *)
ChangeCname(u, c, n) ==
  /\ Ask(u, [op |-> "rename", conf |-> c, name |-> n])
  /\ c \in Own(u) /\ n # entry[c].name /\ ConfNum(n) \notin Numbers \ {c}
  /\ UNCHANGED << files, subs, history >>

RenameStored(u) ==
  /\ Answered(u, "rename") /\ entry' = [entry EXCEPT ![job[u].conf].name = job[u].name]
  /\ UNCHANGED << confrc, subs, history >>

(* cmd_change_comc: a name that is the beginning of another is refused.    *)
ChangeComc(u, c, d) ==
  /\ Ask(u, [op |-> "link", conf |-> c, to |-> d])
  /\ c \in Own(u) /\ d \in Seen(u) /\ d # entry[c].comconf
  /\ Matches(Seen(u), entry[d].name) = {d} /\ ConfNum(entry[d].name) = d
  /\ UNCHANGED << files, subs, history >>

Deleting(d) == ~Live(d) \/ \E v \in Users : job[v].op = "delete" /\ job[v].conf = d

ComcStored(u) ==
  LET c == job[u].conf
      d == job[u].to
  IN
  /\ Answered(u, "link")
  /\ entry' = [entry EXCEPT ![c].comconf = IF d = c THEN 0 ELSE d]
  /\ raced' = IF Deleting(d) THEN raced \cup {c} ELSE raced \ {c}
  /\ UNCHANGED << confrc, subs, may, kept >>

(* Mutant: a conference that others are linked to is deleted all the same. *)
DeleteConfLinked(u, c) ==
  /\ Ask(u, [op |-> "delete", conf |-> c]) /\ c \in Own(u)
  /\ UNCHANGED << files, subs, history >>

DeleteConf(u, c) ==
  /\ Ask(u, [op |-> "delete", conf |-> c])
  /\ c \in Own(u) /\ \A d \in Numbers : entry[d].comconf # c
  /\ UNCHANGED << files, subs, history >>

DeleteConfirmed(u) ==
  LET c == job[u].conf IN
  /\ Answered(u, "delete")
  /\ subs' = [subs EXCEPT ![u] = @ \ {c}]
  /\ entry' = [entry EXCEPT ![c] =
                 [@ EXCEPT !.name = << "deleted", c >>, !.access = "secret", !.creator = Nobody]]
  /\ confrc' = [confrc EXCEPT ![c] = {}]
  /\ Decide([may EXCEPT ![c] = {}]) /\ UNCHANGED raced

(* cmd_mod_conf asks on with a copy of the whole entry, and stores it.     *)
ModConf(u, c, n, a) ==
  /\ Ask(u, [op |-> "mod", conf |-> c, copy |-> [entry[c] EXCEPT !.name = n, !.access = a]])
  /\ c \in Own(u) /\ ConfNum(n) \notin Numbers \ {c}
  /\ entry[c].name # n \/ entry[c].access # a
  /\ UNCHANGED << files, subs, history >>

(* Between open and closed the same list is read the other way round.      *)
ModStored(u) ==
  LET c == job[u].conf
      new == job[u].copy
      turned == (entry[c].access = "open") # (new.access = "open")
  IN
  /\ Answered(u, "mod") /\ entry' = [entry EXCEPT ![c] = new]
  /\ Decide([may EXCEPT ![c] = IF turned THEN (Users \ @) \cup {u} ELSE @])
  /\ UNCHANGED << confrc, subs, raced >>

Answer(u) == Answered(u, job[u].op) /\ job[u].op \in {"create", "rename", "link", "delete", "mod"}
             /\ UNCHANGED << files, subs, history >>      \* "no", or nothing

-----------------------------------------------------------------------------
(* In the current conference: whoever gets a right is taken off the list   *)
(* of those kept out, or put on that of those let in.  Its order and       *)
(* repetitions mean nothing.                                               *)
AddRights(u, c, v) ==
  /\ Gives(u, "rights") /\ c \in subs[u] /\ entry[c].creator = u /\ Right(c, v) > 0
  /\ confrc' = [confrc EXCEPT ![c] = IF entry[c].access = "open" THEN @ \ {v} ELSE @ \cup {v}]
  /\ Decide([may EXCEPT ![c] = @ \cup {v}])
  /\ UNCHANGED << entry, subs, session, menu, raced >>

SubRights(u, c, v) ==
  /\ Gives(u, "rights") /\ c \in subs[u] /\ entry[c].creator = u /\ v # u /\ Right(c, v) = 0
  /\ confrc' = [confrc EXCEPT ![c] = IF entry[c].access = "open" THEN @ \cup {v} ELSE @ \ {v}]
  /\ Decide([may EXCEPT ![c] = @ \ {v}])
  /\ UNCHANGED << entry, subs, session, menu, raced >>

Next ==
  \E u \in Users :
    \/ Login(u) \/ ForceUnsubscribe(u) \/ LoggedIn(u) \/ Leave(u)
    \/ \E n \in Names, a \in Accesses : CreateConf(u, n, a)
    \/ CreateStored(u) \/ RenameStored(u) \/ ComcStored(u) \/ DeleteConfirmed(u) \/ ModStored(u)
    \/ Answer(u)
    \/ \E c \in Numbers :
         \/ Subscribe(u, c) \/ Unsubscribe(u, c) \/ DeleteConf(u, c)
         \/ \E n \in Names : ChangeCname(u, c, n) \/ \E a \in Accesses : ModConf(u, c, n, a)
         \/ \E d \in Numbers : ChangeComc(u, c, d)
         \/ \E v \in Users : AddRights(u, c, v) \/ SubRights(u, c, v)

Spec == Init /\ [][Next]_vars

-----------------------------------------------------------------------------
(* A user who is logged in is only in conferences whose creators let him   *)
(* in: those closed to him since the last session he was taken out of at   *)
(* login (force_unsubscribe), unless the name of one begins another's and  *)
(* he was asked which one is meant, or its type was changed just then; the *)
(* lists of CONFRC_FILE say through every change of rights and of type     *)
(* what the creator wants.                                                 *)
Admitted ==
  \A u \in Users : pc[u] \in {"idle", "ask"} =>
    \A c \in subs[u] : u \in may[c] \/ c \in kept[u]

(* Comments go to a conference that exists: cmd_delete_conf refuses to     *)
(* delete one that others' comments go to, and only a link made while its  *)
(* question is on the screen escapes that.                                 *)
CommentsArrive == \A c \in Numbers \ raced : entry[c].comconf # 0 => Live(entry[c].comconf)
=============================================================================
