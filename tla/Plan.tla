-------------------------------- MODULE Plan --------------------------------
(***************************************************************************)
(* The file .plan in a user's Unix home, which SklaffKOM changes through a *)
(* child that is the user himself.  The text is edited in the file tmplapp *)
(* of his SklaffKOM home, which the other personal texts use too.          *)
(*                                                                         *)
(* The sessions are of one user, who also has a shell.                     *)
(***************************************************************************)
EXTENDS Integers, Sequences

CONSTANTS
  Sessions,
  None,
  Unknown,     \* nobody can say what the plan should be
  Texts,       \* what is typed, not ""
  Big,         \* one of them, longer than PLAN_MAX_SIZE
  MaxOps,      \* bound: commands
  MaxChanges   \* bound: changes in the shell

VARIABLES
  inode,       \* files that are or were .plan: [safe, text]
  at,          \* which of them is, 0 if none
  tmp,         \* the text in tmplapp, None if it is not there
  pc, job,     \* the sessions
  ops, changes,
  \* history:
  said         \* what was last given for the plan, by a session that could write it or in the shell

files == << inode, at >>
vars  == << files, tmp, pc, job, ops, changes, said >>

Theirs == "theirs"    \* in a link, or in a file of somebody else
NoJob  == [op |-> "none", text |-> "", typed |-> "", want |-> "", fd |-> 0, mixed |-> FALSE]

Init ==
  /\ inode = << >> /\ at = 0 /\ tmp = None
  /\ pc = [s \in Sessions |-> "idle"] /\ job = [s \in Sessions |-> NoJob]
  /\ ops = 0 /\ changes = 0 /\ said = None

Goto(s, p, j) == pc' = [pc EXCEPT ![s] = p] /\ job' = [job EXCEPT ![s] = j]
GiveUp(s) == Goto(s, "idle", NoJob)

PlanText == IF at = 0 THEN None ELSE inode[at].text

(* Mutant: the file is taken as it is.                                     *)
SafeAny(i) == TRUE
Safe(i)    == inode[i].safe

(* plan_open_safe: a file that is not there is made; one that is must be   *)
(* regular, the user's, and have no other name.                            *)
OpenSafe(s, p, j) ==
  IF at = 0
  THEN /\ inode' = Append(inode, [safe |-> TRUE, text |-> ""]) /\ at' = Len(inode) + 1
       /\ said' = "" /\ Goto(s, p, [j EXCEPT !.fd = Len(inode) + 1])
  ELSE /\ UNCHANGED << files, said >>
       /\ IF Safe(at) THEN Goto(s, p, [j EXCEPT !.fd = at]) ELSE GiveUp(s)

-----------------------------------------------------------------------------
(* cmd_mod_plan, with plan_ensure; the child may fail.                     *)
ModPlan(s) ==
  /\ pc[s] = "idle" /\ ops < MaxOps /\ ops' = ops + 1
  /\ OpenSafe(s, "read", [NoJob EXCEPT !.op = "plan"]) /\ UNCHANGED << tmp, changes >>

Others(s, where) == {r \in Sessions \ {s} : pc[r] \in where}

Read(s) ==
  /\ pc[s] = "read"
  /\ IF at # 0 /\ Safe(at) /\ PlanText # Big
     THEN Goto(s, "create", [job[s] EXCEPT !.text = PlanText,
                               !.want = IF Others(s, {"write"}) = {} THEN said ELSE Unknown])
     ELSE GiveUp(s)
  /\ UNCHANGED << files, tmp, ops, changes, said >>

(* cmd_mod_note and the like.                                              *)
ModOther(s) ==
  /\ pc[s] = "idle" /\ ops < MaxOps /\ ops' = ops + 1
  /\ Goto(s, "create", [NoJob EXCEPT !.op = "other", !.text = "note"])
  /\ UNCHANGED << files, tmp, changes, said >>

-----------------------------------------------------------------------------
(* The file for the editor is truncated when it is created, then written,  *)
(* and read by line_ed, which writes it again; then the command takes it.  *)
Editing == {"fill", "load", "edit", "take"}

Create(s) ==
  LET S == IF Others(s, Editing) = {} THEN {} ELSE {s} \cup Others(s, Editing) IN
  /\ pc[s] = "create" /\ tmp' = "" /\ pc' = [pc EXCEPT ![s] = "fill"]
  /\ job' = [r \in Sessions |-> IF r \in S THEN [job[r] EXCEPT !.mixed = TRUE] ELSE job[r]]
  /\ UNCHANGED << files, ops, changes, said >>

Fill(s) == pc[s] = "fill" /\ tmp' = job[s].text /\ Goto(s, "load", job[s])
           /\ UNCHANGED << files, ops, changes, said >>

Load(s) ==
  /\ pc[s] = "load" /\ Goto(s, "edit", [job[s] EXCEPT !.text = IF tmp = None THEN "" ELSE tmp])
  /\ UNCHANGED << files, tmp, ops, changes, said >>

Save(s) == \E t \in Texts :
  /\ pc[s] = "edit" /\ tmp' = t /\ Goto(s, "take", [job[s] EXCEPT !.typed = t])
  /\ UNCHANGED << files, ops, changes, said >>

Cancel(s) == pc[s] = "edit" /\ tmp' = None /\ GiveUp(s) /\ UNCHANGED << files, ops, changes, said >>

Take(s) ==
  /\ pc[s] = "take" /\ tmp' = None
  /\ IF tmp = None \/ job[s].op = "other" \/ tmp = Big
     THEN GiveUp(s) ELSE Goto(s, "open", [job[s] EXCEPT !.text = tmp])
  /\ UNCHANGED << files, ops, changes, said >>

-----------------------------------------------------------------------------
(* plan_write: the file is looked at, then truncated, then written.        *)
Open(s) == pc[s] = "open" /\ OpenSafe(s, "truncate", job[s]) /\ UNCHANGED << tmp, ops, changes >>

Truncate(s) ==
  /\ pc[s] = "truncate" /\ inode' = [inode EXCEPT ![job[s].fd].text = ""]
  /\ Goto(s, "write", job[s]) /\ UNCHANGED << at, tmp, ops, changes, said >>

(* Over what another session has written in between, the longer end stays. *)
Write(s) ==
  LET j == job[s]
      raced == inode[j.fd].text # "" \/ Others(s, {"truncate", "write"}) # {}
  IN
  /\ pc[s] = "write"
  /\ \E t \in IF inode[j.fd].text = "" THEN {j.text} ELSE {j.text, "torn"} :
       inode' = [inode EXCEPT ![j.fd].text = t]
  /\ said' = IF at # j.fd THEN said ELSE IF raced \/ j.mixed THEN Unknown ELSE j.typed
  /\ GiveUp(s) /\ UNCHANGED << at, tmp, ops, changes >>

(* exec_logout, or a child that fails: what was done stays.  A child that  *)
(* had truncated the plan leaves it so.                                    *)
Hangup(s) ==
  /\ pc[s] # "idle" /\ GiveUp(s)
  /\ said' = IF pc[s] = "write" /\ at = job[s].fd THEN Unknown ELSE said
  /\ UNCHANGED << files, tmp, ops, changes >>

-----------------------------------------------------------------------------
(* In the shell the user writes a new file, makes a link, or removes it.   *)
Change(f, text) ==
  /\ changes < MaxChanges /\ changes' = changes + 1
  /\ inode' = Append(inode, f) /\ at' = Len(inode) + 1 /\ said' = text
  /\ UNCHANGED << tmp, pc, job, ops >>

Rewrite == \E t \in Texts : Change([safe |-> TRUE, text |-> t], t)
Link    == Change([safe |-> FALSE, text |-> Theirs], Theirs)
Remove  == /\ at # 0 /\ changes < MaxChanges /\ changes' = changes + 1
           /\ at' = 0 /\ said' = None /\ UNCHANGED << inode, tmp, pc, job, ops >>

Next ==
  \/ \E s \in Sessions :
       \/ ModPlan(s) \/ Read(s) \/ ModOther(s) \/ Create(s) \/ Fill(s) \/ Load(s) \/ Save(s)
       \/ Cancel(s) \/ Take(s) \/ Open(s) \/ Truncate(s) \/ Write(s) \/ Hangup(s)
  \/ Rewrite \/ Link \/ Remove

Spec == Init /\ [][Next]_vars

-----------------------------------------------------------------------------
(* What is not the user's own file stays as it is; the editor shows the    *)
(* plan, and what is written is what was typed in it, unless two sessions  *)
(* of the user edit at a time;                                             *)
Untouched == \A i \in DOMAIN inode : inode[i].safe \/ inode[i].text = Theirs
Shown(s)  == pc[s] = "edit" /\ job[s].op = "plan" /\ job[s].want # Unknown => job[s].text = job[s].want
Typed(s)  == pc[s] \in {"open", "truncate", "write"} => job[s].text = job[s].typed

(* and the plan is what was given last, unless two sessions write it at a  *)
(* time or one is cut off after truncating it.                             *)
Resting  == \A s \in Sessions : pc[s] # "write"
PlanKept ==
  /\ Untouched
  /\ \A s \in Sessions : ~job[s].mixed => Shown(s) /\ Typed(s)
  /\ Resting /\ said # Unknown => PlanText = said
=============================================================================
