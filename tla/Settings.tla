------------------------------ MODULE Settings ------------------------------
(***************************************************************************)
(* The settings of users: the sections of SKLAFFRC_FILE in each home       *)
(* directory, after those of a file for everybody.  A command reads all of *)
(* them, lets the user edit one, and writes them all; sklaffadm does so    *)
(* with other users' settings, and the height of the terminal is set by    *)
(* replacing the file.                                                     *)
(*                                                                         *)
(* A line is the heading of a section or text; a setting is the lines of   *)
(* its section.  No line of a text looks like a heading.                   *)
(***************************************************************************)
EXTENDS Integers, Sequences, FiniteSets, SequencesExt

CONSTANTS
  Users,
  Admin,      \* sklaffadm
  Height,     \* what a terminal says its height is
  MaxOps      \* bound: commands

VARIABLES
  disk,       \* per user the lines of every inode of the file; the name leads to the last
  Flags,      \* per session the flags that are on
  Numlines,   \* per session the height of the screen
  pc, job,
  \* history:
  ops,
  given,      \* per user the settings that were made last
  chosen,     \* per session the heights that its user has set, and his terminal's
  lent,       \* sessions that have read the file of another user
  stale,      \* the settings a process has read are not, or not all, those of the file
  raced       \* users whose file was written from such a copy

session == << Flags, Numlines >>
process == << pc, job >>
history == << given, chosen, lent, stale, raced >>
vars    == << disk, session, process, ops, history >>

Procs    == Users \cup {Admin}
Keys     == {"note", "sig", "login", "blocklist", "info", "timeout", "flags", "paid", "Numlines"}
Order    == << "info", "note", "sig", "blocklist", "flags", "timeout", "paid", "login" >>
Charsets == {"utf8", "ibm"}
Unset    == << >>
NoJob    == [op |-> "none"]
Head1(k) == << "head", k >>
Line(x)  == << "text", x >>
IsHead(line) == line[1] = "head"
Headings(s) == {i \in DOMAIN s : IsHead(s[i])}

-----------------------------------------------------------------------------
(* The last section with a heading counts; the user's go before those for  *)
(* everybody.                                                              *)
Global == << Head1("flags"), Line({"say"}), Head1("sig"), Line("std") >>

Section(s, i) ==
  LET after == {j \in Headings(s) : j > i}
  IN  IF after = {} THEN SubSeq(s, i + 1, Len(s))
      ELSE SubSeq(s, i + 1, (CHOOSE j \in after : \A l \in after : j <= l) - 1)

ReadSections(rc, s) ==
  [k \in Keys |-> LET at == {i \in Headings(s) : s[i] = Head1(k)}
                  IN  IF at = {} THEN rc[k]
                      ELSE Section(s, CHOOSE i \in at : \A j \in at : j <= i)]

read_sklaffrc(u) == ReadSections(ReadSections([k \in Keys |-> Unset], Global), Last(disk[u]))

(* A height from 10 to 200 lines becomes that of the session, whose file   *)
(* ever it is from.                                                        *)
HeightIn(rc, old) == IF rc["Numlines"] = Unset \/ rc["Numlines"][1] = Line(0) THEN old
                     ELSE rc["Numlines"][1][2]

(* set_flags: a flag that is not there has its default.                    *)
DefaultFlags == {"say"}
FlagsIn(rc) == IF rc["flags"] = Unset THEN DefaultFlags ELSE rc["flags"][1][2]

(* Mutant: one setting was forgotten.                                      *)
WrittenUnpaid(rc) ==
  FoldLeft(LAMBDA s, k : IF rc[k] = Unset \/ k = "paid" THEN s ELSE s \o << Head1(k) >> \o rc[k],
           << >>, Order)

(* What is empty is left out; so is the height.                            *)
Written(rc) ==
  FoldLeft(LAMBDA s, k : IF rc[k] = Unset THEN s ELSE s \o << Head1(k) >> \o rc[k], << >>, Order)

(* rc_set_scalar puts one line in place of the line after the heading, and *)
(* an empty one after it; or it adds a section.                            *)
WithScalar(s, k, line) ==
  LET at == {i \in DOMAIN s : s[i] = Head1(k)}
      i  == CHOOSE i \in at : \A j \in at : i <= j
  IN  IF at = {} THEN s \o << Head1(k), line >>
      ELSE SubSeq(s, 1, i) \o << line, Line("") >> \o SubSeq(s, i + 2, Len(s))

-----------------------------------------------------------------------------
(* The files at login: a new one, or one with a note, a height and his     *)
(* login commands.                                                         *)
Starts == { << >>, << Head1("note"), Line("n"), Line(""), Head1("Numlines"), Line(30),
                      Head1("login"), Line("l") >> }

Init ==
  /\ \E f \in [Users -> Starts] :
       /\ disk = [u \in Users |-> << f[u] >>]
       /\ given = [u \in Users |-> ReadSections([k \in Keys |-> Unset], f[u])]
  /\ Flags = [u \in Users |-> FlagsIn(read_sklaffrc(u))]
  /\ Numlines = [u \in Users |-> HeightIn(read_sklaffrc(u), Height)]
  /\ chosen = [u \in Users |-> {Height, Numlines[u]}] /\ lent = {}
  /\ pc = [p \in Procs |-> "idle"] /\ job = [p \in Procs |-> NoJob] /\ ops = 0
  /\ stale = [p \in Procs |-> FALSE] /\ raced = {}

Goto(p, l, j) == pc' = [pc EXCEPT ![p] = l] /\ job' = [job EXCEPT ![p] = j]
Command(p) == pc[p] = "idle" /\ ops < MaxOps /\ ops' = ops + 1

At(p, u) == job[p].user = u /\ job[p].ino = Len(disk[u])

(* Somebody has emptied the file of u, and not yet written it.             *)
Emptied(u) == \E p \in Procs : pc[p] = "write" /\ At(p, u)
Outdated(u) == [p \in Procs |-> stale[p] \/ (job[p] # NoJob /\ job[p].user = u)]

(* The copy of u's settings in process p, with what is made of it.         *)
Read(p, u, l, j) ==
  /\ Goto(p, l, j @@ [user |-> u, rc |-> read_sklaffrc(u)])
  /\ stale' = [stale EXCEPT ![p] = Emptied(u)]
  /\ UNCHANGED << disk, given, chosen, lent, raced >>
ReadOwn(u, l, j) ==
  /\ Command(u) /\ Read(u, u, l, j)
  /\ Numlines' = [Numlines EXCEPT ![u] = HeightIn(read_sklaffrc(u), @)]

(* A user's own settings are edited for a while: one, or his town and his  *)
(* addresses, ...                                                          *)
Edit(u, k)     == ReadOwn(u, "edit", [op |-> "edit", key |-> k]) /\ UNCHANGED Flags
ModNote(u)     == Edit(u, "note")
ModSig(u)      == Edit(u, "sig")
ModLogin(u)    == Edit(u, "login")
BlockUser(u)   == Edit(u, "blocklist")
ModPinfo(u)    == Edit(u, "info")
ModTimeout(u)  == Edit(u, "timeout")

(* ... and saved, unless nothing was edited, or it is too long, or is not  *)
(* to be saved; but login commands and blocklist are written anyway.       *)
Save(u, v) ==
  /\ pc[u] = "edit" /\ job[u].op = "edit"
  /\ Goto(u, "create", [job[u] EXCEPT !.rc[job[u].key] = v])
  /\ UNCHANGED << disk, session, ops, history >>
Cancel(u) ==
  /\ pc[u] = "edit" /\ job[u].op = "edit"
  /\ IF job[u].key \in {"login", "blocklist"}
     THEN Goto(u, "create", [job[u] EXCEPT !.key = "none"]) ELSE Goto(u, "idle", NoJob)
  /\ UNCHANGED << disk, session, ops, history >>

(* save_flags writes those of the session.                                 *)
SaveFlags(u, on) ==
  /\ ReadOwn(u, "flags", [op |-> "edit", key |-> "flags"]) /\ Flags' = [Flags EXCEPT ![u] = on]
FormatFlags(u) ==
  /\ pc[u] = "flags" /\ Goto(u, "create", [job[u] EXCEPT !.rc["flags"] = << Line(Flags[u]) >>])
  /\ UNCHANGED << disk, session, ops, history >>

(* A character set is turned on when no other is.                          *)
TurnFlag(u, f, mode) ==
  /\ mode /\ f \in Charsets => Flags[u] \cap Charsets \subseteq {f}
  /\ SaveFlags(u, IF ~mode THEN Flags[u] \ {f}
                  ELSE IF f \in Charsets THEN (Flags[u] \cup {f}) \ {"sf7"} ELSE Flags[u] \cup {f})
SelectCharset(u, f) == SaveFlags(u, (Flags[u] \ (Charsets \cup {"sf7"})) \cup {f})

(* sklaffadm enable, disable, paydate.                                     *)
Administer(u, v) ==
  /\ Command(Admin) /\ Read(Admin, u, "paid", [op |-> "edit", key |-> "paid", value |-> v])
  /\ UNCHANGED session
SetPaid ==
  /\ pc[Admin] = "paid"
  /\ Goto(Admin, "create", [job[Admin] EXCEPT !.rc["paid"] = job[Admin].value])
  /\ UNCHANGED << disk, session, ops, history >>

(* The status of another user, or a message to him: his settings are read. *)
Look(u, v) ==
  /\ Command(u) /\ u # v
  /\ Numlines' = [Numlines EXCEPT ![u] = HeightIn(read_sklaffrc(v), @)]
  /\ lent' = lent \cup {u}
  /\ UNCHANGED << disk, Flags, process, given, chosen, stale, raced >>

(* write_sklaffrc: create_file empties the file ...                        *)
CreateFile(p) ==
  /\ pc[p] = "create"
  /\ LET u == job[p].user IN
     /\ disk' = [disk EXCEPT ![u][Len(disk[u])] = << >>]
     /\ Goto(p, "write", job[p] @@ [ino |-> Len(disk[u])])
     /\ stale' = [Outdated(u) EXCEPT ![p] = stale[p]]
  /\ UNCHANGED << session, ops, given, chosen, lent, raced >>

(* ... before it is locked and written.                                    *)
WriteFile(p) ==
  LET u == job[p].user
      whole == At(p, u) /\ ~stale[p]
  IN
  /\ pc[p] = "write" /\ disk' = [disk EXCEPT ![u][job[p].ino] = Written(job[p].rc)]
  /\ given' = [given EXCEPT ![u] = [k \in Keys |->
                 IF k = "Numlines" THEN Unset ELSE IF k = job[p].key THEN job[p].rc[k] ELSE given[u][k]]]
  /\ raced' = raced \cup IF whole THEN {} ELSE {u}
  /\ stale' = [Outdated(u) EXCEPT ![p] = FALSE]
  /\ Goto(p, "idle", NoJob) /\ UNCHANGED << session, ops, chosen, lent >>

(* cmd_mod_numlines: a height from the list is that of the session at      *)
(* once, one in the command's argument is not.  The file is read ...       *)
SetHeight(u, h, listed) ==
  /\ Command(u)
  /\ Goto(u, "edit", [op |-> "scalar", user |-> u, height |-> h,
                      out |-> WithScalar(Last(disk[u]), "Numlines", Line(h))])
  /\ Numlines' = [Numlines EXCEPT ![u] = IF listed /\ h # 0 THEN h ELSE @]
  /\ chosen' = [chosen EXCEPT ![u] = @ \cup {h}]
  /\ stale' = [stale EXCEPT ![u] = Emptied(u)]
  /\ UNCHANGED << disk, Flags, given, lent, raced >>

(* ... and replaced; 0 stands for the height of the terminal.              *)
RenameFile(u) ==
  /\ pc[u] = "edit" /\ job[u].op = "scalar"
  /\ disk' = [disk EXCEPT ![u] = Append(@, job[u].out)]
  /\ Numlines' = [Numlines EXCEPT ![u] = IF job[u].height = 0 THEN Height ELSE @]
  /\ given' = [given EXCEPT ![u]["Numlines"] = << Line(job[u].height) >>]
  /\ raced' = raced \cup IF stale[u] THEN {u} ELSE {}
  /\ stale' = [Outdated(u) EXCEPT ![u] = FALSE]
  /\ Goto(u, "idle", NoJob) /\ UNCHANGED << Flags, ops, chosen, lent >>

(* The line is hung up, or the program killed.                             *)
Die(p) ==
  /\ pc[p] \notin {"idle", "out"} /\ Goto(p, IF p = Admin THEN "idle" ELSE "out", NoJob)
  /\ raced' = raced \cup IF pc[p] = "write" /\ At(p, job[p].user)
                         THEN {job[p].user} ELSE {}
  /\ stale' = [stale EXCEPT ![p] = FALSE]
  /\ UNCHANGED << disk, session, ops, given, chosen, lent >>

(* A new login reads the flags and the height again.                       *)
Login(u) ==
  /\ pc[u] \in {"idle", "out"} /\ ops < MaxOps /\ ops' = ops + 1 /\ Goto(u, "idle", NoJob)
  /\ Flags' = [Flags EXCEPT ![u] = FlagsIn(read_sklaffrc(u))]
  /\ Numlines' = [Numlines EXCEPT ![u] = HeightIn(read_sklaffrc(u), Height)]
  /\ raced' = raced \cup IF Emptied(u) THEN {u} ELSE {}
  /\ UNCHANGED << disk, given, chosen, lent, stale >>

Next ==
  \/ \E u \in Users :
       \/ ModNote(u) \/ ModSig(u) \/ ModLogin(u) \/ BlockUser(u) \/ ModPinfo(u) \/ ModTimeout(u)
       \/ Cancel(u) \/ \E v \in {Unset, << Line("a"), Line("") >>} : Save(u, v)
       \/ \E f \in {"say", "ibm"}, mode \in BOOLEAN : TurnFlag(u, f, mode)
       \/ \E f \in {"utf8", "sf7"} : SelectCharset(u, f)
       \/ FormatFlags(u) \/ Login(u) \/ Administer(u, << Line("yes") >>)
       \/ \E v \in Users : Look(u, v)
       \/ \E h \in {0, 20}, listed \in BOOLEAN : SetHeight(u, h, listed)
       \/ RenameFile(u)
  \/ SetPaid
  \/ \E p \in Procs : CreateFile(p) \/ WriteFile(p) \/ Die(p)

Spec == Init /\ [][Next]_vars

-----------------------------------------------------------------------------
Shown(v, k) == IF v # Unset THEN v ELSE ReadSections([l \in Keys |-> Unset], Global)[k]

(* read_sklaffrc, write_sklaffrc, rc_set_scalar: every setting is read as  *)
(* it was made last, or, where there is none, as it is for everybody; also *)
(* when others change other settings, unless two rewrite the file at a     *)
(* time or one dies while it is empty.  A height is gone with the next     *)
(* change of any other setting.  The height of a session is one that its   *)
(* user or terminal gave, unless another user's settings were read.        *)
SettingsKept ==
  /\ \A u \in Users : /\ Cardinality(Flags[u] \cap (Charsets \cup {"sf7"})) <= 1
                      /\ given[u]["flags"] # Unset /\ pc[u] = "idle" /\ u \notin raced /\ ~Emptied(u)
                           => FlagsIn(read_sklaffrc(u)) = Flags[u]
  /\ \A u \in Users \ lent : Numlines[u] \in chosen[u]
  /\ \A u \in Users \ raced : ~Emptied(u) =>
       /\ \A k \in Keys \ {"Numlines"} : read_sklaffrc(u)[k] = Shown(given[u][k], k)
       /\ given[u]["Numlines"] # Unset => read_sklaffrc(u)["Numlines"][1] = given[u]["Numlines"][1]

=============================================================================
