---------------------------- MODULE PartsProofs ----------------------------
(***************************************************************************)
(* The smaller parts, each for every value of its constants: the plan of a *)
(* user (Plan), the purging of old texts (Purge), who may be in which      *)
(* conference (Conferences), the files of a conference (Files) and the     *)
(* replies to a survey (Survey).  A part is an instance with the           *)
(* parameters of its module, and its theorems say nothing of the others.   *)
(***************************************************************************)
EXTENDS Integers, Sequences, SequenceTheorems, FiniteSets, FiniteSetTheorems, WellFoundedInduction, TLAPS

CONSTANTS Sessions, None, Unknown, Texts, Big, MaxOps, MaxChanges, Worlds, Keeps, MaxText, MaxTime,
          Users, Nobody, Names, Founded, MaxConf, Said, MaxShown
VARIABLES inode, at, tmp, pc, job, ops, changes, said, texts, last_text, life, mail, now, begun,
          entry, confrc, subs, menu, may, kept, raced,
          stored, hears, avail, told, excused, uneven, failed,
          result, taken, lock, over, report, shown, saved, due, again

Plan        == INSTANCE Plan
Purge       == INSTANCE Purge
Conferences == INSTANCE Conferences
Files       == INSTANCE Files
Survey      == INSTANCE Survey

-----------------------------------------------------------------------------
AllTexts == Texts \cup {"", Plan!Theirs, "note", "torn"}

PlanPlaces == {"idle", "read", "create", "fill", "load", "edit", "take", "open", "truncate", "write"}
PlanFiles  == [safe : BOOLEAN, text : AllTexts]
PlanJobs   == [op : {"none", "plan", "other"}, text : AllTexts, typed : AllTexts,
           want : AllTexts \cup {None, Unknown}, fd : Nat, mixed : BOOLEAN]

PlanTypes ==
  /\ inode \in Seq(PlanFiles) /\ at \in 0 .. Len(inode)
  /\ tmp \in AllTexts \cup {None} /\ said \in AllTexts \cup {None, Unknown}
  /\ pc \in [Sessions -> PlanPlaces] /\ job \in [Sessions -> PlanJobs]

(* Who is past plan_open_safe has a file of the user open.                 *)
Writing == {"truncate", "write"}
OwnFile(s) == pc[s] \in Writing => job[s].fd \in 1 .. Len(inode) /\ inode[job[s].fd].safe

(* Who edits and was not disturbed is the only one to edit, so that        *)
(* tmplapp has what he put there.                                          *)
Alone(s) == pc[s] \in Plan!Editing /\ ~job[s].mixed => \A r \in Sessions \ {s} : pc[r] \notin Plan!Editing
InTmp(s) == ~job[s].mixed => /\ pc[s] = "load" => tmp = job[s].text
                             /\ pc[s] = "take" => tmp = job[s].typed

(* The text is the one that was read, until the user changes it.           *)
Before  == {"create", "fill", "load", "edit"}
AsRead(s) ==
  /\ pc[s] \in {"read", "create"} => ~job[s].mixed
  /\ pc[s] \in Before /\ job[s].op = "plan" /\ job[s].want # Unknown /\ ~job[s].mixed =>
       job[s].text = job[s].want

(* Between truncating and writing nothing is known of the plan.            *)
Rewritten(s) == pc[s] = "write" /\ job[s].fd = at
Given == (\A s \in Sessions : ~Rewritten(s)) /\ said # Unknown => Plan!PlanText = said

Session(s) == OwnFile(s) /\ Alone(s) /\ InTmp(s) /\ AsRead(s) /\ (~job[s].mixed => Plan!Typed(s))

(* The inductive invariant.                                                *)
PlanInv == PlanTypes /\ Plan!Untouched /\ (\A s \in Sessions : Session(s)) /\ Given

(* Files get more, and none comes to be somebody else's.                   *)
MoreFiles == /\ Len(inode) <= Len(inode')
             /\ \A i \in 1 .. Len(inode) : inode[i].safe => inode'[i].safe

-----------------------------------------------------------------------------
LEMMA Moves ==
  ASSUME PlanTypes, NEW s \in Sessions, NEW p \in PlanPlaces, NEW j \in PlanJobs, Plan!Goto(s, p, j)
  PROVE  /\ pc' \in [Sessions -> PlanPlaces] /\ job' \in [Sessions -> PlanJobs]
         /\ pc'[s] = p /\ job'[s] = j
         /\ \A r \in Sessions \ {s} : pc'[r] = pc[r] /\ job'[r] = job[r]
BY DEF PlanTypes, Plan!Goto

(* What a session does is nothing to the others, unless it begins to edit. *)
LEMMA OthersKeep ==
  ASSUME PlanInv, NEW s \in Sessions, NEW p \in PlanPlaces, NEW j \in PlanJobs, Plan!Goto(s, p, j), MoreFiles,
         inode' \in Seq(PlanFiles),
         p \in Plan!Editing => pc[s] \in Plan!Editing, pc[s] \in Plan!Editing \/ UNCHANGED tmp
  PROVE  \A r \in Sessions \ {s} : Session(r)'
<1> SUFFICES ASSUME NEW r \in Sessions \ {s} PROVE Session(r)'
  OBVIOUS
<1>1. /\ pc'[s] = p /\ \A q \in Sessions \ {s} : pc'[q] = pc[q]
      /\ pc'[r] = pc[r] /\ job'[r] = job[r]
  BY Moves DEF PlanInv
<1>2. Session(r) /\ job[r] \in PlanJobs /\ inode \in Seq(PlanFiles)
  BY DEF PlanInv, PlanTypes
<1>3. OwnFile(r)'
  BY <1>1, <1>2 DEF Session, OwnFile, MoreFiles, PlanJobs
<1>4. Alone(r)'
  BY <1>1, <1>2 DEF Session, Alone
<1>5. InTmp(r)'
  BY <1>1, <1>2 DEF Session, Alone, InTmp, Plan!Editing
<1>6. AsRead(r)' /\ (~job[r].mixed => Plan!Typed(r))'
  BY <1>1, <1>2 DEF Session, AsRead, Plan!Typed
<1> QED BY <1>3, <1>4, <1>5, <1>6 DEF Session

(* A step that neither writes a plan nor opens one.                        *)
LEMMA FilesStay ==
  ASSUME PlanInv, NEW s \in Sessions, NEW p \in PlanPlaces, NEW j \in PlanJobs, Plan!Goto(s, p, j),
         UNCHANGED << Plan!files, said >>, pc[s] \notin Writing, p # "write",
         p \in Plan!Editing => pc[s] \in Plan!Editing, pc[s] \in Plan!Editing \/ UNCHANGED tmp,
         tmp' \in AllTexts \cup {None}, Session(s)'
  PROVE  PlanInv'
<1>0. inode' = inode /\ at' = at /\ said' = said
  BY DEF Plan!files
<1>1. \A r \in Sessions \ {s} : Session(r)'
  <2>1. Len(inode) \in Nat /\ inode' \in Seq(PlanFiles)
    BY <1>0 DEF PlanInv, PlanTypes
  <2>2. MoreFiles
    BY <1>0, <2>1 DEF MoreFiles
  <2> QED BY <2>1, <2>2, OthersKeep
<1>2. PlanTypes'
  BY Moves DEF PlanInv, PlanTypes, Plan!files
<1>3. Given'
  BY Moves DEF PlanInv, Given, Rewritten, Plan!PlanText, Plan!files, Writing
<1> QED BY <1>1, <1>2, <1>3 DEF PlanInv, Plan!Untouched, Plan!files

LEMMA JobsAre ==
  ASSUME NEW j \in PlanJobs
  PROVE  /\ \A t \in AllTexts, w \in AllTexts \cup {None, Unknown} :
              [j EXCEPT !.text = t, !.want = w] \in PlanJobs
         /\ \A t \in AllTexts : [j EXCEPT !.text = t] \in PlanJobs /\ [j EXCEPT !.typed = t] \in PlanJobs
         /\ \A i \in Nat : [j EXCEPT !.fd = i] \in PlanJobs
BY DEF PlanJobs

LEMMA FilesAre ==
  ASSUME PlanTypes
  PROVE  /\ Len(inode) \in Nat /\ DOMAIN inode = 1 .. Len(inode) /\ at \in Nat
         /\ \A i \in 1 .. Len(inode) : inode[i] \in PlanFiles
         /\ at # 0 => at \in 1 .. Len(inode)
BY ElementOfSeq, LenProperties DEF PlanTypes

LEMMA NumbersAre == ASSUME PlanTypes PROVE 0 \notin 1 .. Len(inode)
BY FilesAre

(* A new file.                                                             *)
LEMMA NewFile ==
  ASSUME PlanTypes, NEW f \in PlanFiles, inode' = Append(inode, f)
  PROVE  /\ inode' \in Seq(PlanFiles) /\ Len(inode') = Len(inode) + 1 /\ MoreFiles
         /\ DOMAIN inode' = 1 .. Len(inode) + 1 /\ inode'[Len(inode) + 1] = f
         /\ \A i \in 1 .. Len(inode) : inode'[i] = inode[i]
<1>1. inode \in Seq(PlanFiles) /\ Len(inode) \in Nat
  BY FilesAre DEF PlanTypes
<1>2. /\ inode' \in Seq(PlanFiles) /\ Len(inode') = Len(inode) + 1
      /\ inode'[Len(inode) + 1] = f
      /\ \A i \in 1 .. Len(inode) : inode'[i] = inode[i]
  BY <1>1, AppendProperties
<1> QED BY <1>1, <1>2, LenProperties DEF MoreFiles

LEMMA NoJobIs == Plan!NoJob \in PlanJobs /\ [Plan!NoJob EXCEPT !.op = "plan"] \in PlanJobs
                 /\ [Plan!NoJob EXCEPT !.op = "other", !.text = "note"] \in PlanJobs
BY DEF Plan!NoJob, PlanJobs, AllTexts

(* Whoever gives up has nothing left to keep.                              *)
LEMMA AtRest ==
  ASSUME NEW s \in Sessions, pc'[s] = "idle"
  PROVE  Session(s)'
BY DEF Session, OwnFile, Alone, InTmp, AsRead, Plan!Typed, Plan!Editing, Before, Writing

(* The plan is made if there is none.                                      *)
LEMMA Opens ==
  ASSUME PlanInv, NEW s \in Sessions, NEW p \in PlanPlaces \ ({"write"} \cup Plan!Editing), NEW j \in PlanJobs,
         Plan!OpenSafe(s, p, j), UNCHANGED tmp, p \notin Before, pc[s] # "write",
         p \in Writing /\ ~j.mixed => j.text = j.typed, p # "open", p = "read" => ~j.mixed
  PROVE  PlanInv'
<1>1. /\ inode \in Seq(PlanFiles) /\ at \in 0 .. Len(inode) /\ at \in Nat /\ Len(inode) \in Nat
      /\ DOMAIN inode = 1 .. Len(inode) /\ at # 0 => at \in 1 .. Len(inode)
  BY FilesAre DEF PlanInv, PlanTypes
<1>2. CASE at = 0
  <2> DEFINE f == [safe |-> TRUE, text |-> ""]
             n == Len(inode) + 1
             k == [j EXCEPT !.fd = n]
  <2>1. inode' = Append(inode, f) /\ at' = n /\ said' = "" /\ Plan!Goto(s, p, k)
    BY <1>2 DEF Plan!OpenSafe
  <2>2. f \in PlanFiles /\ f.safe /\ f.text = ""
    BY DEF PlanFiles, AllTexts
  <2>3. n \in Nat \ {0} /\ n \in 1 .. n /\ n \in 0 .. n /\ \A i \in 1 .. n : i \in 1 .. Len(inode) \/ i = n
    BY <1>1
  <2>4. k \in PlanJobs /\ k.fd = n /\ k.mixed = j.mixed /\ k.text = j.text /\ k.typed = j.typed
    BY <2>3 DEF PlanJobs
  <2> HIDE DEF f, k
  <2>5. /\ inode' \in Seq(PlanFiles) /\ Len(inode') = n /\ MoreFiles
        /\ DOMAIN inode' = 1 .. n /\ inode'[n] = f
        /\ \A i \in 1 .. Len(inode) : inode'[i] = inode[i]
    BY <2>1, <2>2, NewFile DEF PlanInv
  <2>6. \A r \in Sessions \ {s} : Session(r)'
    BY <2>1, <2>4, <2>5, OthersKeep
  <2>7. /\ pc' \in [Sessions -> PlanPlaces] /\ job' \in [Sessions -> PlanJobs]
        /\ pc'[s] = p /\ job'[s] = k
    BY <2>1, <2>4, Moves DEF PlanInv
  <2>8. PlanTypes'
    BY <2>1, <2>3, <2>5, <2>7 DEF PlanInv, PlanTypes, AllTexts
  <2>9. Session(s)'
    <3>1. OwnFile(s)'
      BY <2>2, <2>3, <2>4, <2>5, <2>7 DEF OwnFile
    <3>2. Alone(s)' /\ InTmp(s)' /\ AsRead(s)'
      BY <2>4, <2>7 DEF Alone, InTmp, AsRead, Before, Plan!Editing
    <3>3. (~job[s].mixed => Plan!Typed(s))'
      BY <2>4, <2>7 DEF Plan!Typed, Writing
    <3> QED BY <3>1, <3>2, <3>3 DEF Session
  <2>10. Plan!Untouched'
    <3> SUFFICES ASSUME NEW i \in 1 .. n PROVE inode'[i].safe \/ inode'[i].text = Plan!Theirs
      BY <2>5 DEF Plan!Untouched
    <3>1. CASE i = n
      BY <2>2, <2>5, <3>1
    <3>2. CASE i \in 1 .. Len(inode)
      BY <1>1, <2>5, <3>2 DEF PlanInv, Plan!Untouched
    <3> QED BY <2>3, <3>1, <3>2
  <2>11. Given'
    BY <1>1, <2>1, <2>2, <2>3, <2>5 DEF Given, Plan!PlanText
  <2> QED BY <2>6, <2>8, <2>9, <2>10, <2>11 DEF PlanInv
<1>3. CASE at # 0 /\ Plan!Safe(at)
  <2>1. UNCHANGED << Plan!files, said >> /\ Plan!Goto(s, p, [j EXCEPT !.fd = at])
    BY <1>3 DEF Plan!OpenSafe
  <2>2. [j EXCEPT !.fd = at] \in PlanJobs
    BY <1>1, JobsAre
  <2>3. /\ pc'[s] = p /\ job'[s] = [j EXCEPT !.fd = at] /\ job'[s].mixed = j.mixed
    BY <2>1, <2>2, Moves DEF PlanInv, PlanJobs
  <2>4. Session(s)'
    <3>1. OwnFile(s)'
      BY <1>1, <1>3, <2>1, <2>3 DEF OwnFile, PlanJobs, Plan!Safe, Plan!files
    <3>2. Alone(s)' /\ InTmp(s)' /\ AsRead(s)'
      BY <2>3 DEF Alone, InTmp, AsRead, Before, Plan!Editing
    <3>3. (~job[s].mixed => Plan!Typed(s))'
      BY <2>3 DEF Plan!Typed, PlanJobs, Writing
    <3> QED BY <3>1, <3>2, <3>3 DEF Session
  <2>5. at' = at /\ inode' = inode /\ said' = said
    BY <2>1 DEF Plan!files
  <2>6. \A r \in Sessions \ {s} : Session(r)'
    BY <1>1, <2>1, <2>2, <2>5, OthersKeep DEF MoreFiles
  <2>7. PlanTypes'
    BY <2>1, <2>2, <2>5, Moves DEF PlanInv, PlanTypes
  <2>8. Given'
    BY <2>1, <2>2, <2>5, Moves DEF PlanInv, Given, Rewritten, Plan!PlanText
  <2> QED BY <2>4, <2>5, <2>6, <2>7, <2>8 DEF PlanInv, Plan!Untouched
<1>4. CASE at # 0 /\ ~Plan!Safe(at)
  <2>1. UNCHANGED << Plan!files, said >> /\ Plan!Goto(s, "idle", Plan!NoJob)
    BY <1>4 DEF Plan!OpenSafe, Plan!GiveUp
  <2>2. pc'[s] = "idle" /\ Session(s)'
    BY <2>1, NoJobIs, Moves, AtRest DEF PlanInv, PlanPlaces
  <2>3. at' = at /\ inode' = inode /\ said' = said /\ "idle" \in PlanPlaces \ Plan!Editing
    BY <2>1 DEF Plan!files, PlanPlaces, Plan!Editing
  <2>4. \A r \in Sessions \ {s} : Session(r)'
    BY <1>1, <2>1, <2>3, NoJobIs, OthersKeep DEF MoreFiles
  <2>5. PlanTypes'
    BY <2>1, <2>3, NoJobIs, Moves DEF PlanInv, PlanTypes
  <2>6. Given'
    BY <2>1, <2>3, NoJobIs, Moves DEF PlanInv, Given, Rewritten, Plan!PlanText
  <2> QED BY <2>2, <2>3, <2>4, <2>5, <2>6 DEF PlanInv, Plan!Untouched
<1> QED BY <1>2, <1>3, <1>4

-----------------------------------------------------------------------------
LEMMA PlanBegins == Plan!Init => PlanInv
<1> SUFFICES ASSUME Plan!Init PROVE PlanInv
  OBVIOUS
<1>1. PlanTypes
  BY EmptySeq, NoJobIs DEF Plan!Init, PlanTypes, PlanPlaces, PlanFiles
<1>2. \A s \in Sessions : Session(s)
  BY DEF Plan!Init, Session, OwnFile, Alone, InTmp, AsRead, Plan!Typed, Plan!Editing, Before, Writing
<1>3. Plan!Untouched /\ Given
  BY EmptySeq DEF Plan!Init, Plan!Untouched, Given, Plan!PlanText
<1> QED BY <1>1, <1>2, <1>3 DEF PlanInv

(* The commands until the editor begins.                                   *)
LEMMA ModPlanKeeps ==
  ASSUME PlanInv, NEW s \in Sessions, Plan!ModPlan(s)
  PROVE  PlanInv'
<1> DEFINE j == [Plan!NoJob EXCEPT !.op = "plan"]
<1>1. j \in PlanJobs /\ ~j.mixed /\ "read" \in PlanPlaces \ ({"write"} \cup Plan!Editing) /\ "read" \notin Before \cup Writing
  BY NoJobIs DEF Plan!NoJob, PlanPlaces, Plan!Editing, Before, Writing
<1>2. Plan!OpenSafe(s, "read", j) /\ UNCHANGED tmp /\ pc[s] # "write"
  BY DEF Plan!ModPlan
<1> QED BY <1>1, <1>2, Opens

LEMMA OpenKeeps ==
  ASSUME PlanInv, NEW s \in Sessions, Plan!Open(s)
  PROVE  PlanInv'
<1>1. /\ job[s] \in PlanJobs /\ "truncate" \in PlanPlaces \ ({"write"} \cup Plan!Editing)
      /\ "truncate" \notin Before /\ (~job[s].mixed => Plan!Typed(s))
  BY DEF PlanInv, PlanTypes, Session, PlanPlaces, Plan!Editing, Before
<1>2. Plan!OpenSafe(s, "truncate", job[s]) /\ UNCHANGED tmp /\ pc[s] = "open"
  BY DEF Plan!Open
<1>3. ~job[s].mixed => job[s].text = job[s].typed
  BY <1>1, <1>2 DEF Plan!Typed
<1> QED BY <1>1, <1>2, <1>3, Opens

LEMMA GivesUp ==
  ASSUME PlanInv, NEW s \in Sessions, Plan!GiveUp(s), UNCHANGED << Plan!files, said >>, pc[s] \notin Writing,
         pc[s] \in Plan!Editing \/ UNCHANGED tmp, tmp' \in AllTexts \cup {None}
  PROVE  PlanInv'
<1>1. "idle" \in PlanPlaces \ Plan!Editing /\ "idle" # "write" /\ Plan!NoJob \in PlanJobs /\ Plan!Goto(s, "idle", Plan!NoJob)
  BY NoJobIs DEF PlanPlaces, Plan!Editing, Plan!GiveUp
<1>2. Session(s)'
  BY <1>1, Moves, AtRest DEF PlanInv
<1> QED BY <1>1, <1>2, FilesStay

LEMMA ReadKeeps ==
  ASSUME PlanInv, NEW s \in Sessions, Plan!Read(s)
  PROVE  PlanInv'
<1>1. UNCHANGED << Plan!files, said >> /\ UNCHANGED tmp /\ tmp \in AllTexts \cup {None} /\ pc[s] = "read"
  BY DEF Plan!Read, PlanInv, PlanTypes
<1>2. CASE at # 0 /\ Plan!Safe(at) /\ Plan!PlanText # Big
  <2> DEFINE w == IF Plan!Others(s, {"write"}) = {} THEN said ELSE Unknown
             j == [job[s] EXCEPT !.text = Plan!PlanText, !.want = w]
  <2>1. Plan!Goto(s, "create", j)
    BY <1>2 DEF Plan!Read
  <2>2. Plan!PlanText \in AllTexts
    <3>1. inode[at] \in PlanFiles
      BY <1>2, FilesAre DEF PlanInv
    <3> QED BY <1>2, <3>1 DEF Plan!PlanText, PlanFiles
  <2>3. w \in AllTexts \cup {None, Unknown} /\ job[s] \in PlanJobs
    BY DEF PlanInv, PlanTypes
  <2>4. j \in PlanJobs /\ j.text = Plan!PlanText /\ j.want = w /\ j.mixed = job[s].mixed
    BY <2>2, <2>3, JobsAre DEF PlanJobs
  <2>5. w # Unknown => Plan!PlanText = w
    BY <1>1 DEF PlanInv, Given, Rewritten, Plan!Others
  <2> HIDE DEF j, w
  <2>6. pc'[s] = "create" /\ job'[s] = j
    BY <2>1, <2>4, Moves DEF PlanInv, PlanPlaces
  <2>7. Session(s)'
    BY <1>1, <2>4, <2>5, <2>6 DEF PlanInv, Session, OwnFile, Alone, InTmp, AsRead, Plan!Typed, Plan!Editing, Before, Writing
  <2> QED BY <1>1, <2>1, <2>4, <2>7, FilesStay DEF PlanPlaces, Plan!Editing, Writing
<1>3. CASE ~(at # 0 /\ Plan!Safe(at) /\ Plan!PlanText # Big)
  <2>1. Plan!GiveUp(s)
    BY <1>3 DEF Plan!Read
  <2> QED BY <1>1, <2>1, GivesUp DEF Writing
<1> QED BY <1>2, <1>3

LEMMA ModOtherKeeps ==
  ASSUME PlanInv, NEW s \in Sessions, Plan!ModOther(s)
  PROVE  PlanInv'
<1> DEFINE j == [Plan!NoJob EXCEPT !.op = "other", !.text = "note"]
<1>1. /\ UNCHANGED << Plan!files, said >> /\ UNCHANGED tmp /\ tmp \in AllTexts \cup {None} /\ pc[s] = "idle"
      /\ Plan!Goto(s, "create", j)
  BY DEF Plan!ModOther, PlanInv, PlanTypes
<1>2. j \in PlanJobs /\ j.op = "other" /\ ~j.mixed
  BY NoJobIs DEF Plan!NoJob
<1> HIDE DEF j
<1>3. pc'[s] = "create" /\ job'[s] = j
  BY <1>1, <1>2, Moves DEF PlanInv, PlanPlaces
<1>4. Session(s)'
  BY <1>2, <1>3 DEF Session, OwnFile, Alone, InTmp, AsRead, Plan!Typed, Plan!Editing, Before, Writing
<1> QED BY <1>1, <1>2, <1>4, FilesStay DEF PlanPlaces, Plan!Editing, Writing

-----------------------------------------------------------------------------
(* The editor.  Who begins disturbs those who edit, and is disturbed.      *)
LEMMA CreateKeeps ==
  ASSUME PlanInv, NEW s \in Sessions, Plan!Create(s)
  PROVE  PlanInv'
<1> DEFINE S == IF Plan!Others(s, Plan!Editing) = {} THEN {} ELSE {s} \cup Plan!Others(s, Plan!Editing)
<1>1. /\ pc[s] = "create" /\ tmp' = "" /\ pc' = [pc EXCEPT ![s] = "fill"]
      /\ job' = [r \in Sessions |-> IF r \in S THEN [job[r] EXCEPT !.mixed = TRUE] ELSE job[r]]
      /\ inode' = inode /\ at' = at /\ said' = said
  BY DEF Plan!Create, Plan!files
<1>2. /\ pc' \in [Sessions -> PlanPlaces] /\ pc'[s] = "fill"
      /\ \A r \in Sessions \ {s} : pc'[r] = pc[r]
  BY <1>1 DEF PlanInv, PlanTypes, PlanPlaces
<1>3. \A r \in Sessions :
        /\ job'[r] \in PlanJobs
        /\ job'[r].op = job[r].op /\ job'[r].text = job[r].text /\ job'[r].typed = job[r].typed
        /\ job'[r].want = job[r].want /\ job'[r].fd = job[r].fd
        /\ job'[r].mixed = (r \in S \/ job[r].mixed)
  BY <1>1 DEF PlanInv, PlanTypes, PlanJobs
<1>4. PlanTypes'
  <2>1. job' \in [Sessions -> PlanJobs]
    BY <1>1, <1>3
  <2> QED BY <1>1, <1>2, <2>1 DEF PlanInv, PlanTypes, AllTexts
<1>5. ASSUME NEW r \in Sessions PROVE Session(r)'
  <2>1. Session(r)
    BY DEF PlanInv
  <2>2. OwnFile(r)'
    BY <1>1, <1>2, <1>3, <2>1 DEF Session, OwnFile, Writing
  <2>3. Alone(r)'
    BY <1>1, <1>2, <1>3, <2>1 DEF Session, Alone, Plan!Others, Plan!Editing
  <2>4. InTmp(r)'
    BY <1>1, <1>2, <1>3, <2>1 DEF Session, InTmp, Plan!Others, Plan!Editing
  <2>5. AsRead(r)'
    <3>1. pc'[r] \in {"read", "create"} => pc[r] = pc'[r] /\ r \notin S
      BY <1>1, <1>2 DEF Plan!Others, Plan!Editing
    <3>2. pc'[r] \in Before => pc[r] \in Before
      BY <1>1, <1>2 DEF Before
    <3>3. job'[r].mixed <=> r \in S \/ job[r].mixed
      BY <1>3
    <3> QED BY <1>3, <2>1, <3>1, <3>2, <3>3 DEF Session, AsRead
  <2>6. (~job[r].mixed => Plan!Typed(r))'
    BY <1>1, <1>2, <1>3, <2>1 DEF Session, Plan!Typed
  <2> QED BY <2>2, <2>3, <2>4, <2>5, <2>6 DEF Session
<1>6. Plan!Untouched' /\ Given'
  BY <1>1, <1>2, <1>3 DEF PlanInv, Plan!Untouched, Given, Rewritten, Plan!PlanText
<1> QED BY <1>4, <1>5, <1>6 DEF PlanInv

LEMMA FillKeeps ==
  ASSUME PlanInv, NEW s \in Sessions, Plan!Fill(s)
  PROVE  PlanInv'
<1>1. /\ UNCHANGED << Plan!files, said >> /\ pc[s] = "fill" /\ tmp' = job[s].text /\ Plan!Goto(s, "load", job[s])
      /\ job[s] \in PlanJobs /\ Session(s)
  BY DEF Plan!Fill, PlanInv, PlanTypes
<1>2. pc'[s] = "load" /\ job'[s] = job[s] /\ \A r \in Sessions \ {s} : pc'[r] = pc[r]
  BY <1>1, Moves DEF PlanInv, PlanPlaces
<1>3. Session(s)'
  BY <1>1, <1>2 DEF Session, OwnFile, Alone, InTmp, AsRead, Plan!Typed, Plan!Editing, Before, Writing
<1> QED BY <1>1, <1>3, FilesStay DEF PlanPlaces, Plan!Editing, Writing, PlanJobs

LEMMA LoadKeeps ==
  ASSUME PlanInv, None \notin AllTexts, NEW s \in Sessions, Plan!Load(s)
  PROVE  PlanInv'
<1> DEFINE t == IF tmp = None THEN "" ELSE tmp
           j == [job[s] EXCEPT !.text = t]
<1>1. /\ UNCHANGED << Plan!files, said >> /\ UNCHANGED tmp /\ pc[s] = "load" /\ Plan!Goto(s, "edit", j)
      /\ job[s] \in PlanJobs /\ Session(s) /\ tmp \in AllTexts \cup {None} /\ t \in AllTexts
  BY DEF Plan!Load, PlanInv, PlanTypes, AllTexts
<1>2. /\ j \in PlanJobs /\ j.text = t /\ j.typed = job[s].typed /\ j.mixed = job[s].mixed
      /\ j.op = job[s].op /\ j.want = job[s].want /\ job[s].text \in AllTexts
  BY <1>1, JobsAre DEF PlanJobs
<1>3. ~j.mixed => t = job[s].text
  BY <1>1, <1>2 DEF Session, InTmp
<1> HIDE DEF j, t
<1>4. pc'[s] = "edit" /\ job'[s] = j /\ \A r \in Sessions \ {s} : pc'[r] = pc[r]
  BY <1>1, <1>2, Moves DEF PlanInv, PlanPlaces
<1>5. Session(s)'
  BY <1>1, <1>2, <1>3, <1>4 DEF Session, OwnFile, Alone, InTmp, AsRead, Plan!Typed, Plan!Editing, Before, Writing
<1> QED BY <1>1, <1>2, <1>5, FilesStay DEF PlanPlaces, Plan!Editing, Writing

LEMMA SaveKeeps ==
  ASSUME PlanInv, NEW s \in Sessions, Plan!Save(s)
  PROVE  PlanInv'
<1>1. PICK t \in Texts : tmp' = t /\ Plan!Goto(s, "take", [job[s] EXCEPT !.typed = t])
  BY DEF Plan!Save
<1> DEFINE j == [job[s] EXCEPT !.typed = t]
<1>2. /\ UNCHANGED << Plan!files, said >> /\ pc[s] = "edit" /\ job[s] \in PlanJobs /\ Session(s)
      /\ t \in AllTexts /\ Plan!Goto(s, "take", j)
  BY <1>1 DEF Plan!Save, PlanInv, PlanTypes, AllTexts
<1>3. j \in PlanJobs /\ j.typed = t /\ j.mixed = job[s].mixed
  BY <1>2, JobsAre DEF PlanJobs
<1> HIDE DEF j
<1>4. pc'[s] = "take" /\ job'[s] = j /\ \A r \in Sessions \ {s} : pc'[r] = pc[r]
  BY <1>2, <1>3, Moves DEF PlanInv, PlanPlaces
<1>5. Session(s)'
  BY <1>1, <1>2, <1>3, <1>4 DEF Session, OwnFile, Alone, InTmp, AsRead, Plan!Typed, Plan!Editing, Before, Writing
<1> QED BY <1>1, <1>2, <1>3, <1>5, FilesStay DEF PlanPlaces, Plan!Editing, Writing

LEMMA CancelKeeps ==
  ASSUME PlanInv, NEW s \in Sessions, Plan!Cancel(s)
  PROVE  PlanInv'
BY GivesUp DEF Plan!Cancel, Plan!Editing, Writing

LEMMA TakeTextKeeps ==
  ASSUME PlanInv, NEW s \in Sessions, Plan!Take(s)
  PROVE  PlanInv'
<1>1. /\ UNCHANGED << Plan!files, said >> /\ pc[s] = "take" /\ tmp' = None /\ job[s] \in PlanJobs /\ Session(s)
      /\ tmp \in AllTexts \cup {None}
  BY DEF Plan!Take, PlanInv, PlanTypes
<1>2. CASE Plan!GiveUp(s)
  BY <1>1, <1>2, GivesUp DEF Plan!Editing, Writing
<1>3. CASE tmp # None /\ Plan!Goto(s, "open", [job[s] EXCEPT !.text = tmp])
  <2> DEFINE j == [job[s] EXCEPT !.text = tmp]
  <2>1. j \in PlanJobs /\ j.text = tmp /\ j.typed = job[s].typed /\ j.mixed = job[s].mixed
    BY <1>1, <1>3, JobsAre DEF PlanJobs
  <2>2. ~j.mixed => j.text = j.typed
    BY <1>1, <2>1 DEF Session, InTmp
  <2> HIDE DEF j
  <2>3. Plan!Goto(s, "open", j)
    BY <1>3 DEF j
  <2>4. pc'[s] = "open" /\ job'[s] = j
    BY <2>1, <2>3, Moves DEF PlanInv, PlanPlaces
  <2>5. Session(s)'
    BY <2>2, <2>4 DEF Session, OwnFile, Alone, InTmp, AsRead, Plan!Typed, Plan!Editing, Before, Writing
  <2> QED BY <1>1, <2>1, <2>3, <2>5, FilesStay DEF PlanPlaces, Plan!Editing, Writing
<1> QED BY <1>2, <1>3 DEF Plan!Take

-----------------------------------------------------------------------------
(* plan_write goes on with the file it has open, which is the user's.      *)
LEMMA OneFile ==
  ASSUME PlanTypes, NEW i \in 1 .. Len(inode), NEW t \in AllTexts, inode[i].safe,
         inode' = [inode EXCEPT ![i].text = t]
  PROVE  /\ inode' \in Seq(PlanFiles) /\ Len(inode') = Len(inode) /\ MoreFiles
         /\ DOMAIN inode' = 1 .. Len(inode) /\ inode'[i].safe /\ inode'[i].text = t
         /\ \A k \in 1 .. Len(inode) : /\ inode'[k].safe = inode[k].safe
                                       /\ k # i => inode'[k] = inode[k]
<1> DEFINE f == [inode[i] EXCEPT !.text = t]
<1>1. /\ inode \in Seq(PlanFiles) /\ Len(inode) \in Nat /\ DOMAIN inode = 1 .. Len(inode)
      /\ \A k \in 1 .. Len(inode) : inode[k] \in PlanFiles
  BY FilesAre DEF PlanTypes
<1>2. f \in PlanFiles /\ f.safe = inode[i].safe /\ f.text = t
  BY <1>1 DEF PlanFiles
<1>3. inode' = [inode EXCEPT ![i] = f]
  OBVIOUS
<1> HIDE DEF f
<1>4. inode' \in [1 .. Len(inode) -> PlanFiles]
  BY <1>1, <1>2, <1>3
<1>5. inode' \in Seq(PlanFiles) /\ Len(inode') = Len(inode)
  BY <1>1, <1>4, IsASeq, LenProperties
<1>6. inode'[i] = f /\ \A k \in 1 .. Len(inode) : k # i => inode'[k] = inode[k]
  BY <1>1, <1>3
<1> QED BY <1>1, <1>2, <1>4, <1>5, <1>6 DEF MoreFiles

LEMMA TruncateKeeps ==
  ASSUME PlanInv, NEW s \in Sessions, Plan!Truncate(s)
  PROVE  PlanInv'
<1> DEFINE i == job[s].fd
<1>1. /\ pc[s] = "truncate" /\ inode' = [inode EXCEPT ![i].text = ""] /\ Plan!Goto(s, "write", job[s])
      /\ at' = at /\ tmp' = tmp /\ said' = said
  BY DEF Plan!Truncate
<1>2. PlanTypes /\ job[s] \in PlanJobs /\ Session(s) /\ "" \in AllTexts
  BY DEF PlanInv, PlanTypes, AllTexts
<1>3. i \in 1 .. Len(inode) /\ inode[i].safe
  BY <1>1, <1>2 DEF Session, OwnFile, Writing
<1>4. /\ inode' \in Seq(PlanFiles) /\ Len(inode') = Len(inode) /\ MoreFiles
      /\ DOMAIN inode' = 1 .. Len(inode) /\ inode'[i].safe
      /\ \A k \in 1 .. Len(inode) : inode'[k].safe = inode[k].safe /\ (k # i => inode'[k] = inode[k])
  BY <1>1, <1>2, <1>3, OneFile
<1>5. /\ pc' \in [Sessions -> PlanPlaces] /\ job' \in [Sessions -> PlanJobs] /\ pc'[s] = "write" /\ job'[s] = job[s]
      /\ \A r \in Sessions \ {s} : pc'[r] = pc[r] /\ job'[r] = job[r]
  BY <1>1, <1>2, Moves DEF PlanPlaces
<1>6. \A r \in Sessions \ {s} : Session(r)'
  BY <1>1, <1>2, <1>4, OthersKeep DEF PlanPlaces, Plan!Editing
<1>7. Session(s)'
  BY <1>1, <1>2, <1>3, <1>4, <1>5
     DEF Session, OwnFile, Alone, InTmp, AsRead, Plan!Typed, Plan!Editing, Before, Writing
<1>8. Given'
  <2> SUFFICES ASSUME \A r \in Sessions : ~Rewritten(r)', said # Unknown
               PROVE  Plan!PlanText' = said
    BY <1>1 DEF Given
  <2>1. at # i
    BY <1>1, <1>5 DEF Rewritten
  <2>2. \A r \in Sessions : ~Rewritten(r)
    BY <1>1, <1>5 DEF Rewritten
  <2>3. at # 0 => at \in 1 .. Len(inode)
    BY <1>2, FilesAre
  <2>4. Plan!PlanText = said
    BY <2>2 DEF PlanInv, Given
  <2> QED BY <1>1, <1>4, <2>1, <2>3, <2>4 DEF Plan!PlanText
<1>9. PlanTypes' /\ Plan!Untouched'
  BY <1>1, <1>2, <1>3, <1>4, <1>5, FilesAre DEF PlanInv, PlanTypes, Plan!Untouched
<1> QED BY <1>6, <1>7, <1>8, <1>9 DEF PlanInv

LEMMA WriteKeeps ==
  ASSUME PlanInv, NEW s \in Sessions, Plan!Write(s)
  PROVE  PlanInv'
<1> DEFINE i == job[s].fd
           j == job[s]
           spoilt == inode[i].text # "" \/ Plan!Others(s, {"truncate", "write"}) # {}
<1>0. PICK t \in IF inode[i].text = "" THEN {j.text} ELSE {j.text, "torn"} :
        inode' = [inode EXCEPT ![i].text = t]
  BY DEF Plan!Write
<1>1. /\ pc[s] = "write" /\ Plan!Goto(s, "idle", Plan!NoJob) /\ at' = at /\ tmp' = tmp
      /\ said' = IF at # i THEN said ELSE IF spoilt \/ j.mixed THEN Unknown ELSE j.typed
      /\ "idle" \in PlanPlaces \ Plan!Editing
  BY DEF Plan!Write, Plan!GiveUp, PlanPlaces, Plan!Editing
<1>2. PlanTypes /\ j \in PlanJobs /\ Session(s) /\ j.text \in AllTexts /\ j.typed \in AllTexts
  BY DEF PlanInv, PlanTypes, PlanJobs
<1>3. i \in 1 .. Len(inode) /\ inode[i].safe /\ t \in AllTexts
  BY <1>0, <1>1, <1>2 DEF Session, OwnFile, Writing, AllTexts
<1>4. /\ inode' \in Seq(PlanFiles) /\ Len(inode') = Len(inode) /\ MoreFiles
      /\ DOMAIN inode' = 1 .. Len(inode) /\ inode'[i].safe /\ inode'[i].text = t
      /\ \A k \in 1 .. Len(inode) : inode'[k].safe = inode[k].safe /\ (k # i => inode'[k] = inode[k])
  BY <1>0, <1>2, <1>3, OneFile
<1>5. /\ pc' \in [Sessions -> PlanPlaces] /\ job' \in [Sessions -> PlanJobs] /\ pc'[s] = "idle"
      /\ \A r \in Sessions \ {s} : pc'[r] = pc[r] /\ job'[r] = job[r]
  BY <1>1, <1>2, NoJobIs, Moves
<1>6. \A r \in Sessions \ {s} : Session(r)'
  BY <1>1, <1>2, <1>4, NoJobIs, OthersKeep
<1>7. Session(s)'
  BY <1>5, AtRest
<1>8. Given'
  <2> SUFFICES ASSUME \A r \in Sessions : ~Rewritten(r)', said' # Unknown
               PROVE  Plan!PlanText' = said'
    BY DEF Given
  <2>1. CASE at = i
    <3>1. said' = j.typed /\ ~j.mixed /\ inode[i].text = ""
      BY <1>1, <2>1
    <3>2. t = j.typed
      BY <1>0, <1>1, <1>2, <3>1 DEF Session, Plan!Typed
    <3>3. at # 0
      BY <1>2, <1>3, <2>1, NumbersAre
    <3> QED BY <1>1, <1>4, <2>1, <3>1, <3>2, <3>3 DEF Plan!PlanText
  <2>2. CASE at # i
    <3>1. said' = said
      BY <1>1, <2>2
    <3>2. \A r \in Sessions : ~Rewritten(r)
      BY <1>1, <1>5, <2>2 DEF Rewritten
    <3>3. at # 0 => at \in 1 .. Len(inode)
      BY <1>2, FilesAre
    <3>4. Plan!PlanText = said
      BY <3>1, <3>2 DEF PlanInv, Given
    <3> QED BY <1>1, <1>4, <2>2, <3>1, <3>3, <3>4 DEF Plan!PlanText
  <2> QED BY <2>1, <2>2
<1>9. PlanTypes' /\ Plan!Untouched'
  BY <1>1, <1>2, <1>3, <1>4, <1>5, FilesAre DEF PlanInv, PlanTypes, Plan!Untouched
<1> QED BY <1>6, <1>7, <1>8, <1>9 DEF PlanInv

LEMMA HangupKeeps ==
  ASSUME PlanInv, NEW s \in Sessions, Plan!Hangup(s)
  PROVE  PlanInv'
<1>1. /\ Plan!Goto(s, "idle", Plan!NoJob) /\ inode' = inode /\ at' = at /\ tmp' = tmp
      /\ said' = IF pc[s] = "write" /\ at = job[s].fd THEN Unknown ELSE said
      /\ "idle" \in PlanPlaces \ Plan!Editing
  BY DEF Plan!Hangup, Plan!GiveUp, Plan!files, PlanPlaces, Plan!Editing
<1>2. MoreFiles /\ inode' \in Seq(PlanFiles)
  BY <1>1, FilesAre DEF PlanInv, PlanTypes, MoreFiles
<1>3. /\ pc' \in [Sessions -> PlanPlaces] /\ job' \in [Sessions -> PlanJobs] /\ pc'[s] = "idle"
      /\ \A r \in Sessions \ {s} : pc'[r] = pc[r] /\ job'[r] = job[r]
  BY <1>1, NoJobIs, Moves DEF PlanInv
<1>4. \A r \in Sessions : Session(r)'
  BY <1>1, <1>2, <1>3, NoJobIs, OthersKeep, AtRest
<1>5. PlanTypes' /\ Plan!Untouched'
  BY <1>1, <1>3 DEF PlanInv, PlanTypes, Plan!Untouched
<1>6. Given'
  BY <1>1, <1>3 DEF PlanInv, Given, Rewritten, Plan!PlanText
<1> QED BY <1>4, <1>5, <1>6 DEF PlanInv

-----------------------------------------------------------------------------
(* What the user does in the shell replaces the file.                      *)
LEMMA ChangeKeeps ==
  ASSUME PlanInv, NEW f \in PlanFiles, f.safe \/ f.text = Plan!Theirs, Plan!Change(f, f.text)
  PROVE  PlanInv'
<1>1. /\ inode' = Append(inode, f) /\ at' = Len(inode) + 1 /\ said' = f.text
      /\ tmp' = tmp /\ pc' = pc /\ job' = job
  BY DEF Plan!Change
<1>2. PlanTypes /\ Len(inode) \in Nat /\ DOMAIN inode = 1 .. Len(inode) /\ f.text \in AllTexts
  BY FilesAre DEF PlanInv, PlanFiles
<1>3. /\ inode' \in Seq(PlanFiles) /\ Len(inode') = Len(inode) + 1 /\ MoreFiles
      /\ DOMAIN inode' = 1 .. Len(inode) + 1 /\ inode'[Len(inode) + 1] = f
      /\ \A i \in 1 .. Len(inode) : inode'[i] = inode[i]
  BY <1>1, <1>2, NewFile
<1>4. PlanTypes'
  BY <1>1, <1>2, <1>3 DEF PlanTypes
<1>5. Plan!Untouched'
  <2> SUFFICES ASSUME NEW i \in 1 .. Len(inode) + 1 PROVE inode'[i].safe \/ inode'[i].text = Plan!Theirs
    BY <1>3 DEF Plan!Untouched
  <2>1. CASE i = Len(inode) + 1
    BY <1>3, <2>1
  <2>2. CASE i # Len(inode) + 1
    <3>1. i \in 1 .. Len(inode)
      BY <1>2, <2>2
    <3> QED BY <1>2, <1>3, <3>1 DEF PlanInv, Plan!Untouched
  <2> QED BY <2>1, <2>2
<1>6. ASSUME NEW r \in Sessions PROVE Session(r)'
  <2>1. Session(r) /\ OwnFile(r)'
    BY <1>1, <1>2, <1>3 DEF PlanInv, Session, OwnFile
  <2> QED BY <1>1, <2>1 DEF Session, Alone, InTmp, AsRead, Plan!Typed
<1>7. Given'
  BY <1>1, <1>2, <1>3 DEF Given, Plan!PlanText
<1> QED BY <1>4, <1>5, <1>6, <1>7 DEF PlanInv

LEMMA RemoveKeeps == ASSUME PlanInv, Plan!Remove PROVE PlanInv'
<1>1. at' = 0 /\ said' = None /\ inode' = inode /\ tmp' = tmp /\ pc' = pc /\ job' = job
  BY DEF Plan!Remove
<1>2. PlanTypes' /\ Given'
  BY <1>1, FilesAre DEF PlanInv, PlanTypes, Given, Plan!PlanText
<1>3. ASSUME NEW r \in Sessions PROVE Session(r)'
  BY <1>1 DEF PlanInv, Session, OwnFile, Alone, InTmp, AsRead, Plan!Typed
<1> QED BY <1>1, <1>2, <1>3 DEF PlanInv, Plan!Untouched

LEMMA ShellKeeps == ASSUME PlanInv, Plan!Rewrite \/ Plan!Link \/ Plan!Remove PROVE PlanInv'
<1>1. CASE Plan!Rewrite
  <2>1. PICK t \in Texts : Plan!Change([safe |-> TRUE, text |-> t], t)
    BY <1>1 DEF Plan!Rewrite
  <2>2. [safe |-> TRUE, text |-> t] \in PlanFiles
    BY DEF PlanFiles, AllTexts
  <2> QED BY <2>1, <2>2, ChangeKeeps
<1>2. CASE Plan!Link
  <2>1. [safe |-> FALSE, text |-> Plan!Theirs] \in PlanFiles
    BY DEF PlanFiles, AllTexts
  <2> QED BY <1>2, <2>1, ChangeKeeps DEF Plan!Link
<1> QED BY <1>1, <1>2, RemoveKeeps

LEMMA PlanStays == ASSUME None \notin AllTexts, PlanInv, [Plan!Next]_(Plan!vars) PROVE PlanInv'
<1>1. CASE UNCHANGED Plan!vars
  <2>1. /\ inode' = inode /\ at' = at /\ tmp' = tmp /\ pc' = pc /\ job' = job /\ said' = said
    BY <1>1 DEF Plan!vars, Plan!files
  <2>2. PlanTypes' /\ Plan!Untouched' /\ Given'
    BY <2>1 DEF PlanInv, PlanTypes, Plan!Untouched, Given, Rewritten, Plan!PlanText
  <2>3. ASSUME NEW r \in Sessions PROVE Session(r)'
    BY <2>1 DEF PlanInv, Session, OwnFile, Alone, InTmp, AsRead, Plan!Typed
  <2> QED BY <2>2, <2>3 DEF PlanInv
<1>2. CASE Plan!Next
  BY <1>2, ModPlanKeeps, ReadKeeps, ModOtherKeeps, CreateKeeps, FillKeeps, LoadKeeps, SaveKeeps,
     CancelKeeps, TakeTextKeeps, OpenKeeps, TruncateKeeps, WriteKeeps, HangupKeeps, ShellKeeps DEF Plan!Next
<1> QED BY <1>1, <1>2

(* plan_open_safe, plan_write and cmd_mod_plan: whatever the user does in  *)
(* his shell meanwhile, nothing but his own files is written, the editor   *)
(* shows the plan, and the plan is what was given last, but for sessions   *)
(* that edit or write at a time or are cut off after the truncation.       *)
THEOREM PlanSafe == ASSUME None \notin AllTexts PROVE Plan!Spec => []Plan!PlanKept
<1>1. PlanInv => Plan!PlanKept
  <2> SUFFICES ASSUME PlanInv PROVE Plan!PlanKept
    OBVIOUS
  <2>1. ASSUME NEW s \in Sessions, ~job[s].mixed PROVE Plan!Shown(s) /\ Plan!Typed(s)
    BY <2>1 DEF PlanInv, Session, AsRead, Before, Plan!Shown
  <2>2. Plan!Resting /\ said # Unknown => Plan!PlanText = said
    BY DEF PlanInv, Given, Rewritten, Plan!Resting
  <2> QED BY <2>1, <2>2 DEF PlanInv, Plan!PlanKept
<1> QED BY PlanBegins, PlanStays, <1>1, PTL DEF Plan!Spec

-----------------------------------------------------------------------------
Text == [time : Int, type : {"text", "survey"}]

(* Texts get their numbers in the order they are written.                  *)
InOrder(ts) == \A m, n \in DOMAIN ts :
                 m < n /\ ts[m] # None /\ ts[n] # None => ts[m].time <= ts[n].time
AsOldAs(ts, day) == \A n \in DOMAIN ts : ts[n] # None => ts[n].time <= day
NoSurvey(ts)     == \A n \in DOMAIN ts : ts[n] # None => ts[n].type = "text"

(* What a conference is before sklaffadm is started.                       *)
World(w) ==
  /\ \E k \in 0 .. MaxText : w.texts \in [1 .. k -> Text \cup {None}]
  /\ InOrder(w.texts) /\ AsOldAs(w.texts, 1)
  /\ w.life \in Nat /\ w.mail \in BOOLEAN /\ (w.mail => NoSurvey(w.texts))

Sound == /\ MaxText \in Nat /\ Keeps \subseteq Nat /\ None \notin Text
         /\ \A w \in Worlds : World(w)

(* Induction over numbers, by a least counterexample.                      *)
LEMMA LeastOf ==
  ASSUME NEW T, T \subseteq Nat, T # {}
  PROVE  \E m \in T : \A k \in T : m <= k
<1> DEFINE R == {ss \in Nat \X Nat : ss[1] < ss[2]}
<1>1. IsWellFoundedOn(R, Nat)
  BY NatLessThanWellFounded DEF OpToRel
<1>2. \A a, b \in Nat : a < b => << a, b >> \in R
  OBVIOUS
<1> HIDE DEF R
<1>3. PICK m \in T : \A k \in T : << k, m >> \notin R
  BY <1>1, WFMin
<1>4. ASSUME NEW k \in T PROVE m <= k
  <2>1. m \in Nat /\ k \in Nat /\ ~ (k < m)
    BY <1>2, <1>3
  <2> QED BY <2>1
<1> QED BY <1>4

LEMMA UpTo ==
  ASSUME NEW T, NEW n \in Nat, 0 \in T, \A k \in 0 .. n - 1 : k \in T => k + 1 \in T
  PROVE  0 .. n \subseteq T
<1> DEFINE U == (0 .. n) \ T
<1> SUFFICES ASSUME U # {} PROVE FALSE
  OBVIOUS
<1>1. U \subseteq Nat
  OBVIOUS
<1>2. PICK m \in U : \A k \in U : m <= k
  <2> HIDE DEF U
  <2> QED BY <1>1, LeastOf
<1>3. m # 0 /\ m - 1 \in 0 .. n - 1 /\ ~ (m <= m - 1) /\ m - 1 + 1 = m
  BY <1>2
<1>4. m - 1 \in T
  BY <1>2, <1>3
<1> QED BY <1>2, <1>3, <1>4

-----------------------------------------------------------------------------
(* The search of first_text: between any two numbers it looks again at     *)
(* fewer numbers, or is at an end.                                         *)
Mid(f, l)  == (f + l) \div 2
Near(f, l) == {k \in 0 .. 3 : Purge!There(Mid(f, l) - k)}
Step(g, f, l) ==
  IF l <= f THEN (IF last_text = 0 THEN 1 ELSE l)
  ELSE IF Near(f, l) = {} THEN g[<< Mid(f, l) + 1, l >>]
  ELSE g[<< f, Mid(f, l) - (CHOOSE k \in Near(f, l) : \A j \in Near(f, l) : k <= j) >>]

Froms == 1 .. MaxText + 1
Tos   == 0 .. MaxText

LEMMA StepShrinks ==
  ASSUME MaxText \in Nat, NEW f \in Froms, NEW l \in Tos, f < l, NEW n \in Nat, l - f <= n + 1
  PROVE  /\ Mid(f, l) + 1 \in Froms /\ l - (Mid(f, l) + 1) <= n
         /\ Near(f, l) # {} =>
              LET m == Mid(f, l) - (CHOOSE k \in Near(f, l) : \A j \in Near(f, l) : k <= j)
              IN  m \in Tos /\ m - f <= n
<1> DEFINE p == Mid(f, l)
           S == Near(f, l)
<1>1. p \in Int /\ f <= p /\ p < l /\ f \in Int /\ l \in Int /\ l <= MaxText /\ 1 <= f
  BY DEF Mid, Froms, Tos
<1>2. S \subseteq 0 .. 3 /\ \A k \in S : Purge!There(p - k)
  BY DEF Near
<1> HIDE DEF p, S
<1>3. p + 1 \in Froms /\ l - (p + 1) <= n
  BY <1>1 DEF Froms
<1>4. ASSUME S # {} PROVE LET m == p - (CHOOSE k \in S : \A j \in S : k <= j) IN m \in Tos /\ m - f <= n
  <2>1. \E k \in S : \A j \in S : k <= j
    BY <1>2, <1>4, LeastOf, 0 .. 3 \subseteq Nat
  <2>2. PICK k \in S : k = CHOOSE i \in S : \A j \in S : i <= j
    BY <2>1
  <2>3. k \in 0 .. 3 /\ p - k \in 1 .. MaxText
    BY <1>2, <2>2 DEF Purge!There, Purge!Numbers
  <2>4. p - k \in Tos /\ p - k - f <= n
    BY <1>1, <2>3 DEF Tos
  <2> QED BY <2>2, <2>4
<1> QED BY <1>3, <1>4 DEF p, S

LEMMA StepSame ==
  ASSUME MaxText \in Nat, NEW g, NEW h, NEW n \in Nat,
         \A f \in Froms, l \in Tos : l - f <= n => g[<< f, l >>] = h[<< f, l >>],
         NEW f \in Froms, NEW l \in Tos, l - f <= n + 1
  PROVE  Step(g, f, l) = Step(h, f, l)
<1>1. CASE l <= f
  BY <1>1 DEF Step
<1>2. CASE ~(l <= f)
  <2>1. f < l
    BY <1>2 DEF Froms, Tos
  <2>2. CASE Near(f, l) = {}
    <3>1. g[<< Mid(f, l) + 1, l >>] = h[<< Mid(f, l) + 1, l >>]
      BY <2>1, StepShrinks
    <3> QED BY <1>2, <2>2, <3>1 DEF Step
  <2>3. CASE Near(f, l) # {}
    <3> DEFINE m == Mid(f, l) - (CHOOSE k \in Near(f, l) : \A j \in Near(f, l) : k <= j)
    <3>1. m \in Tos /\ m - f <= n
      BY <2>1, <2>3, StepShrinks
    <3>2. Step(g, f, l) = g[<< f, m >>] /\ Step(h, f, l) = h[<< f, m >>]
      BY <1>2, <2>3 DEF Step
    <3> HIDE DEF m
    <3> QED BY <3>1, <3>2
  <2> QED BY <2>2, <2>3
<1> QED BY <1>1, <1>2

Searches(g) == g = [x \in Froms \X Tos |-> Step(g, x[1], x[2])]

LEMMA SearchExists == ASSUME MaxText \in Nat PROVE \E g : Searches(g)
<1> DEFINE Upto(g, n) == /\ g = [x \in Froms \X Tos |-> g[x]]
                         /\ \A f \in Froms, l \in Tos : l - f <= n => g[<< f, l >>] = Step(g, f, l)
           T == {n \in 0 .. MaxText : \E g : Upto(g, n)}
<1>1. 0 \in T
  <2> DEFINE g == [x \in Froms \X Tos |-> Step(0, x[1], x[2])]
  <2>1. \A f \in Froms, l \in Tos : g[<< f, l >>] = Step(0, f, l)
    OBVIOUS
  <2>2. g = [x \in Froms \X Tos |-> g[x]]
    OBVIOUS
  <2> HIDE DEF g
  <2>3. ASSUME NEW f \in Froms, NEW l \in Tos, l - f <= 0 PROVE g[<< f, l >>] = Step(g, f, l)
    <3>1. l <= f
      BY <2>3 DEF Froms, Tos
    <3> QED BY <2>1, <3>1 DEF Step
  <2> QED BY <2>2, <2>3
<1>2. ASSUME NEW n \in 0 .. MaxText - 1, n \in T PROVE n + 1 \in T
  <2>1. PICK g : Upto(g, n)
    BY <1>2
  <2> DEFINE h == [x \in Froms \X Tos |-> Step(g, x[1], x[2])]
  <2>2. \A f \in Froms, l \in Tos : h[<< f, l >>] = Step(g, f, l)
    OBVIOUS
  <2>3. h = [x \in Froms \X Tos |-> h[x]]
    OBVIOUS
  <2> HIDE DEF h
  <2>4. \A f \in Froms, l \in Tos : l - f <= n => g[<< f, l >>] = h[<< f, l >>]
    BY <2>1, <2>2
  <2>5. n \in Nat /\ n + 1 \in 0 .. MaxText
    OBVIOUS
  <2>6. \A f \in Froms, l \in Tos : l - f <= n + 1 => h[<< f, l >>] = Step(h, f, l)
    BY <2>2, <2>4, <2>5, StepSame
  <2> QED BY <2>3, <2>5, <2>6
<1> HIDE DEF T
<1>3. 0 .. MaxText \subseteq T
  BY <1>1, <1>2, UpTo
<1>4. MaxText \in T
  BY <1>3
<1>5. PICK g : Upto(g, MaxText)
  BY <1>4 DEF T
<1>6. \A f \in Froms, l \in Tos : l - f <= MaxText
  BY DEF Froms, Tos
<1>7. \A f \in Froms, l \in Tos : g[<< f, l >>] = Step(g, f, l)
  BY <1>5, <1>6
<1>8. g = [x \in Froms \X Tos |-> g[x]]
  BY <1>5
<1>9. [x \in Froms \X Tos |-> g[x]] = [x \in Froms \X Tos |-> Step(g, x[1], x[2])]
  BY <1>7
<1> QED BY <1>8, <1>9 DEF Searches

(* first_text answers a number that was given out, or the first.           *)
LEMMA FirstTextIs ==
  ASSUME MaxText \in Nat, last_text \in Tos
  PROVE  Purge!FirstText \in Nat
<1> DEFINE search == CHOOSE g : Searches(g)
           T == {n \in 0 .. MaxText : \A f \in Froms, l \in Tos : l - f <= n => search[<< f, l >>] \in Nat}
<1>0. Purge!FirstText = search[<< 1, last_text >>]
  BY DEF Purge!FirstText, Searches, Step, Near, Mid, Froms, Tos
<1>1. Searches(search)
  BY SearchExists
<1> HIDE DEF search
<1>2. \A f \in Froms, l \in Tos : search[<< f, l >>] = Step(search, f, l)
  BY <1>1 DEF Searches
<1>3. 0 \in T
  <2> SUFFICES ASSUME NEW f \in Froms, NEW l \in Tos, l - f <= 0 PROVE search[<< f, l >>] \in Nat
    OBVIOUS
  <2>1. l <= f /\ l \in Nat
    BY DEF Froms, Tos
  <2>2. Step(search, f, l) \in Nat
    BY <2>1 DEF Step
  <2>3. search[<< f, l >>] = Step(search, f, l)
    BY <1>2
  <2> QED BY <2>2, <2>3
<1>4. ASSUME NEW n \in 0 .. MaxText - 1, n \in T PROVE n + 1 \in T
  <2>1. n \in Nat /\ n + 1 \in 0 .. MaxText
    OBVIOUS
  <2> SUFFICES ASSUME NEW f \in Froms, NEW l \in Tos, l - f <= n + 1 PROVE search[<< f, l >>] \in Nat
    BY <2>1
  <2>2. CASE l <= f
    <3>1. Step(search, f, l) \in Nat
      BY <2>2 DEF Step, Tos
    <3>2. search[<< f, l >>] = Step(search, f, l)
      BY <1>2
    <3> QED BY <3>1, <3>2
  <2>3. CASE f < l
    <3>0. ~(l <= f)
      BY <2>3 DEF Froms, Tos
    <3>1. CASE Near(f, l) = {}
      <4>1. search[<< Mid(f, l) + 1, l >>] \in Nat
        BY <1>4, <2>1, <2>3, StepShrinks
      <4> QED BY <1>2, <3>0, <3>1, <4>1 DEF Step
    <3>2. CASE Near(f, l) # {}
      <4> DEFINE m == Mid(f, l) - (CHOOSE k \in Near(f, l) : \A j \in Near(f, l) : k <= j)
      <4>1. m \in Tos /\ m - f <= n
        BY <2>1, <2>3, <3>2, StepShrinks
      <4>2. Step(search, f, l) = search[<< f, m >>]
        BY <3>0, <3>2 DEF Step
      <4> HIDE DEF m
      <4> QED BY <1>2, <1>4, <4>1, <4>2
    <3> QED BY <3>1, <3>2
  <2> QED BY <2>2, <2>3 DEF Froms, Tos
<1> HIDE DEF T
<1>5. 0 .. MaxText \subseteq T
  BY <1>3, <1>4, UpTo
<1>6. MaxText \in T
  BY <1>5
<1>7. 1 \in Froms /\ last_text - 1 <= MaxText
  BY DEF Froms, Tos
<1>8. search[<< 1, last_text >>] \in Nat
  BY <1>6, <1>7 DEF T
<1> QED BY <1>0, <1>8

-----------------------------------------------------------------------------
TextsOK ==
  /\ texts \in [Purge!Numbers -> Text \cup {None}] /\ last_text \in 0 .. MaxText
  /\ life \in Nat /\ mail \in BOOLEAN /\ now \in Nat
  /\ \A n \in Purge!Numbers : n > last_text => texts[n] = None
  /\ InOrder(texts) /\ AsOldAs(texts, now) /\ (mail => NoSurvey(texts))

PurgeJobs   == [next : Int, to : Int, life : Nat, force : BOOLEAN]
Begins == [texts : [Purge!Numbers -> Text \cup {None}], keep : Nat, last : 0 .. MaxText, life : Nat,
           day : Nat, force : BOOLEAN, first : Int, deleted : SUBSET Purge!Numbers]

(* The purge goes by what it has read at its beginning.                    *)
JobOK ==
  /\ job \in PurgeJobs /\ begun \in Begins
  /\ job.life = begun.life /\ job.force = begun.force /\ job.to = begun.last - begun.keep
  /\ begun.day <= now /\ begun.first <= job.next
  /\ InOrder(begun.texts)

(* The numbers it found are those texts until they are gone.               *)
Same ==
  /\ begun.last <= last_text
  /\ \A n \in Purge!Numbers : n > begun.last => begun.texts[n] = None
  /\ \A n \in Purge!Numbers : n <= begun.last => texts[n] = begun.texts[n] \/ texts[n] = None

(* The text that was seen and is read next.                                *)
Seen ==
  pc = "take" =>
    /\ job.next - 1 \in Purge!Numbers /\ begun.first <= job.next - 1 /\ job.next - 1 <= job.to
    /\ job.force \/ job.life # 0
    /\ begun.deleted = {} => Purge!There(job.next - 1)

Gone(n) == n \in Purge!Was /\ texts[n] = None /\ n \notin begun.deleted
GoneRightly ==
  \A n \in Purge!Numbers : Gone(n) =>
    /\ n <= begun.last - begun.keep /\ begun.texts[n].type = "text"
    /\ begun.force \/ (begun.life # 0 /\ Purge!Spent(n, now))

(* What has been passed by is gone, if it was old.                         *)
Due(n) == n \in Purge!Was /\ begun.texts[n].type = "text" /\ Purge!Spent(n, begun.day) /\ begun.first <= n
Passed ==
  begun.deleted = {} /\ begun.life # 0 =>
    \A n \in Purge!Numbers :
      /\ pc = "look" /\ Due(n) /\ n < job.next => texts[n] = None
      /\ pc = "take" /\ Due(n) /\ n < job.next - 1 => texts[n] = None
      /\ pc = "end" /\ Due(n) /\ Purge!Found(n) => texts[n] = None

Purging == JobOK /\ Same /\ Seen /\ GoneRightly /\ Passed

PurgePlaces == {"idle", "look", "take", "end", "dead"}

(* The inductive invariant.                                                *)
PurgeInv == /\ pc \in PurgePlaces /\ TextsOK
            /\ pc = "idle" => begun = None
            /\ pc # "idle" => Purging

-----------------------------------------------------------------------------
(* The instance counts as everybody does.                                  *)
LEMMA SameCount == ASSUME NEW S PROVE Purge!Cardinality(S) = Cardinality(S)
BY DEF Cardinality, Purge!Cardinality

LEMMA PurgeInits == ASSUME Sound, Purge!Init PROVE PurgeInv
<1>1. PICK w \in Worlds :
        /\ texts = [n \in Purge!Numbers |-> IF n \in DOMAIN w.texts THEN w.texts[n] ELSE None]
        /\ last_text = Cardinality(DOMAIN w.texts) /\ life = w.life /\ mail = w.mail
        /\ now = 1 /\ pc = "idle" /\ begun = None
  BY SameCount DEF Purge!Init
<1>2. World(w) /\ MaxText \in Nat /\ None \notin Text
  BY <1>1 DEF Sound
<1>3. PICK k \in 0 .. MaxText : w.texts \in [1 .. k -> Text \cup {None}]
  BY <1>2 DEF World
<1>4. DOMAIN w.texts = 1 .. k /\ last_text = k
  <2>1. DOMAIN w.texts = 1 .. k BY <1>3
  <2>2. k \in Nat BY <1>2
  <2>3. Cardinality(1 .. k) = k
    <3>1. Cardinality(1 .. k) = IF 1 > k THEN 0 ELSE k - 1 + 1 BY <2>2, FS_Interval
    <3> QED BY <2>2, <3>1
  <2> QED BY <1>1, <2>1, <2>3
<1>5. /\ \A n \in Purge!Numbers : n \in 1 .. k => texts[n] = w.texts[n]
      /\ \A n \in Purge!Numbers : n \notin 1 .. k => texts[n] = None
  BY <1>1, <1>4
<1>6. texts \in [Purge!Numbers -> Text \cup {None}]
  BY <1>1, <1>3, <1>4
<1>7. \A n \in Purge!Numbers : n > last_text => texts[n] = None
  BY <1>2, <1>3, <1>4, <1>5 DEF Purge!Numbers
<1>8. InOrder(texts) /\ AsOldAs(texts, now) /\ (mail => NoSurvey(texts))
  BY <1>1, <1>2, <1>4, <1>5, <1>6 DEF World, InOrder, AsOldAs, NoSurvey
<1>9. TextsOK
  BY <1>1, <1>2, <1>3, <1>4, <1>6, <1>7, <1>8 DEF TextsOK, World
<1> QED BY <1>1, <1>9 DEF PurgeInv, PurgePlaces

(* A step of sklaffadm or the clock that leaves the texts alone.           *)
LEMMA TextsStay ==
  ASSUME TextsOK, UNCHANGED << texts, last_text, mail >>, now' \in Nat, now <= now', life' \in Nat
  PROVE  TextsOK'
<1>1. AsOldAs(texts, now)'
  <2>1. \A n \in Purge!Numbers : texts[n] # None => texts[n].time \in Int
    BY DEF TextsOK, Text
  <2> QED BY <2>1 DEF TextsOK, AsOldAs
<1> QED BY <1>1 DEF TextsOK, InOrder, NoSurvey

LEMMA PurgeBegins ==
  ASSUME PurgeInv, Sound, NEW keep \in Keeps, NEW force \in BOOLEAN, Purge!Purge(keep, force)
  PROVE  PurgeInv'
<1>0. TextsOK /\ MaxText \in Nat /\ keep \in Nat /\ Purge!FirstText \in Int
  <2>1. TextsOK /\ MaxText \in Nat /\ keep \in Nat /\ last_text \in Tos
    BY DEF PurgeInv, Sound, TextsOK, Tos
  <2> QED BY <2>1, FirstTextIs
<1> DEFINE j == [next |-> Purge!FirstText, to |-> last_text - keep, life |-> life, force |-> force]
           b == [texts |-> texts, keep |-> keep, last |-> last_text, life |-> life, day |-> now,
                 force |-> force, first |-> Purge!FirstText, deleted |-> {}]
<1>1. pc' = "look" /\ job' = j /\ begun' = b /\ UNCHANGED << texts, last_text, life, mail, now >>
  BY DEF Purge!Purge, Purge!state
<1>2. /\ j \in PurgeJobs /\ j.next = Purge!FirstText /\ j.to = last_text - keep /\ j.life = life /\ j.force = force
      /\ b \in Begins /\ b.texts = texts /\ b.keep = keep /\ b.last = last_text /\ b.life = life
      /\ b.day = now /\ b.force = force /\ b.first = Purge!FirstText /\ b.deleted = {}
  BY <1>0 DEF PurgeJobs, Begins, TextsOK
<1> HIDE DEF j, b
<1>3. TextsOK'
  BY <1>0, <1>1, TextsStay DEF TextsOK
<1>4. JobOK'
  BY <1>0, <1>1, <1>2 DEF JobOK, TextsOK
<1>5. Same'
  BY <1>0, <1>1, <1>2 DEF Same, TextsOK
<1>6. Seen' /\ GoneRightly'
  BY <1>1, <1>2 DEF Seen, GoneRightly, Gone, Purge!Was
<1>7. Passed'
  BY <1>0, <1>1, <1>2 DEF Passed, Due, Purge!Was, Purge!Numbers
<1> QED BY <1>1, <1>3, <1>4, <1>5, <1>6, <1>7 DEF PurgeInv, Purging, PurgePlaces

LEMMA LookKeeps == ASSUME PurgeInv, Sound, Purge!Look PROVE PurgeInv'
<1>0. TextsOK /\ Purging /\ MaxText \in Nat
  BY DEF PurgeInv, Sound, Purge!Look
<1> DEFINE j == [job EXCEPT !.next = @ + 1]
<1>1. /\ pc = "look" /\ ~Purge!Ends /\ pc' = (IF Purge!There(job.next) THEN "take" ELSE "look") /\ job' = j
      /\ UNCHANGED << texts, last_text, life, mail, now, begun >>
  BY DEF Purge!Look, Purge!state
<1>2. /\ j \in PurgeJobs /\ j.next = job.next + 1 /\ j.to = job.to /\ j.life = job.life /\ j.force = job.force
      /\ job \in PurgeJobs /\ job.next \in Int /\ job.to \in Int
  BY <1>0 DEF Purging, JobOK, PurgeJobs
<1> HIDE DEF j
<1>3. TextsOK'
  BY <1>0, <1>1, TextsStay DEF TextsOK
<1>4. JobOK' /\ Same' /\ GoneRightly'
  <2>1. begun.first \in Int /\ begun.first <= j.next
    BY <1>0, <1>2 DEF Purging, JobOK, Begins
  <2> QED BY <1>0, <1>1, <1>2, <2>1 DEF Purging, JobOK, Same, GoneRightly, Gone, Purge!Was, Purge!Spent
<1>5. Seen'
  <2>1. j.next - 1 = job.next
    BY <1>2
  <2>2. job.next <= job.to /\ (job.force \/ job.life # 0)
    BY <1>1, <1>2 DEF Purge!Ends
  <2>3. pc' = "take" => Purge!There(job.next) /\ job.next \in Purge!Numbers
    BY <1>1 DEF Purge!There
  <2> QED BY <1>0, <1>1, <1>2, <2>1, <2>2, <2>3 DEF Purging, Seen, JobOK, Purge!There
<1>6. Passed'
  <2> SUFFICES ASSUME begun.deleted = {}, begun.life # 0, NEW n \in Purge!Numbers, Due(n)
               PROVE  /\ pc' = "look" /\ n < j.next => texts[n] = None
                      /\ pc' = "take" /\ n < j.next - 1 => texts[n] = None
    BY <1>1 DEF Passed, Due, Purge!Was, Purge!Spent
  <2>1. n \in Int /\ (n < job.next => texts[n] = None)
    BY <1>0, <1>1 DEF Purging, Passed, Purge!Numbers
  <2>2. pc' = "look" => ~Purge!There(job.next)
    BY <1>1
  <2> QED BY <1>2, <2>1, <2>2 DEF Purge!There
<1> QED BY <1>1, <1>3, <1>4, <1>5, <1>6 DEF PurgeInv, Purging, PurgePlaces

(* A text is taken away.                                                   *)
LEMMA TextGoes ==
  ASSUME TextsOK, NEW n \in Purge!Numbers, texts' = [texts EXCEPT ![n] = None],
         UNCHANGED << last_text, life, mail, now >>
  PROVE  TextsOK'
<1>1. /\ texts' \in [Purge!Numbers -> Text \cup {None}] /\ DOMAIN texts' = Purge!Numbers /\ DOMAIN texts = Purge!Numbers
      /\ texts'[n] = None
      /\ \A m \in Purge!Numbers : m # n => texts'[m] = texts[m]
  BY DEF TextsOK
<1>2. \A m \in Purge!Numbers : m > last_text => texts'[m] = None
  BY <1>1 DEF TextsOK
<1>3. InOrder(texts)'
  BY <1>1 DEF TextsOK, InOrder
<1>4. AsOldAs(texts, now)' /\ (mail => NoSurvey(texts))'
  BY <1>1 DEF TextsOK, AsOldAs, NoSurvey
<1> QED BY <1>1, <1>2, <1>3, <1>4 DEF TextsOK

LEMMA JustBefore == \A a, m \in Int : m < a => m < a - 1 \/ m = a - 1
OBVIOUS

LEMMA TakeKeeps == ASSUME PurgeInv, Sound, Purge!Take PROVE PurgeInv'
<1> DEFINE n == job.next - 1
<1>0. /\ TextsOK /\ Purging /\ MaxText \in Nat /\ None \notin Text
      /\ pc = "take" /\ Purge!There(n) /\ n \in Purge!Numbers /\ n \in Int
      /\ UNCHANGED << last_text, life, mail, now, job, begun >>
  BY DEF PurgeInv, Sound, Purge!Take, Purge!There, Purge!Numbers
<1>1. /\ job.next \in Int /\ job.life \in Nat /\ job.to \in Int /\ now \in Nat /\ n = job.next - 1
      /\ begun \in Begins /\ begun.day \in Nat /\ begun.day <= now /\ begun.first <= n /\ n <= job.to
      /\ job.life = begun.life /\ job.force = begun.force /\ job.to = begun.last - begun.keep
      /\ begun.last \in Nat /\ begun.keep \in Nat
      /\ job.force \/ job.life # 0
  BY <1>0 DEF Purging, JobOK, PurgeJobs, Begins, Seen, TextsOK
<1>2. texts[n] \in Text /\ texts[n] = begun.texts[n] /\ n \in Purge!Was
  BY <1>0, <1>1 DEF Purge!There, TextsOK, Purging, Same, Purge!Was
<1> HIDE DEF n
<1>3. CASE (job.force \/ Purge!Old(texts[n])) /\ (mail \/ texts[n].type = "text")
           /\ texts' = [texts EXCEPT ![n] = None] /\ pc' = "look"
  <2>1. TextsOK'
    BY <1>0, <1>3, TextGoes
  <2>2. texts'[n] = None /\ \A m \in Purge!Numbers : m # n => texts'[m] = texts[m]
    BY <1>0, <1>3 DEF TextsOK
  <2>3. JobOK' /\ Seen'
    BY <1>0, <1>3 DEF Purging, JobOK, Seen
  <2>4. Same'
    BY <1>0, <2>2 DEF Purging, Same
  <2>5. GoneRightly'
    <3>1. begun.texts[n].type = "text"
      BY <1>0, <1>2, <1>3 DEF TextsOK, NoSurvey
    <3>2. begun.force \/ (begun.life # 0 /\ Purge!Spent(n, now))
      BY <1>1, <1>2, <1>3 DEF Purge!Old, Purge!Spent
    <3>3. \A m \in Purge!Numbers : m # n /\ Gone(m)' => Gone(m)
      BY <1>0, <2>2 DEF Gone, Purge!Was
    <3> QED BY <1>0, <1>1, <3>1, <3>2, <3>3 DEF Purging, GoneRightly, Purge!Spent
  <2>6. Passed'
    <3> SUFFICES ASSUME begun.deleted = {}, begun.life # 0, NEW m \in Purge!Numbers, Due(m), m < job.next
                 PROVE  texts'[m] = None
      BY <1>0, <1>3 DEF Passed, Due, Purge!Was, Purge!Spent
    <3>1. m \in Int /\ (m < n => texts[m] = None)
      BY <1>0, <1>1 DEF Purging, Passed, Purge!Numbers
    <3>2. m < n \/ m = n
      BY <1>1, <3>1, JustBefore
    <3> QED BY <2>2, <3>1, <3>2, <1>0
  <2> QED BY <1>0, <1>3, <2>1, <2>3, <2>4, <2>5, <2>6 DEF PurgeInv, Purging, PurgePlaces
<1>4. CASE (job.force \/ Purge!Old(texts[n])) /\ ~(mail \/ texts[n].type = "text")
           /\ texts' = texts /\ pc' = "look"
  <2>1. TextsOK'
    BY <1>0, <1>4, TextsStay DEF TextsOK
  <2>2. JobOK' /\ Same' /\ Seen' /\ GoneRightly'
    BY <1>0, <1>4 DEF Purging, JobOK, Same, Seen, GoneRightly, Gone, Purge!Was, Purge!Spent
  <2>3. Passed'
    <3> SUFFICES ASSUME begun.deleted = {}, begun.life # 0, NEW m \in Purge!Numbers, Due(m), m < job.next
                 PROVE  texts[m] = None
      BY <1>0, <1>4 DEF Passed, Due, Purge!Was, Purge!Spent
    <3>1. m \in Int /\ (m < n => texts[m] = None)
      BY <1>0, <1>1 DEF Purging, Passed, Purge!Numbers
    <3>2. m # n
      BY <1>2, <1>4 DEF Due
    <3>3. m < n
      BY <1>1, <3>1, <3>2, JustBefore
    <3> QED BY <3>1, <3>3
  <2> QED BY <1>0, <1>4, <2>1, <2>2, <2>3 DEF PurgeInv, Purging, PurgePlaces
<1>5. CASE ~job.force /\ ~Purge!Old(texts[n]) /\ pc' = "end" /\ texts' = texts
  <2>1. TextsOK'
    BY <1>0, <1>5, TextsStay DEF TextsOK
  <2>2. JobOK' /\ Same' /\ Seen' /\ GoneRightly'
    BY <1>0, <1>5 DEF Purging, JobOK, Same, Seen, GoneRightly, Gone, Purge!Was, Purge!Spent
  <2>3. Passed'
    <3> SUFFICES ASSUME begun.deleted = {}, begun.life # 0, NEW m \in Purge!Numbers, Due(m), Purge!Found(m)
                 PROVE  texts[m] = None
      BY <1>0, <1>5 DEF Passed, Due, Purge!Was, Purge!Spent, Purge!Found
    <3>1. m \in Int /\ (m < n => texts[m] = None)
      BY <1>0, <1>1 DEF Purging, Passed, Purge!Numbers
    <3>2. ~(begun.texts[n].time + begun.life < begun.day) /\ begun.texts[n].time \in Int /\ begun.life \in Nat
      BY <1>1, <1>2, <1>5 DEF Purge!Old, Text
    <3>3. begun.texts[m].time \in Int /\ begun.texts[m].time + begun.life < begun.day /\ begun.texts[m] # None
      BY <1>0, <1>1 DEF Due, Purge!Was, Purge!Spent, Begins, Text
    <3>4. n < m => begun.texts[n].time <= begun.texts[m].time
      <4>1. DOMAIN begun.texts = Purge!Numbers /\ InOrder(begun.texts)
        BY <1>0, <1>1 DEF Begins, Purging, JobOK
      <4> QED BY <1>0, <1>2, <3>3, <4>1 DEF InOrder, Purge!Was
    <3> QED BY <1>0, <1>1, <3>1, <3>2, <3>3, <3>4
  <2> QED BY <1>0, <1>5, <2>1, <2>2, <2>3 DEF PurgeInv, Purging, PurgePlaces
<1> QED BY <1>3, <1>4, <1>5 DEF Purge!Take, n

LEMMA EndKeeps == ASSUME PurgeInv, Sound, Purge!Vanished \/ Purge!End PROVE PurgeInv'
<1>0. /\ TextsOK /\ Purging /\ pc \in {"look", "take"}
      /\ UNCHANGED << texts, last_text, life, mail, now, job, begun >>
  BY DEF PurgeInv, Purge!Vanished, Purge!End, Purge!state
<1>1. TextsOK'
  BY <1>0, TextsStay DEF TextsOK
<1>2. pc' \in {"dead", "end"}
  BY DEF Purge!Vanished, Purge!End
<1>3. JobOK' /\ Same' /\ Seen' /\ GoneRightly'
  BY <1>0, <1>2 DEF Purging, JobOK, Same, Seen, GoneRightly, Gone, Purge!Was, Purge!Spent
<1>4. ASSUME begun.deleted = {}, begun.life # 0, NEW n \in Purge!Numbers, Due(n), Purge!Found(n), pc' = "end"
      PROVE  texts[n] = None
  <2>1. ~Purge!Vanished
    BY <1>0, <1>4 DEF Purge!Vanished, Purging, Seen
  <2>2. Purge!Ends /\ pc = "look" /\ job \in PurgeJobs /\ job.life = begun.life /\ job.to = begun.last - begun.keep
    BY <1>0, <2>1 DEF Purge!End, Purging, JobOK
  <2>3. job.next > job.to
    BY <1>4, <2>2 DEF Purge!Ends
  <2>4. n \in Int /\ n <= job.to /\ job.next \in Int /\ job.to \in Int
    BY <1>4, <2>2 DEF Purge!Found, Purge!Numbers, PurgeJobs
  <2>5. n < job.next
    BY <2>3, <2>4
  <2> QED BY <1>0, <1>4, <2>2, <2>5 DEF Purging, Passed
<1>5. Passed'
  BY <1>0, <1>2, <1>4 DEF Passed, Due, Purge!Was, Purge!Spent, Purge!Found
<1> QED BY <1>0, <1>1, <1>2, <1>3, <1>5 DEF PurgeInv, Purging, PurgePlaces

LEMMA TimeKeeps == ASSUME PurgeInv, Purge!Day \/ \E d \in 0 .. 2 : Purge!Life(d) PROVE PurgeInv'
<1>0. /\ TextsOK /\ UNCHANGED << texts, last_text, mail, pc, job, begun >>
      /\ now \in Nat /\ now' \in Nat /\ now <= now' /\ life' \in Nat
  BY DEF PurgeInv, TextsOK, Purge!Day, Purge!Life, Purge!state
<1>1. TextsOK'
  BY <1>0, TextsStay
<1>2. CASE pc = "idle"
  BY <1>0, <1>1, <1>2 DEF PurgeInv
<1>3. CASE pc # "idle"
  <2>1. Purging /\ begun \in Begins /\ begun.day \in Nat
    BY <1>3 DEF PurgeInv, Purging, JobOK, Begins
  <2>2. JobOK'
    BY <1>0, <2>1 DEF Purging, JobOK
  <2>3. ASSUME NEW n \in Purge!Numbers, n \in Purge!Was, Purge!Spent(n, now)
        PROVE  Purge!Spent(n, now')
    <3>1. begun.texts[n].time \in Int /\ begun.life \in Nat
      BY <2>1, <2>3 DEF Purge!Was, Begins, Text
    <3> QED BY <1>0, <2>3, <3>1 DEF Purge!Spent
  <2>4. GoneRightly'
    BY <1>0, <2>1, <2>3 DEF Purging, GoneRightly, Gone, Purge!Was, Purge!Spent
  <2>5. Same' /\ Seen' /\ Passed'
    BY <1>0, <2>1 DEF Purging, Same, Seen, Purge!There, Passed, Due, Purge!Was, Purge!Spent, Purge!Found
  <2> QED BY <1>0, <1>1, <2>2, <2>4, <2>5 DEF PurgeInv, Purging
<1> QED BY <1>2, <1>3

LEMMA PostKeeps ==
  ASSUME PurgeInv, Sound, NEW type \in {"text", "survey"}, Purge!Post(type)
  PROVE  PurgeInv'
<1> DEFINE t == [time |-> now, type |-> type]
           n == last_text + 1
<1>0. /\ TextsOK /\ Purging /\ MaxText \in Nat /\ None \notin Text /\ last_text \in 0 .. MaxText
      /\ last_text < MaxText /\ (mail => type = "text") /\ last_text' = n
      /\ texts' = [texts EXCEPT ![n] = t] /\ now \in Nat
      /\ UNCHANGED << life, mail, now, pc, job, begun >>
  BY DEF PurgeInv, Sound, Purge!Post, TextsOK
<1>1. t \in Text /\ t.time = now /\ t.type = type
  BY <1>0 DEF Text
<1> HIDE DEF t
<1>2. /\ n \in Purge!Numbers /\ n \in 0 .. MaxText /\ texts[n] = None /\ texts'[n] = t
      /\ \A m \in Purge!Numbers : m # n => texts'[m] = texts[m]
      /\ DOMAIN texts' = Purge!Numbers /\ DOMAIN texts = Purge!Numbers
      /\ texts' \in [Purge!Numbers -> Text \cup {None}]
  BY <1>0, <1>1 DEF TextsOK, Purge!Numbers
<1>3. \A m \in Purge!Numbers : m > n => texts'[m] = None
  <2>1. \A m \in Purge!Numbers : m > n => m # n /\ m > last_text
    BY <1>0 DEF Purge!Numbers
  <2> QED BY <1>0, <1>2, <2>1 DEF TextsOK
<1>4. InOrder(texts)'
  <2>1. \A m \in Purge!Numbers : n < m => texts'[m] = None
    BY <1>0, <1>3 DEF Purge!Numbers
  <2>2. \A m \in Purge!Numbers : texts[m] # None => texts[m].time <= t.time
    BY <1>0, <1>1, <1>2 DEF TextsOK, AsOldAs
  <2> QED BY <1>0, <1>2, <2>1, <2>2 DEF TextsOK, InOrder
<1>5. AsOldAs(texts, now)' /\ (mail => NoSurvey(texts))'
  BY <1>0, <1>1, <1>2 DEF TextsOK, AsOldAs, NoSurvey
<1>6. TextsOK'
  BY <1>0, <1>2, <1>3, <1>4, <1>5 DEF TextsOK
<1>7. begun \in Begins /\ begun.last \in Nat /\ begun.last <= last_text /\ ~(n <= begun.last)
  BY <1>0 DEF Purging, JobOK, Same, Begins
<1>8. begun.texts[n] = None
  BY <1>0, <1>2, <1>7 DEF Purging, Same
<1>9. Same'
  BY <1>0, <1>2, <1>7 DEF Purging, Same
<1>10. JobOK' /\ Seen'
  BY <1>0, <1>1, <1>2 DEF Purging, JobOK, Seen, Purge!There
<1>11. \A m \in Purge!Was : m # n /\ m \in Purge!Numbers
  BY <1>8 DEF Purge!Was
<1>12. GoneRightly' /\ Passed'
  BY <1>0, <1>2, <1>11 DEF Purging, GoneRightly, Passed, Gone, Due, Purge!Was, Purge!Spent, Purge!Found
<1> QED BY <1>0, <1>6, <1>9, <1>10, <1>12 DEF PurgeInv, Purging, Purge!Post

LEMMA DeleteKeeps == ASSUME PurgeInv, Sound, NEW n \in Purge!Numbers, Purge!Delete(n) PROVE PurgeInv'
<1> DEFINE b == [begun EXCEPT !.deleted = @ \cup {n}]
<1>0. /\ TextsOK /\ Purging /\ begun \in Begins /\ pc # "idle"
      /\ texts' = [texts EXCEPT ![n] = None] /\ begun' = b
      /\ UNCHANGED << last_text, life, mail, now, pc, job >>
  BY DEF PurgeInv, Purging, JobOK, Purge!Delete
<1>1. /\ b \in Begins /\ b.texts = begun.texts /\ b.keep = begun.keep /\ b.last = begun.last
      /\ b.life = begun.life /\ b.day = begun.day /\ b.force = begun.force /\ b.first = begun.first
      /\ b.deleted = begun.deleted \cup {n}
  BY <1>0 DEF Begins
<1> HIDE DEF b
<1>2. TextsOK'
  BY <1>0, TextGoes
<1>3. texts'[n] = None /\ \A m \in Purge!Numbers : m # n => texts'[m] = texts[m]
  BY <1>0 DEF TextsOK
<1>4. JobOK' /\ Same'
  BY <1>0, <1>1, <1>3 DEF Purging, JobOK, Same
<1>5. begun'.deleted # {} /\ n \in begun'.deleted
  BY <1>0, <1>1
<1>6. Seen' /\ Passed'
  BY <1>0, <1>1, <1>5 DEF Purging, Seen, Passed
<1>7. \A m \in Purge!Numbers : Gone(m)' => Gone(m)
  BY <1>0, <1>1, <1>3, <1>5 DEF Gone, Purge!Was
<1>8. GoneRightly'
  BY <1>0, <1>1, <1>7 DEF Purging, GoneRightly, Purge!Spent
<1> QED BY <1>0, <1>2, <1>4, <1>6, <1>8 DEF PurgeInv, Purging

LEMMA PurgeStays ==
  ASSUME Sound, PurgeInv, [Purge!Next]_(Purge!vars)
  PROVE  PurgeInv'
<1>1. CASE UNCHANGED Purge!vars
  <2>1. UNCHANGED << texts, last_text, life, mail, now, pc, job, begun >>
    BY <1>1 DEF Purge!vars, Purge!state
  <2>2. TextsOK'
    BY <2>1, TextsStay DEF PurgeInv, TextsOK
  <2>3. pc # "idle" => Purging'
    BY <2>1 DEF PurgeInv, Purging, JobOK, Same, Seen, Purge!There, GoneRightly, Gone, Passed, Due, Purge!Was, Purge!Spent, Purge!Found
  <2> QED BY <2>1, <2>2, <2>3 DEF PurgeInv
<1>2. CASE \E k \in Keeps, f \in BOOLEAN : Purge!Purge(k, f)
  BY <1>2, PurgeBegins
<1>3. CASE Purge!Look \/ Purge!Take \/ Purge!Vanished \/ Purge!End
  BY <1>3, LookKeeps, TakeKeeps, EndKeeps
<1>4. CASE Purge!Day \/ \E d \in 0 .. 2 : Purge!Life(d)
  BY <1>4, TimeKeeps
<1>5. CASE (\E t \in {"text", "survey"} : Purge!Post(t)) \/ \E n \in Purge!Numbers : Purge!Delete(n)
  BY <1>5, PostKeeps, DeleteKeeps
<1> QED BY <1>1, <1>2, <1>3, <1>4, <1>5 DEF Purge!Next

-----------------------------------------------------------------------------
(* The three parts of PurgeKeeps.                                          *)
LEMMA PurgedRightly == ASSUME Purging PROVE Purge!Rightly
<1>1. \A n \in Purge!Was \ Purge!Still : n \in Purge!Numbers /\ Gone(n)
  BY DEF Gone, Purge!Was, Purge!Still, Purge!Existing, Purge!There
<1> QED BY <1>1 DEF Purging, GoneRightly, Purge!Rightly

LEMMA LastLeft == ASSUME Purging, Sound PROVE Purge!Left
<1>1. /\ begun \in Begins /\ begun.last \in Nat /\ begun.keep \in Nat /\ begun.deleted \subseteq Purge!Numbers
      /\ MaxText \in Nat
  BY DEF Purging, JobOK, Begins, Sound
<1>2. Purge!Was \cap Purge!LastOnes \subseteq Purge!Still
  <2> SUFFICES ASSUME NEW n \in Purge!Was, n \in Purge!LastOnes, n \notin Purge!Still PROVE FALSE
    OBVIOUS
  <2>1. n \in Purge!Numbers /\ Gone(n)
    BY DEF Gone, Purge!Was, Purge!Still, Purge!Existing, Purge!There
  <2>2. n <= begun.last - begun.keep
    BY <2>1 DEF Purging, GoneRightly
  <2> QED BY <1>1, <2>2 DEF Purge!LastOnes
<1>3. ASSUME Purge!LastOnes \subseteq Purge!Was
      PROVE  Cardinality(Purge!Still) >= begun.keep
  <2>1. Purge!LastOnes \subseteq Purge!Still
    BY <1>2, <1>3
  <2>2. Purge!Still \subseteq 1 .. MaxText
    BY <1>1 DEF Purge!Still, Purge!Existing, Purge!Numbers
  <2>3. IsFiniteSet(1 .. MaxText)
    BY <1>1, FS_Interval
  <2>4. IsFiniteSet(Purge!Still)
    BY <2>2, <2>3, FS_Subset
  <2>5. Cardinality(Purge!LastOnes) <= Cardinality(Purge!Still) /\ Cardinality(Purge!Still) \in Nat
    BY <2>1, <2>4, FS_Subset, FS_CardinalityType
  <2>6. Cardinality(Purge!LastOnes) = begun.keep
    <3> DEFINE a == begun.last - begun.keep + 1
    <3>1. a \in Int /\ begun.last \in Int
      BY <1>1
    <3>2. Cardinality(a .. begun.last) = IF a > begun.last THEN 0 ELSE begun.last - a + 1
      BY <3>1, FS_Interval
    <3> QED BY <1>1, <3>1, <3>2 DEF Purge!LastOnes
  <2> QED BY <1>1, <2>5, <2>6
<1> QED BY <1>2, <1>3, SameCount DEF Purge!Left

LEMMA OldGone == ASSUME Purging PROVE Purge!Done
<1> SUFFICES ASSUME pc = "end", begun.deleted = {}, begun.life # 0,
                    NEW n \in Purge!Was, Purge!Found(n), begun.texts[n].type = "text", Purge!Spent(n, begun.day)
             PROVE  n \notin Purge!Existing
  BY DEF Purge!Done
<1>1. n \in Purge!Numbers /\ Due(n)
  BY DEF Due, Purge!Was, Purge!Found
<1> QED BY <1>1 DEF Purging, Passed, Purge!Existing, Purge!There

(* purge, forcepurge and mailpurge (src/sklaffadm.c): no survey goes and   *)
(* no text before its time, the last ones stay, and with an undisturbed    *)
(* purge every old text goes that is not below what first_text finds.      *)
THEOREM PurgeSafe == ASSUME Sound PROVE Purge!Spec => []Purge!PurgeKeeps
<1>1. Purge!Init => PurgeInv
  BY PurgeInits
<1>2. PurgeInv /\ [Purge!Next]_(Purge!vars) => PurgeInv'
  BY PurgeStays
<1>3. PurgeInv => Purge!PurgeKeeps
  BY PurgedRightly, LastLeft, OldGone DEF PurgeInv, Purge!PurgeKeeps
<1> QED BY <1>1, <1>2, <1>3, PTL DEF Purge!Spec

-----------------------------------------------------------------------------
Labels  == Names \cup {<< "deleted", c >> : c \in Nat} \cup {f.entry[c].name : f \in Founded, c \in Nat}
Entries == [name : Labels, creator : Users \cup {Nobody}, access : Conferences!Accesses, comconf : Nat]

(* The files to begin with: conferences have creators, and comments go to  *)
(* conferences.                                                            *)
FoundedRight(f) ==
  /\ f.entry \in Seq(Entries) /\ f.subs \in [Users -> SUBSET (1 .. Len(f.entry))]
  /\ \A c \in 1 .. Len(f.entry) : /\ f.entry[c].creator \in Users
                                  /\ f.entry[c].comconf \in 0 .. Len(f.entry)
ConfsFounded == Nobody \notin Users /\ \A f \in Founded : FoundedRight(f)

Count == 1 .. Len(entry)
ConfTypes ==
  /\ entry \in Seq(Entries) /\ confrc \in Seq(SUBSET Users) /\ Len(confrc) = Len(entry)
  /\ may \in Seq(SUBSET Users) /\ Len(may) = Len(entry)
  /\ subs \in [Users -> SUBSET Count] /\ pc \in [Users -> {"off", "login", "idle", "ask"}]
  /\ \E S : job \in [Users -> S]
  /\ kept \in [Users -> SUBSET Nat]
  /\ \A c \in Count : entry[c].comconf \in 0 .. Len(entry)

(* The list and the type of a conference let in whom its creator lets in.  *)
RightIs(c) == \A u \in Users : u \in may[c] <=> Conferences!Right(c, u) = 0

(* What is asked about stays as it was: it is the user's own.              *)
Asking(u) ==
  pc[u] = "ask" =>
    LET j == job[u] IN
    /\ j.op \in {"create", "rename", "link", "delete", "mod"}
    /\ j.op = "create" => j.name \in Names /\ j.access \in Conferences!Accesses
    /\ j.op # "create" => j.conf \in Count /\ entry[j.conf].creator = u
    /\ j.op = "rename" => j.name \in Names
    /\ j.op = "link"   => j.to \in Count
    /\ j.op = "mod"    => /\ j.copy \in Entries /\ j.copy.creator = u
                          /\ j.copy.comconf = entry[j.conf].comconf

(* No comments go to what is being deleted.                                *)
Parting(u) ==
  job[u].op = "delete" => pc[u] = "ask" /\ \A d \in Count \ raced : entry[d].comconf # job[u].conf

IsForce(j) == \E t, y : j = [op |-> "force", todo |-> t, types |-> y]

(* Who logs in has been through the others, and creators stay creators.    *)
Entering(u) ==
  pc[u] = "login" =>
    LET j == job[u] IN
    /\ IsForce(j) /\ j.todo \subseteq Count
    /\ \A c \in j.todo : /\ j.types[c].access \in Conferences!Accesses
                         /\ j.types[c].creator = u <=> entry[c].creator = u
    /\ \A c \in subs[u] \ j.todo : u \in may[c] \/ c \in kept[u]

Inside(u) == pc[u] \in {"idle", "ask"} => \A c \in subs[u] : u \in may[c] \/ c \in kept[u]
LinkIs(c) == c \notin raced /\ entry[c].comconf # 0 => Conferences!Live(entry[c].comconf)

ConfInv ==
  /\ ConfTypes
  /\ \A c \in Count : RightIs(c) /\ LinkIs(c)
  /\ \A u \in Users : Asking(u) /\ Parting(u) /\ Entering(u) /\ Inside(u)

-----------------------------------------------------------------------------
LEMMA EntriesAre ==
  ASSUME ConfTypes
  PROVE  /\ Len(entry) \in Nat /\ DOMAIN entry = Count /\ DOMAIN may = Count /\ DOMAIN confrc = Count
         /\ \A c \in Count : /\ entry[c] \in Entries /\ entry[c].access \in Conferences!Accesses
                             /\ may[c] \subseteq Users /\ confrc[c] \subseteq Users
                             /\ subs \in [Users -> SUBSET Count]
<1>1. /\ Len(entry) \in Nat /\ DOMAIN entry = Count /\ DOMAIN may = Count /\ DOMAIN confrc = Count
  BY LenProperties DEF ConfTypes, Count
<1>2. ASSUME NEW c \in Count PROVE entry[c] \in Entries /\ may[c] \in SUBSET Users /\ confrc[c] \in SUBSET Users
  BY ElementOfSeq DEF ConfTypes, Count
<1>3. \A e \in Entries : e.access \in Conferences!Accesses
  BY DEF Entries
<1> QED BY <1>1, <1>2, <1>3 DEF ConfTypes

LEMMA RightZero ==
  ASSUME NEW list, NEW u, NEW e, e.access \in Conferences!Accesses
  PROVE  Conferences!ConfRight(list, u, e) = 0 <=>
           \/ e.creator = u
           \/ e.access = "open" /\ u \notin list
           \/ e.access # "open" /\ u \in list
BY DEF Conferences!ConfRight, Conferences!Accesses

LEMMA Asked ==
  ASSUME ConfTypes, NEW u \in Users, NEW p \in {"off", "login", "idle", "ask"}, NEW j,
         Conferences!Goto(u, p, j)
  PROVE  /\ pc' \in [Users -> {"off", "login", "idle", "ask"}] /\ \E S : job' \in [Users -> S]
         /\ pc'[u] = p /\ job'[u] = j
         /\ \A v \in Users \ {u} : pc'[v] = pc[v] /\ job'[v] = job[v]
<1>1. PICK S : job \in [Users -> S]
  BY DEF ConfTypes
<1>2. job' \in [Users -> S \cup {j}] /\ job'[u] = j /\ \A v \in Users \ {u} : job'[v] = job[v]
  BY <1>1 DEF Conferences!Goto
<1> QED BY <1>2 DEF ConfTypes, Conferences!Goto

(* What a user does that changes no conference is nothing to the others.   *)
LEMMA Quiet ==
  ASSUME ConfInv, NEW u \in Users, entry' = entry, confrc' = confrc, may' = may, raced' = raced,
         pc' \in [Users -> {"off", "login", "idle", "ask"}], \E S : job' \in [Users -> S],
         \A v \in Users \ {u} : pc'[v] = pc[v] /\ job'[v] = job[v],
         subs' \in [Users -> SUBSET Count], kept' \in [Users -> SUBSET Nat],
         \A v \in Users \ {u} : subs'[v] = subs[v] /\ kept'[v] = kept[v],
         Asking(u)', Parting(u)', Entering(u)', Inside(u)'
  PROVE  ConfInv'
<1>1. ConfTypes'
  BY DEF ConfInv, ConfTypes, Count
<1>2. \A c \in Count : RightIs(c)' /\ LinkIs(c)'
  BY DEF ConfInv, RightIs, LinkIs, Conferences!Right, Conferences!Live
<1>3. ASSUME NEW v \in Users \ {u} PROVE Asking(v)' /\ Parting(v)' /\ Entering(v)' /\ Inside(v)'
  <2>1. pc'[v] = pc[v] /\ job'[v] = job[v] /\ subs'[v] = subs[v] /\ kept'[v] = kept[v]
    OBVIOUS
  <2>2. Asking(v)' /\ Parting(v)'
    BY <2>1 DEF ConfInv, Asking, Parting, Count
  <2>3. Entering(v)' /\ Inside(v)'
    BY <2>1 DEF ConfInv, Entering, Inside, Count
  <2> QED BY <2>2, <2>3
<1> QED BY <1>1, <1>2, <1>3 DEF ConfInv, Count

LEMMA ConfBegins == ASSUME ConfsFounded, Conferences!Init PROVE ConfInv
<1>1. PICK f \in Founded : entry = f.entry /\ subs = f.subs
  BY DEF Conferences!Init
<1>2. FoundedRight(f) /\ Nobody \notin Users
  BY DEF ConfsFounded
<1>3. /\ entry \in Seq(Entries) /\ Len(entry) \in Nat /\ DOMAIN entry = 1 .. Len(entry)
      /\ subs \in [Users -> SUBSET Count]
      /\ \A c \in Count : /\ entry[c] \in Entries /\ entry[c].creator \in Users
                          /\ entry[c].comconf \in 0 .. Len(entry)
  BY <1>1, <1>2, LenProperties, ElementOfSeq DEF FoundedRight, Count
<1>4. /\ confrc = [c \in 1 .. Len(entry) |-> {}]
      /\ may = [c \in 1 .. Len(entry) |-> IF entry[c].access = "open" THEN Users ELSE {entry[c].creator}]
  BY <1>3 DEF Conferences!Init, Conferences!Numbers
<1>5. confrc \in Seq(SUBSET Users) /\ Len(confrc) = Len(entry)
  BY <1>3, <1>4
<1>6. may \in Seq(SUBSET Users) /\ Len(may) = Len(entry)
  BY <1>3, <1>4 DEF Count
<1>7. /\ pc = [u \in Users |-> "off"] /\ job = [u \in Users |-> [op |-> "none"]]
      /\ kept = [u \in Users |-> {}] /\ raced = {}
  BY DEF Conferences!Init, Conferences!NoJob
<1>8. ConfTypes
  <2>1. job \in [Users -> {[op |-> "none"]}]
    BY <1>7
  <2> QED BY <1>3, <1>5, <1>6, <1>7, <2>1 DEF ConfTypes, Count
<1>9. ASSUME NEW c \in Count PROVE RightIs(c) /\ LinkIs(c)
  <2>1. entry[c].access \in Conferences!Accesses
    BY <1>3 DEF Entries
  <2>2. RightIs(c)
    BY <1>3, <1>4, <2>1, RightZero DEF RightIs, Conferences!Right, Count
  <2>3. LinkIs(c)
    BY <1>2, <1>3 DEF LinkIs, Conferences!Live, Count
  <2> QED BY <2>2, <2>3
<1>10. ASSUME NEW u \in Users PROVE Asking(u) /\ Parting(u) /\ Entering(u) /\ Inside(u)
  BY <1>7 DEF Asking, Parting, Entering, Inside
<1> QED BY <1>8, <1>9, <1>10 DEF ConfInv

-----------------------------------------------------------------------------
LEMMA LoginKeeps == ASSUME ConfInv, NEW u \in Users, Conferences!Login(u) PROVE ConfInv'
<1> DEFINE types == [c \in subs[u] |-> [creator |-> entry[c].creator, access |-> entry[c].access]]
           j == [op |-> "force", todo |-> subs[u], types |-> types]
<1>1. /\ Conferences!Goto(u, "login", j) /\ kept' = [kept EXCEPT ![u] = {}] /\ entry' = entry
      /\ confrc' = confrc /\ subs' = subs /\ may' = may /\ raced' = raced
  BY DEF Conferences!Login, Conferences!files
<1>2. /\ j.op = "force" /\ j.todo = subs[u] /\ j.types = types
      /\ IsForce(j)
  BY DEF IsForce
<1>3. ASSUME NEW c \in subs[u]
      PROVE  types[c].creator = entry[c].creator /\ types[c].access = entry[c].access
  BY <1>3
<1> HIDE DEF types, j
<1>4. ConfTypes /\ subs[u] \subseteq Count /\ \A c \in Count : entry[c].access \in Conferences!Accesses
  BY EntriesAre DEF ConfInv, ConfTypes
<1>5. /\ pc' \in [Users -> {"off", "login", "idle", "ask"}] /\ \E S : job' \in [Users -> S]
      /\ pc'[u] = "login" /\ job'[u] = j
      /\ \A v \in Users \ {u} : pc'[v] = pc[v] /\ job'[v] = job[v]
  BY <1>1, <1>4, Asked
<1>6. Asking(u)' /\ Parting(u)' /\ Inside(u)'
  BY <1>2, <1>5 DEF Asking, Parting, Inside
<1>7. Entering(u)'
  BY <1>1, <1>2, <1>3, <1>4, <1>5 DEF Entering, Count
<1> QED BY <1>1, <1>4, <1>5, <1>6, <1>7, Quiet DEF ConfTypes

LEMMA IsEntering ==
  ASSUME NEW u \in Users, IsForce(job'[u]), job'[u].todo \subseteq Count',
         \A d \in job'[u].todo : /\ job'[u].types[d].access \in Conferences!Accesses
                                 /\ job'[u].types[d].creator = u <=> entry'[d].creator = u,
         \A d \in subs'[u] \ job'[u].todo : u \in may'[d] \/ d \in kept'[u]
  PROVE  Entering(u)'
BY DEF Entering

LEMMA ForceKeeps == ASSUME ConfInv, NEW u \in Users, Conferences!ForceUnsubscribe(u) PROVE ConfInv'
<1> DEFINE j == job[u]
           c == Conferences!Min(j.todo)
           S == Conferences!Matches(subs[u], entry[c].name)
           sure == S = {c} /\ Conferences!ConfNum(entry[c].name) = c /\ entry[c].access = j.types[c].access
           jj == [j EXCEPT !.todo = @ \ {c}]
<1>1. /\ pc[u] = "login" /\ j.todo # {} /\ Conferences!Goto(u, "login", jj)
      /\ kept' = [kept EXCEPT ![u] = @ \cup IF sure THEN {} ELSE {c}]
      /\ entry' = entry /\ confrc' = confrc /\ may' = may /\ raced' = raced
  BY DEF Conferences!ForceUnsubscribe, Conferences!files
<1>2. \/ Conferences!ConfRight(confrc[c], u, j.types[c]) = 0 /\ subs' = subs
      \/ /\ Conferences!ConfRight(confrc[c], u, j.types[c]) # 0
         /\ \E D \in IF S = {c} THEN {Conferences!Picked(S)} ELSE {{}} \cup {{d} : d \in Conferences!Picked(S)} :
              subs' = [subs EXCEPT ![u] = @ \ D]
  BY DEF Conferences!ForceUnsubscribe
<1>3. ConfTypes /\ j.todo \subseteq Count /\ Len(entry) \in Nat
  BY <1>1, LenProperties DEF ConfInv, Entering, ConfTypes
<1>4. c \in j.todo
  <2>1. \E m \in j.todo : \A k \in j.todo : m <= k
    BY <1>1, <1>3, LeastOf DEF Count
  <2> QED BY <2>1 DEF Conferences!Min
<1>5. /\ c \in Count /\ j.types[c].access \in Conferences!Accesses
      /\ j.types[c].creator = u <=> entry[c].creator = u
      /\ entry[c].access \in Conferences!Accesses
  BY <1>1, <1>3, <1>4, EntriesAre DEF ConfInv, Entering
<1>6. /\ j.op = "force" /\ jj.op = "force" /\ jj.todo = j.todo \ {c} /\ jj.types = j.types
      /\ IsForce(jj)
  <2>1. IsForce(j)
    BY <1>1 DEF ConfInv, Entering
  <2>2. PICK t, y : j = [op |-> "force", todo |-> t, types |-> y]
    BY <2>1 DEF IsForce
  <2>3. jj = [op |-> "force", todo |-> t \ {c}, types |-> y] /\ j.todo = t /\ j.types = y
    BY <2>2
  <2> QED BY <2>2, <2>3 DEF IsForce
<1> HIDE DEF jj
<1>7. /\ pc' \in [Users -> {"off", "login", "idle", "ask"}] /\ \E T : job' \in [Users -> T]
      /\ pc'[u] = "login" /\ job'[u] = jj
      /\ \A v \in Users \ {u} : pc'[v] = pc[v] /\ job'[v] = job[v]
  BY <1>1, <1>3, Asked
<1>8. /\ subs' \in [Users -> SUBSET Count] /\ subs'[u] \subseteq subs[u]
      /\ \A v \in Users \ {u} : subs'[v] = subs[v]
  BY <1>2, <1>3 DEF ConfTypes
<1>9. /\ kept' \in [Users -> SUBSET Nat] /\ kept[u] \subseteq kept'[u] /\ (~sure => c \in kept'[u])
      /\ \A v \in Users \ {u} : kept'[v] = kept[v]
  <2>1. c \in Nat
    BY <1>3, <1>5 DEF Count
  <2> QED BY <1>1, <1>3, <2>1 DEF ConfTypes
<1>10. Asking(u)' /\ Parting(u)' /\ Inside(u)'
  BY <1>6, <1>7 DEF Asking, Parting, Inside
<1>11. ASSUME sure, c \in subs'[u] PROVE u \in may[c]
  <2>1. Conferences!Picked(S) = {c}
    BY <1>11 DEF Conferences!Picked
  <2>2. Conferences!ConfRight(confrc[c], u, j.types[c]) = 0
    <3>1. S = {c}
      BY <1>11
    <3> HIDE DEF S, j, c
    <3>2. ASSUME subs' = [subs EXCEPT ![u] = @ \ {c}] PROVE FALSE
      BY <1>3, <1>11, <3>2 DEF ConfTypes
    <3> QED BY <1>2, <2>1, <3>1, <3>2
  <2>3. Conferences!ConfRight(confrc[c], u, entry[c]) = 0
    BY <1>5, <1>11, <2>2, RightZero
  <2> QED BY <1>5, <2>3 DEF ConfInv, RightIs, Conferences!Right
<1>12. ASSUME NEW d \in subs'[u] \ jj.todo PROVE u \in may[d] \/ d \in kept'[u]
  BY <1>1, <1>6, <1>8, <1>9, <1>11 DEF ConfInv, Entering
<1>13. Entering(u)'
  <2>1. \A d \in j.todo : /\ j.types[d].access \in Conferences!Accesses
                          /\ j.types[d].creator = u <=> entry[d].creator = u
    BY <1>1 DEF ConfInv, Entering
  <2>2. /\ jj.todo \subseteq Count' /\ entry' = entry
        /\ \A d \in jj.todo : /\ jj.types[d].access \in Conferences!Accesses
                              /\ jj.types[d].creator = u <=> entry[d].creator = u
    BY <1>1, <1>3, <1>6, <2>1 DEF Count
  <2>3. \A d \in subs'[u] \ jj.todo : u \in may'[d] \/ d \in kept'[u]
    BY <1>1, <1>12
  <2> HIDE DEF j, c, sure, S
  <2>4. IsForce(job'[u]) /\ job'[u].todo \subseteq Count'
    BY <1>6, <1>7, <2>2
  <2>5. \A d \in job'[u].todo : /\ job'[u].types[d].access \in Conferences!Accesses
                                /\ job'[u].types[d].creator = u <=> entry'[d].creator = u
    BY <1>7, <2>2
  <2>6. \A d \in subs'[u] \ job'[u].todo : u \in may'[d] \/ d \in kept'[u]
    BY <1>7, <2>3
  <2> QED BY <2>4, <2>5, <2>6, IsEntering
<1> QED BY <1>1, <1>7, <1>8, <1>9, <1>10, <1>13, Quiet

(* A step that begins or leaves a question, or a session.                  *)
LEMMA TurnKeeps ==
  ASSUME ConfInv, NEW u \in Users, NEW p \in {"off", "idle", "ask"}, NEW j, Conferences!Goto(u, p, j),
         entry' = entry, confrc' = confrc, subs' = subs, may' = may, kept' = kept, raced' = raced,
         p = "ask" => /\ pc[u] = "idle" /\ Asking(u)'
                      /\ j.op = "delete" => \A d \in Count \ raced : entry[d].comconf # j.conf,
         p # "ask" => j = Conferences!NoJob,
         p = "idle" => pc[u] = "ask" \/ (pc[u] = "login" /\ job[u].todo = {})
  PROVE  ConfInv'
<1>1. ConfTypes
  BY DEF ConfInv
<1>2. /\ pc' \in [Users -> {"off", "login", "idle", "ask"}] /\ \E S : job' \in [Users -> S]
      /\ pc'[u] = p /\ job'[u] = j
      /\ \A v \in Users \ {u} : pc'[v] = pc[v] /\ job'[v] = job[v]
  BY <1>1, Asked
<1>3. Asking(u)' /\ Parting(u)' /\ Entering(u)'
  BY <1>2 DEF Asking, Parting, Entering, Conferences!NoJob, Count
<1>4. Inside(u)'
  BY <1>2 DEF ConfInv, Inside, Entering
<1> QED BY <1>1, <1>2, <1>3, <1>4, Quiet DEF ConfTypes

LEMMA LoggedInKeeps == ASSUME ConfInv, NEW u \in Users, Conferences!LoggedIn(u) PROVE ConfInv'
BY TurnKeeps DEF Conferences!LoggedIn, Conferences!files, Conferences!history

LEMMA LeaveKeeps == ASSUME ConfInv, NEW u \in Users, Conferences!Leave(u) PROVE ConfInv'
BY TurnKeeps DEF Conferences!Leave, Conferences!files, Conferences!history

LEMMA AnswerKeeps == ASSUME ConfInv, NEW u \in Users, Conferences!Answer(u) PROVE ConfInv'
BY TurnKeeps DEF Conferences!Answer, Conferences!Answered, Conferences!files, Conferences!history

(* The questions: each is about a conference of the user's own.            *)
LEMMA AskKeeps ==
  ASSUME ConfInv, NEW u \in Users, NEW j, Conferences!Ask(u, j),
         UNCHANGED << Conferences!files, subs, Conferences!history >>,
         j.op \in {"create", "rename", "link", "delete", "mod"},
         j.op = "create" => j.name \in Names /\ j.access \in Conferences!Accesses,
         j.op # "create" => j.conf \in Count /\ entry[j.conf].creator = u,
         j.op = "rename" => j.name \in Names,
         j.op = "link"   => j.to \in Count,
         j.op = "mod"    => /\ j.copy \in Entries /\ j.copy.creator = u
                            /\ j.copy.comconf = entry[j.conf].comconf,
         j.op = "delete" => \A d \in Count \ raced : entry[d].comconf # j.conf
  PROVE  ConfInv'
<1>1. ConfTypes
  BY DEF ConfInv
<1>2. /\ pc[u] = "idle" /\ Conferences!Goto(u, "ask", j) /\ entry' = entry /\ confrc' = confrc
      /\ subs' = subs /\ may' = may /\ kept' = kept /\ raced' = raced
  BY DEF Conferences!Ask, Conferences!Gives, Conferences!files, Conferences!history
<1>3. pc'[u] = "ask" /\ job'[u] = j
  BY <1>1, <1>2, Asked
<1>4. Asking(u)'
  BY <1>2, <1>3 DEF Asking, Count
<1> QED BY <1>2, <1>4, TurnKeeps

LEMMA CreateConfKeeps ==
  ASSUME ConfInv, NEW u \in Users, NEW n \in Names, NEW a \in Conferences!Accesses,
         Conferences!CreateConf(u, n, a)
  PROVE  ConfInv'
BY AskKeeps DEF Conferences!CreateConf

LEMMA ChangeCnameKeeps ==
  ASSUME ConfInv, NEW u \in Users, NEW c \in Count, NEW n \in Names, Conferences!ChangeCname(u, c, n)
  PROVE  ConfInv'
BY AskKeeps DEF Conferences!ChangeCname, Conferences!Own

LEMMA ChangeComcKeeps ==
  ASSUME ConfInv, NEW u \in Users, NEW c \in Count, NEW d \in Count, Conferences!ChangeComc(u, c, d)
  PROVE  ConfInv'
BY AskKeeps DEF Conferences!ChangeComc, Conferences!Own

LEMMA DeleteConfKeeps ==
  ASSUME ConfInv, NEW u \in Users, NEW c \in Count, Conferences!DeleteConf(u, c)
  PROVE  ConfInv'
<1>1. Conferences!Numbers = Count
  BY EntriesAre DEF ConfInv, Conferences!Numbers
<1> QED BY <1>1, AskKeeps DEF Conferences!DeleteConf, Conferences!Own

LEMMA ModConfKeeps ==
  ASSUME ConfInv, NEW u \in Users, NEW c \in Count, NEW n \in Names, NEW a \in Conferences!Accesses,
         Conferences!ModConf(u, c, n, a)
  PROVE  ConfInv'
<1> DEFINE e == [entry[c] EXCEPT !.name = n, !.access = a]
           j == [op |-> "mod", conf |-> c, copy |-> e]
<1>1. entry[c] \in Entries /\ n \in Labels
  BY EntriesAre DEF ConfInv, Labels
<1>2. e \in Entries /\ e.creator = entry[c].creator /\ e.comconf = entry[c].comconf
  BY <1>1 DEF Entries
<1> HIDE DEF e
<1>3. j.op = "mod" /\ j.conf = c /\ j.copy = e
  OBVIOUS
<1>4. /\ Conferences!Ask(u, j) /\ entry[c].creator = u
      /\ UNCHANGED << Conferences!files, subs, Conferences!history >>
  BY DEF Conferences!ModConf, Conferences!Own, e
<1> HIDE DEF j
<1> QED BY <1>2, <1>3, <1>4, AskKeeps

-----------------------------------------------------------------------------
(* Subscribing: only with a right to.                                      *)
LEMMA SubscribeKeeps ==
  ASSUME ConfInv, NEW u \in Users, NEW c \in Count, Conferences!Subscribe(u, c) PROVE ConfInv'
<1>1. /\ pc[u] = "idle" /\ Conferences!Right(c, u) = 0 /\ subs' = [subs EXCEPT ![u] = @ \cup {c}]
      /\ entry' = entry /\ confrc' = confrc /\ may' = may /\ kept' = kept /\ raced' = raced
      /\ pc' = pc /\ job' = job
  BY DEF Conferences!Subscribe, Conferences!Gives, Conferences!files, Conferences!session, Conferences!history
<1>2. ConfTypes /\ u \in may[c]
  BY <1>1 DEF ConfInv, RightIs
<1>3. subs' \in [Users -> SUBSET Count] /\ subs'[u] = subs[u] \cup {c} /\ \A v \in Users \ {u} : subs'[v] = subs[v]
  BY <1>1, <1>2 DEF ConfTypes
<1>4. Asking(u)' /\ Parting(u)' /\ Entering(u)' /\ Inside(u)'
  BY <1>1, <1>2, <1>3 DEF ConfInv, Asking, Parting, Entering, Inside, Count
<1> QED BY <1>1, <1>2, <1>3, <1>4, Quiet DEF ConfTypes

LEMMA UnsubscribeKeeps ==
  ASSUME ConfInv, NEW u \in Users, NEW c \in Count, Conferences!Unsubscribe(u, c) PROVE ConfInv'
<1>1. /\ pc[u] = "idle" /\ subs' = [subs EXCEPT ![u] = @ \ {c}]
      /\ entry' = entry /\ confrc' = confrc /\ may' = may /\ kept' = kept /\ raced' = raced
      /\ pc' = pc /\ job' = job
  BY DEF Conferences!Unsubscribe, Conferences!Gives, Conferences!files, Conferences!session, Conferences!history
<1>2. ConfTypes
  BY DEF ConfInv
<1>3. subs' \in [Users -> SUBSET Count] /\ subs'[u] = subs[u] \ {c} /\ \A v \in Users \ {u} : subs'[v] = subs[v]
  BY <1>1, <1>2 DEF ConfTypes
<1>4. Asking(u)' /\ Parting(u)' /\ Entering(u)' /\ Inside(u)'
  BY <1>1, <1>3 DEF ConfInv, Asking, Parting, Entering, Inside, Count
<1> QED BY <1>1, <1>2, <1>3, <1>4, Quiet DEF ConfTypes

-----------------------------------------------------------------------------
(* A change of conferences that the others see: what they ask about is     *)
(* theirs, and those who lose a right are remembered.                      *)
LEMMA ChangeKeepsOthers ==
  ASSUME ConfInv, NEW v \in Users, Len(entry) <= Len(entry'), Len(entry') \in Nat,
         pc'[v] = pc[v], job'[v] = job[v], subs'[v] = subs[v], kept[v] \subseteq kept'[v],
         \A c \in Count : /\ entry'[c].creator = v <=> entry[c].creator = v
                          /\ entry[c].creator = v => entry'[c].comconf = entry[c].comconf
                          /\ pc[v] # "off" /\ v \in may[c] => v \in may'[c] \/ c \in kept'[v],
         job[v].op = "delete" => \A d \in Count' \ raced' : entry'[d].comconf # job[v].conf
  PROVE  Asking(v)' /\ Parting(v)' /\ Entering(v)' /\ Inside(v)'
<1>1. ConfTypes /\ Len(entry) \in Nat /\ Count \subseteq Count' /\ subs[v] \subseteq Count
  <2>1. ConfTypes /\ Len(entry) \in Nat
    BY EntriesAre DEF ConfInv
  <2>2. Count \subseteq Count'
    BY <2>1 DEF Count
  <2>3. subs \in [Users -> SUBSET Count]
    BY <2>1 DEF ConfTypes
  <2> QED BY <2>1, <2>2, <2>3
<1>2. Asking(v)'
  <2> SUFFICES ASSUME pc[v] = "ask" PROVE Asking(v)'
    BY DEF Asking
  <2>1. /\ job[v].op \in {"create", "rename", "link", "delete", "mod"}
        /\ job[v].op = "create" => job[v].name \in Names /\ job[v].access \in Conferences!Accesses
        /\ job[v].op # "create" => job[v].conf \in Count /\ entry[job[v].conf].creator = v
        /\ job[v].op = "rename" => job[v].name \in Names
        /\ job[v].op = "link"   => job[v].to \in Count
        /\ job[v].op = "mod"    => /\ job[v].copy \in Entries /\ job[v].copy.creator = v
                                   /\ job[v].copy.comconf = entry[job[v].conf].comconf
    BY DEF ConfInv, Asking
  <2>2. job[v].op # "create" =>
          /\ job[v].conf \in Count' /\ entry'[job[v].conf].creator = v
          /\ entry'[job[v].conf].comconf = entry[job[v].conf].comconf
    BY <1>1, <2>1
  <2>3. job[v].op = "link" => job[v].to \in Count'
    BY <1>1, <2>1
  <2> QED BY <2>1, <2>2, <2>3 DEF Asking
<1>3. Parting(v)'
  BY DEF ConfInv, Parting
<1>4. Entering(v)'
  <2> SUFFICES ASSUME pc[v] = "login" PROVE Entering(v)'
    BY DEF Entering
  <2>1. /\ IsForce(job[v]) /\ job[v].todo \subseteq Count
        /\ \A c \in job[v].todo : /\ job[v].types[c].access \in Conferences!Accesses
                                  /\ job[v].types[c].creator = v <=> entry[c].creator = v
        /\ \A c \in subs[v] \ job[v].todo : v \in may[c] \/ c \in kept[v]
    BY DEF ConfInv, Entering
  <2>2. \A c \in job'[v].todo : /\ job'[v].types[c].access \in Conferences!Accesses
                                /\ job'[v].types[c].creator = v <=> entry'[c].creator = v
    BY <1>1, <2>1
  <2>3. \A c \in subs'[v] \ job'[v].todo : v \in may'[c] \/ c \in kept'[v]
    BY <1>1, <2>1
  <2>4. IsForce(job'[v]) /\ job'[v].todo \subseteq Count'
    BY <1>1, <2>1
  <2> QED BY <2>2, <2>3, <2>4, IsEntering
<1>5. Inside(v)'
  BY <1>1 DEF ConfInv, Inside
<1> QED BY <1>2, <1>3, <1>4, <1>5

(* Rights hang on the creator, the type and the two lists alone.           *)
LEMMA SameRight ==
  ASSUME ConfInv, NEW c \in Count, entry'[c].creator = entry[c].creator, entry'[c].access = entry[c].access,
         confrc'[c] = confrc[c], may'[c] = may[c]
  PROVE  RightIs(c)'
<1>1. RightIs(c) /\ entry[c].access \in Conferences!Accesses
  BY EntriesAre DEF ConfInv
<1>2. ASSUME NEW v \in Users
      PROVE  Conferences!ConfRight(confrc'[c], v, entry'[c]) = 0 <=> Conferences!ConfRight(confrc[c], v, entry[c]) = 0
  BY <1>1, RightZero
<1> QED BY <1>1, <1>2 DEF RightIs, Conferences!Right

LEMMA DecideIs ==
  ASSUME ConfTypes, NEW m \in Seq(SUBSET Users), Conferences!Decide(m)
  PROVE  /\ may' = m /\ kept' \in [Users -> SUBSET Nat]
         /\ \A v \in Users : kept[v] \subseteq kept'[v]
         /\ \A v \in Users : \A c \in Count : pc[v] # "off" /\ v \in may[c] => v \in m[c] \/ c \in kept'[v]
<1>1. Conferences!Numbers = Count /\ Count \subseteq Nat
  BY EntriesAre DEF Conferences!Numbers, Count
<1> QED BY <1>1 DEF ConfTypes, Conferences!Decide, Conferences!Withdrawn

(* After an answer the user is at the prompt again.                        *)
LEMMA BackKeeps ==
  ASSUME NEW u \in Users, pc'[u] = "idle", job'[u] = Conferences!NoJob,
         \A c \in subs'[u] : u \in may'[c] \/ c \in kept'[u]
  PROVE  Asking(u)' /\ Parting(u)' /\ Entering(u)' /\ Inside(u)'
BY DEF Asking, Parting, Entering, Inside, Conferences!NoJob

LEMMA AnsweredIs ==
  ASSUME ConfInv, NEW u \in Users, NEW op, Conferences!Answered(u, op)
  PROVE  /\ pc[u] = "ask" /\ job[u].op = op
         /\ pc' \in [Users -> {"off", "login", "idle", "ask"}] /\ \E S : job' \in [Users -> S]
         /\ pc'[u] = "idle" /\ job'[u] = Conferences!NoJob
         /\ \A v \in Users \ {u} : pc'[v] = pc[v] /\ job'[v] = job[v]
BY Asked DEF ConfInv, Conferences!Answered

LEMMA OneEntry ==
  ASSUME ConfTypes, NEW c \in Count, NEW e \in Entries, entry' = [entry EXCEPT ![c] = e],
         e.comconf \in 0 .. Len(entry)
  PROVE  /\ entry' \in Seq(Entries) /\ Len(entry') = Len(entry) /\ entry'[c] = e
         /\ \A d \in Count \ {c} : entry'[d] = entry[d]
         /\ Count' = Count /\ \A d \in Count : entry'[d].comconf \in 0 .. Len(entry)
<1>1. /\ entry' \in Seq(Entries) /\ Len(entry') = Len(entry)
      /\ \A d \in Count : entry'[d] = IF d = c THEN e ELSE entry[d]
  BY ExceptSeq DEF ConfTypes, Count
<1> QED BY <1>1 DEF ConfTypes, Count

LEMMA RenameKeeps == ASSUME ConfInv, NEW u \in Users, Conferences!RenameStored(u) PROVE ConfInv'
<1> DEFINE c == job[u].conf
           e == [entry[c] EXCEPT !.name = job[u].name]
<1>1. /\ Conferences!Answered(u, "rename") /\ entry' = [entry EXCEPT ![c].name = job[u].name]
      /\ confrc' = confrc /\ subs' = subs /\ may' = may /\ kept' = kept /\ raced' = raced
  BY DEF Conferences!RenameStored, Conferences!history
<1>2. /\ pc[u] = "ask" /\ job[u].op = "rename"
      /\ pc' \in [Users -> {"off", "login", "idle", "ask"}] /\ \E S : job' \in [Users -> S]
      /\ pc'[u] = "idle" /\ job'[u] = Conferences!NoJob
      /\ \A v \in Users \ {u} : pc'[v] = pc[v] /\ job'[v] = job[v]
  BY <1>1, AnsweredIs
<1>3. ConfTypes /\ c \in Count /\ job[u].name \in Labels /\ entry[c] \in Entries
  BY <1>2, EntriesAre DEF ConfInv, Asking, Labels
<1>4. /\ e \in Entries /\ e.creator = entry[c].creator /\ e.access = entry[c].access
      /\ e.comconf = entry[c].comconf /\ entry' = [entry EXCEPT ![c] = e]
      /\ e.comconf \in 0 .. Len(entry) /\ e.access \in Conferences!Accesses
  BY <1>1, <1>3 DEF Entries, ConfTypes
<1> HIDE DEF e, c
<1>5. /\ entry' \in Seq(Entries) /\ Len(entry') = Len(entry) /\ Count' = Count
      /\ \A d \in Count : /\ entry'[d].creator = entry[d].creator /\ entry'[d].access = entry[d].access
                          /\ entry'[d].comconf = entry[d].comconf
                          /\ entry'[d].comconf \in 0 .. Len(entry)
  BY <1>3, <1>4, OneEntry
<1>6. ConfTypes' /\ Len(entry') \in Nat
  BY <1>1, <1>2, <1>3, <1>5, EntriesAre DEF ConfTypes
<1>7. ASSUME NEW d \in Count PROVE RightIs(d)' /\ LinkIs(d)'
  <2>1. RightIs(d)'
    BY <1>1, <1>5, SameRight
  <2>2. entry[d].comconf # 0 => entry[d].comconf \in Count
    BY <1>3, EntriesAre DEF ConfTypes, Count
  <2>3. LinkIs(d)
    BY DEF ConfInv
  <2>4. LinkIs(d)'
    BY <1>1, <1>5, <2>2, <2>3 DEF LinkIs, Conferences!Live
  <2> QED BY <2>1, <2>4
<1>8. ASSUME NEW v \in Users \ {u} PROVE Asking(v)' /\ Parting(v)' /\ Entering(v)' /\ Inside(v)'
  BY <1>1, <1>2, <1>5, <1>6, ChangeKeepsOthers DEF ConfInv, Parting
<1>9. Asking(u)' /\ Parting(u)' /\ Entering(u)' /\ Inside(u)'
  BY <1>1, <1>2, BackKeeps DEF ConfInv, Inside
<1> QED BY <1>5, <1>6, <1>7, <1>8, <1>9 DEF ConfInv

LEMMA ComcKeeps == ASSUME ConfInv, NEW u \in Users, Conferences!ComcStored(u) PROVE ConfInv'
<1> DEFINE c == job[u].conf
           d == job[u].to
           to == IF d = c THEN 0 ELSE d
           e == [entry[c] EXCEPT !.comconf = to]
<1>1. /\ Conferences!Answered(u, "link") /\ entry' = [entry EXCEPT ![c].comconf = to]
      /\ raced' = IF Conferences!Deleting(d) THEN raced \cup {c} ELSE raced \ {c}
      /\ confrc' = confrc /\ subs' = subs /\ may' = may /\ kept' = kept
  BY DEF Conferences!ComcStored
<1>2. /\ pc[u] = "ask" /\ job[u].op = "link"
      /\ pc' \in [Users -> {"off", "login", "idle", "ask"}] /\ \E S : job' \in [Users -> S]
      /\ pc'[u] = "idle" /\ job'[u] = Conferences!NoJob
      /\ \A v \in Users \ {u} : pc'[v] = pc[v] /\ job'[v] = job[v]
  BY <1>1, AnsweredIs
<1>3. /\ ConfTypes /\ c \in Count /\ d \in Count /\ to \in 0 .. Len(entry) /\ entry[c] \in Entries
      /\ entry[c].creator = u
  BY <1>2, EntriesAre DEF ConfInv, Asking, Count
<1>4. /\ e \in Entries /\ e.creator = entry[c].creator /\ e.access = entry[c].access
      /\ e.comconf = to /\ entry' = [entry EXCEPT ![c] = e]
  BY <1>1, <1>3 DEF Entries
<1> HIDE DEF e, c, d, to
<1>5. /\ entry' \in Seq(Entries) /\ Len(entry') = Len(entry) /\ Count' = Count
      /\ \A x \in Count : /\ entry'[x].creator = entry[x].creator /\ entry'[x].access = entry[x].access
                          /\ x # c => entry'[x].comconf = entry[x].comconf
                          /\ entry'[x].comconf \in 0 .. Len(entry)
      /\ entry'[c].comconf = to
  BY <1>3, <1>4, OneEntry
<1>6. ConfTypes' /\ Len(entry') \in Nat
  BY <1>1, <1>2, <1>3, <1>5, EntriesAre DEF ConfTypes
<1>7. ASSUME NEW x \in Count PROVE RightIs(x)' /\ LinkIs(x)'
  <2>1. RightIs(x)'
    BY <1>1, <1>5, SameRight
  <2>2. CASE x = c
    <3> SUFFICES ASSUME c \notin raced', to # 0 PROVE entry'[to].creator # Nobody
      BY <1>5, <2>1, <2>2 DEF LinkIs, Conferences!Live
    <3>1. ~Conferences!Deleting(d) /\ to = d
      BY <1>1 DEF to
    <3>2. entry[d].creator # Nobody
      BY <3>1 DEF Conferences!Deleting, Conferences!Live
    <3> QED BY <1>3, <1>5, <3>1, <3>2
  <2>3. CASE x # c
    <3>1. x \notin raced' /\ entry'[x].comconf # 0 => x \notin raced /\ entry[x].comconf # 0
      BY <1>1, <1>5, <2>3
    <3>2. entry[x].comconf # 0 => entry[x].comconf \in Count
      BY <1>3, EntriesAre DEF ConfTypes, Count
    <3>3. LinkIs(x) /\ entry'[x].comconf = entry[x].comconf
      BY <1>5, <2>3 DEF ConfInv
    <3> QED BY <1>5, <2>1, <3>1, <3>2, <3>3 DEF LinkIs, Conferences!Live
  <2> QED BY <2>1, <2>2, <2>3
<1>8. ASSUME NEW v \in Users \ {u} PROVE Asking(v)' /\ Parting(v)' /\ Entering(v)' /\ Inside(v)'
  <2>1. ASSUME job[v].op = "delete", NEW x \in Count \ raced' PROVE entry'[x].comconf # job[v].conf
    <3>1. CASE x = c
      <4>1. ~Conferences!Deleting(d)
        BY <1>1, <2>1, <3>1
      <4>2. d # job[v].conf /\ job[v].conf \in Count
        BY <2>1, <4>1 DEF Conferences!Deleting, ConfInv, Parting, Asking
      <4> QED BY <1>5, <3>1, <4>2 DEF to, Count
    <3>2. CASE x # c
      BY <1>1, <1>5, <2>1, <3>2 DEF ConfInv, Parting
    <3> QED BY <3>1, <3>2
  <2> QED BY <1>1, <1>2, <1>3, <1>5, <1>6, <2>1, ChangeKeepsOthers
<1>9. Asking(u)' /\ Parting(u)' /\ Entering(u)' /\ Inside(u)'
  BY <1>1, <1>2, BackKeeps DEF ConfInv, Inside
<1> QED BY <1>5, <1>6, <1>7, <1>8, <1>9 DEF ConfInv

LEMMA CreatedKeeps == ASSUME ConfInv, NEW u \in Users, Conferences!CreateStored(u) PROVE ConfInv'
<1> DEFINE j == job[u]
           c == Len(entry) + 1
           e == [name |-> j.name, creator |-> u, access |-> j.access, comconf |-> 0]
           m == IF j.access = "open" THEN Users ELSE {u}
<1>1. /\ Conferences!Answered(u, "create") /\ entry' = Append(entry, e) /\ confrc' = Append(confrc, {})
      /\ may' = Append(may, m) /\ subs' = [subs EXCEPT ![u] = @ \cup {c}] /\ kept' = kept /\ raced' = raced
  BY DEF Conferences!CreateStored
<1>2. /\ pc[u] = "ask" /\ job[u].op = "create"
      /\ pc' \in [Users -> {"off", "login", "idle", "ask"}] /\ \E S : job' \in [Users -> S]
      /\ pc'[u] = "idle" /\ job'[u] = Conferences!NoJob
      /\ \A v \in Users \ {u} : pc'[v] = pc[v] /\ job'[v] = job[v]
  BY <1>1, AnsweredIs
<1>3. ConfTypes /\ Len(entry) \in Nat /\ j.name \in Labels /\ j.access \in Conferences!Accesses
  BY <1>2, EntriesAre DEF ConfInv, Asking, Labels
<1>4. e \in Entries /\ e.creator = u /\ e.access = j.access /\ e.comconf = 0 /\ m \in SUBSET Users
  BY <1>3 DEF Entries
<1> HIDE DEF e, m
<1>5. /\ entry' \in Seq(Entries) /\ Len(entry') = c /\ entry'[c] = e
      /\ \A x \in Count : entry'[x] = entry[x]
  BY <1>1, <1>3, <1>4, AppendProperties DEF ConfTypes, Count
<1>6. /\ confrc' \in Seq(SUBSET Users) /\ Len(confrc') = c /\ confrc'[c] = {}
      /\ \A x \in Count : confrc'[x] = confrc[x]
  BY <1>1, <1>3, AppendProperties DEF ConfTypes, Count
<1>7. /\ may' \in Seq(SUBSET Users) /\ Len(may') = c /\ may'[c] = m
      /\ \A x \in Count : may'[x] = may[x]
  BY <1>1, <1>3, <1>4, AppendProperties DEF ConfTypes, Count
<1> HIDE DEF j
<1>8. Count' = Count \cup {c} /\ c \in Nat /\ c \notin Count /\ Count \subseteq Nat
  BY <1>3, <1>5 DEF Count
<1>9. /\ subs' \in [Users -> SUBSET Count'] /\ subs'[u] = subs[u] \cup {c}
      /\ \A v \in Users \ {u} : subs'[v] = subs[v]
  BY <1>1, <1>3, <1>8 DEF ConfTypes
<1>10. ConfTypes'
  <2>1. \A x \in Count' : entry'[x].comconf \in 0 .. Len(entry')
    <3>1. SUFFICES ASSUME NEW x \in Count' PROVE entry'[x].comconf \in 0 .. Len(entry')
      OBVIOUS
    <3>2. CASE x = c
      BY <1>4, <1>5, <1>8, <3>2
    <3>3. CASE x \in Count
      <4>1. entry[x].comconf \in 0 .. Len(entry) BY <1>3, <3>3 DEF ConfTypes
      <4>2. Len(entry') = Len(entry) + 1 BY <1>5
      <4> QED BY <1>3, <1>5, <3>3, <4>1, <4>2
    <3> QED BY <1>8, <3>2, <3>3
  <2> QED BY <1>1, <1>2, <1>3, <1>5, <1>6, <1>7, <1>9, <2>1 DEF ConfTypes
<1>11. ASSUME NEW x \in Count' PROVE RightIs(x)' /\ LinkIs(x)'
  <2>1. CASE x = c
    <3>1. LinkIs(x)'
      BY <1>4, <1>5, <2>1 DEF LinkIs
    <3>2. ASSUME NEW v \in Users PROVE v \in m <=> Conferences!ConfRight({}, v, e) = 0
      BY <1>3, <1>4, RightZero DEF m
    <3>3. RightIs(x)'
      BY <1>5, <1>6, <1>7, <2>1, <3>2 DEF RightIs, Conferences!Right
    <3> QED BY <2>1, <3>1, <3>3
  <2>2. CASE x \in Count
    <3>1. RightIs(x)'
      BY <1>5, <1>6, <1>7, <2>2, SameRight
    <3>2. LinkIs(x) /\ (entry[x].comconf # 0 => entry[x].comconf \in Count)
      BY <1>3, <2>2 DEF ConfInv, ConfTypes, Count
    <3>3. LinkIs(x)'
      BY <1>1, <1>5, <2>2, <3>2 DEF LinkIs, Conferences!Live
    <3> QED BY <3>1, <3>3
  <2> QED BY <1>8, <2>1, <2>2
<1>12. ASSUME NEW v \in Users \ {u} PROVE Asking(v)' /\ Parting(v)' /\ Entering(v)' /\ Inside(v)'
  <2>1. ASSUME job[v].op = "delete", NEW x \in Count' \ raced' PROVE entry'[x].comconf # job[v].conf
    <3>1. job[v].conf \in Count /\ \A d \in Count \ raced : entry[d].comconf # job[v].conf
      BY <2>1 DEF ConfInv, Parting, Asking
    <3> QED BY <1>1, <1>4, <1>5, <1>8, <3>1 DEF Count
  <2>2. Len(entry) <= Len(entry') /\ Len(entry') \in Nat
    BY <1>3, <1>5
  <2>3. \A x \in Count : entry'[x] = entry[x] /\ may'[x] = may[x]
    BY <1>5, <1>7
  <2>4. pc'[v] = pc[v] /\ job'[v] = job[v] /\ subs'[v] = subs[v] /\ kept'[v] = kept[v]
    BY <1>1, <1>2, <1>9
  <2> QED BY <2>1, <2>2, <2>3, <2>4, ChangeKeepsOthers
<1>13. Asking(u)' /\ Parting(u)' /\ Entering(u)' /\ Inside(u)'
  <2>1. u \in may'[c]
    BY <1>7 DEF m
  <2>2. \A x \in subs[u] : u \in may'[x] \/ x \in kept'[u]
    BY <1>1, <1>2, <1>3, <1>7 DEF ConfInv, Inside, ConfTypes
  <2> QED BY <1>2, <1>9, <2>1, <2>2, BackKeeps
<1> QED BY <1>10, <1>11, <1>12, <1>13 DEF ConfInv

(* One list of the conferences changes at one number.                      *)
LEMMA OneList ==
  ASSUME NEW T, NEW s \in Seq(T), NEW c \in 1 .. Len(s), NEW x \in T, NEW t, t = [s EXCEPT ![c] = x]
  PROVE  t \in Seq(T) /\ Len(t) = Len(s) /\ t[c] = x /\ \A d \in 1 .. Len(s) \ {c} : t[d] = s[d]
BY ExceptSeq

(* The conference is gone with its list, and nobody is let in.             *)
LEMMA DeletedKeeps ==
  ASSUME Nobody \notin Users, ConfInv, NEW u \in Users, Conferences!DeleteConfirmed(u) PROVE ConfInv'
<1> DEFINE c == job[u].conf
           e == [entry[c] EXCEPT !.name = << "deleted", c >>, !.access = "secret", !.creator = Nobody]
           m == [may EXCEPT ![c] = {}]
<1>1. /\ Conferences!Answered(u, "delete") /\ subs' = [subs EXCEPT ![u] = @ \ {c}]
      /\ entry' = [entry EXCEPT ![c] = e]
      /\ confrc' = [confrc EXCEPT ![c] = {}] /\ Conferences!Decide(m) /\ raced' = raced
  BY DEF Conferences!DeleteConfirmed
<1>2. /\ pc[u] = "ask" /\ job[u].op = "delete"
      /\ pc' \in [Users -> {"off", "login", "idle", "ask"}] /\ \E S : job' \in [Users -> S]
      /\ pc'[u] = "idle" /\ job'[u] = Conferences!NoJob
      /\ \A v \in Users \ {u} : pc'[v] = pc[v] /\ job'[v] = job[v]
  BY <1>1, AnsweredIs
<1>3. /\ ConfTypes /\ c \in Count /\ entry[c] \in Entries /\ entry[c].creator = u /\ Len(entry) \in Nat
      /\ \A d \in Count \ raced : entry[d].comconf # c
  BY <1>2, EntriesAre DEF ConfInv, Asking, Parting
<1>4. /\ e \in Entries /\ e.creator = Nobody /\ e.access = "secret" /\ e.comconf = entry[c].comconf
      /\ e.comconf \in 0 .. Len(entry)
  <2>1. << "deleted", c >> \in Labels
    BY <1>3 DEF Labels, Count
  <2>2. "secret" \in Conferences!Accesses
    BY DEF Conferences!Accesses
  <2> QED BY <1>3, <2>1, <2>2 DEF Entries, ConfTypes
<1> HIDE DEF e, c
<1>5. /\ entry' \in Seq(Entries) /\ Len(entry') = Len(entry) /\ entry'[c] = e /\ Count' = Count
      /\ \A x \in Count \ {c} : entry'[x] = entry[x]
      /\ \A x \in Count : entry'[x].comconf \in 0 .. Len(entry) /\ entry'[x].comconf = entry[x].comconf
  BY <1>1, <1>3, <1>4, OneEntry
<1>6. /\ confrc' \in Seq(SUBSET Users) /\ Len(confrc') = Len(entry) /\ confrc'[c] = {}
      /\ \A x \in Count \ {c} : confrc'[x] = confrc[x]
  BY <1>1, <1>3, OneList DEF ConfTypes, Count
<1>7. /\ m \in Seq(SUBSET Users) /\ Len(m) = Len(entry) /\ m[c] = {} /\ \A x \in Count \ {c} : m[x] = may[x]
  BY <1>3, OneList DEF ConfTypes, Count
<1> HIDE DEF m
<1>8. /\ may' = m /\ kept' \in [Users -> SUBSET Nat] /\ \A v \in Users : kept[v] \subseteq kept'[v]
      /\ \A v \in Users : \A x \in Count : pc[v] # "off" /\ v \in may[x] => v \in m[x] \/ x \in kept'[v]
  BY <1>1, <1>3, <1>7, DecideIs
<1>9. /\ subs' \in [Users -> SUBSET Count] /\ subs'[u] = subs[u] \ {c}
      /\ \A v \in Users \ {u} : subs'[v] = subs[v]
  BY <1>1, <1>3 DEF ConfTypes
<1>10. ConfTypes'
  BY <1>2, <1>3, <1>5, <1>6, <1>7, <1>8, <1>9 DEF ConfTypes
<1>11. ASSUME NEW x \in Count PROVE RightIs(x)' /\ LinkIs(x)'
  <2>1. RightIs(x)'
    <3>1. CASE x = c
      <4>1. ASSUME NEW v \in Users PROVE ~(Conferences!ConfRight({}, v, e) = 0)
        BY <1>4, RightZero DEF Conferences!Accesses
      <4> QED BY <1>5, <1>6, <1>7, <1>8, <3>1, <4>1 DEF RightIs, Conferences!Right
    <3>2. CASE x # c
      BY <1>5, <1>6, <1>7, <1>8, <3>2, SameRight
    <3> QED BY <3>1, <3>2
  <2>2. LinkIs(x) /\ (entry[x].comconf # 0 => entry[x].comconf \in Count)
    BY <1>3 DEF ConfInv, ConfTypes, Count
  <2>3. x \notin raced => entry[x].comconf # c
    BY <1>3
  <2>4. LinkIs(x)'
    BY <1>1, <1>5, <2>2, <2>3 DEF LinkIs, Conferences!Live
  <2> QED BY <2>1, <2>4
<1>12. ASSUME NEW v \in Users \ {u} PROVE Asking(v)' /\ Parting(v)' /\ Entering(v)' /\ Inside(v)'
  <2>1. ASSUME job[v].op = "delete", NEW x \in Count' \ raced' PROVE entry'[x].comconf # job[v].conf
    BY <1>1, <1>5, <2>1 DEF ConfInv, Parting
  <2>2. \A x \in Count : /\ entry'[x].creator = v <=> entry[x].creator = v
                         /\ entry[x].creator = v => entry'[x].comconf = entry[x].comconf
    BY <1>3, <1>4, <1>5
  <2>3. \A x \in Count : pc[v] # "off" /\ v \in may[x] => v \in may'[x] \/ x \in kept'[v]
    BY <1>8
  <2>4. pc'[v] = pc[v] /\ job'[v] = job[v] /\ subs'[v] = subs[v] /\ kept[v] \subseteq kept'[v]
    BY <1>2, <1>8, <1>9
  <2>5. Len(entry) <= Len(entry') /\ Len(entry') \in Nat
    BY <1>3, <1>5
  <2> QED BY <2>1, <2>2, <2>3, <2>4, <2>5, ChangeKeepsOthers
<1>13. Asking(u)' /\ Parting(u)' /\ Entering(u)' /\ Inside(u)'
  <2>1. \A x \in subs'[u] : u \in may'[x] \/ x \in kept'[u]
    BY <1>2, <1>3, <1>8, <1>9 DEF ConfInv, Inside, ConfTypes
  <2> QED BY <1>2, <2>1, BackKeeps
<1> QED BY <1>5, <1>10, <1>11, <1>12, <1>13 DEF ConfInv

(* A list that is read the other way round lets in who was kept out.       *)
LEMMA ModifiedKeeps == ASSUME ConfInv, NEW u \in Users, Conferences!ModStored(u) PROVE ConfInv'
<1> DEFINE c == job[u].conf
           e == job[u].copy
           turned == (entry[c].access = "open") # (e.access = "open")
           l == IF turned THEN (Users \ may[c]) \cup {u} ELSE may[c]
           m == [may EXCEPT ![c] = l]
<1>1. /\ Conferences!Answered(u, "mod") /\ entry' = [entry EXCEPT ![c] = e]
      /\ confrc' = confrc /\ subs' = subs /\ raced' = raced
  BY DEF Conferences!ModStored
<1>2. /\ pc[u] = "ask" /\ job[u].op = "mod"
      /\ pc' \in [Users -> {"off", "login", "idle", "ask"}] /\ \E S : job' \in [Users -> S]
      /\ pc'[u] = "idle" /\ job'[u] = Conferences!NoJob
      /\ \A v \in Users \ {u} : pc'[v] = pc[v] /\ job'[v] = job[v]
  BY <1>1, AnsweredIs
<1>3. /\ ConfTypes /\ c \in Count /\ e \in Entries /\ e.creator = u /\ e.comconf = entry[c].comconf
      /\ Len(entry) \in Nat /\ entry[c].creator = u /\ entry[c].access \in Conferences!Accesses
      /\ may[c] \subseteq Users /\ RightIs(c)
  BY <1>2, EntriesAre DEF ConfInv, Asking
<1>4. e.access \in Conferences!Accesses /\ e.comconf \in 0 .. Len(entry) /\ l \in SUBSET Users
  BY <1>3 DEF Entries, ConfTypes
<1>5. Conferences!Decide(m)
  BY DEF Conferences!ModStored
<1> HIDE DEF e, c, l
<1>6. /\ entry' \in Seq(Entries) /\ Len(entry') = Len(entry) /\ entry'[c] = e /\ Count' = Count
      /\ \A x \in Count \ {c} : entry'[x] = entry[x]
      /\ \A x \in Count : entry'[x].comconf \in 0 .. Len(entry) /\ entry'[x].comconf = entry[x].comconf
  BY <1>1, <1>3, <1>4, OneEntry
<1>7. /\ m \in Seq(SUBSET Users) /\ Len(m) = Len(entry) /\ m[c] = l /\ \A x \in Count \ {c} : m[x] = may[x]
  BY <1>3, <1>4, OneList DEF ConfTypes, Count
<1> HIDE DEF m
<1>8. /\ may' = m /\ kept' \in [Users -> SUBSET Nat] /\ \A v \in Users : kept[v] \subseteq kept'[v]
      /\ \A v \in Users : \A x \in Count : pc[v] # "off" /\ v \in may[x] => v \in m[x] \/ x \in kept'[v]
  BY <1>3, <1>5, <1>7, DecideIs
<1>9. ConfTypes'
  BY <1>1, <1>2, <1>3, <1>6, <1>7, <1>8 DEF ConfTypes
<1>10. ASSUME NEW v \in Users PROVE v \in l <=> Conferences!ConfRight(confrc[c], v, e) = 0
  <2>1. v \in may[c] <=> Conferences!ConfRight(confrc[c], v, entry[c]) = 0
    BY <1>3 DEF RightIs, Conferences!Right
  <2>2. v \in may[c] <=> \/ v = u
                         \/ entry[c].access = "open" /\ v \notin confrc[c]
                         \/ entry[c].access # "open" /\ v \in confrc[c]
    BY <1>3, <2>1, RightZero
  <2>3. Conferences!ConfRight(confrc[c], v, e) = 0 <=>
          \/ v = u
          \/ e.access = "open" /\ v \notin confrc[c]
          \/ e.access # "open" /\ v \in confrc[c]
    BY <1>3, <1>4, RightZero
  <2>4. v \in l <=> IF turned THEN v = u \/ v \notin may[c] ELSE v \in may[c]
    BY DEF l
  <2> QED BY <2>2, <2>3, <2>4
<1>11. ASSUME NEW x \in Count PROVE RightIs(x)' /\ LinkIs(x)'
  <2>1. RightIs(x)'
    <3>1. CASE x = c
      BY <1>1, <1>6, <1>7, <1>8, <1>10, <3>1 DEF RightIs, Conferences!Right
    <3>2. CASE x # c
      BY <1>1, <1>6, <1>7, <1>8, <3>2, SameRight
    <3> QED BY <3>1, <3>2
  <2>2. LinkIs(x) /\ (entry[x].comconf # 0 => entry[x].comconf \in Count)
    BY <1>3 DEF ConfInv, ConfTypes, Count
  <2>3. \A y \in Count : entry'[y].creator = entry[y].creator
    BY <1>3, <1>6
  <2>4. LinkIs(x)'
    BY <1>1, <1>6, <2>2, <2>3 DEF LinkIs, Conferences!Live
  <2> QED BY <2>1, <2>4
<1>12. ASSUME NEW v \in Users \ {u} PROVE Asking(v)' /\ Parting(v)' /\ Entering(v)' /\ Inside(v)'
  <2>1. ASSUME job[v].op = "delete", NEW x \in Count' \ raced' PROVE entry'[x].comconf # job[v].conf
    BY <1>1, <1>6, <2>1 DEF ConfInv, Parting
  <2>2. \A x \in Count : /\ entry'[x].creator = v <=> entry[x].creator = v
                         /\ entry[x].creator = v => entry'[x].comconf = entry[x].comconf
    BY <1>3, <1>6
  <2>3. \A x \in Count : pc[v] # "off" /\ v \in may[x] => v \in may'[x] \/ x \in kept'[v]
    BY <1>8
  <2>4. pc'[v] = pc[v] /\ job'[v] = job[v] /\ subs'[v] = subs[v] /\ kept[v] \subseteq kept'[v]
    BY <1>1, <1>2, <1>8
  <2>5. Len(entry) <= Len(entry') /\ Len(entry') \in Nat
    BY <1>3, <1>6
  <2> QED BY <2>1, <2>2, <2>3, <2>4, <2>5, ChangeKeepsOthers
<1>13. Asking(u)' /\ Parting(u)' /\ Entering(u)' /\ Inside(u)'
  <2>1. \A x \in subs'[u] : u \in may'[x] \/ x \in kept'[u]
    BY <1>1, <1>2, <1>3, <1>8 DEF ConfInv, Inside, ConfTypes
  <2> QED BY <1>2, <2>1, BackKeeps
<1> QED BY <1>6, <1>9, <1>11, <1>12, <1>13 DEF ConfInv

(* Rights given or taken: the list of one conference and what its creator  *)
(* wants change alike.                                                     *)
LEMMA RightsKeep ==
  ASSUME ConfInv, NEW c \in Count, NEW list \in SUBSET Users, NEW l \in SUBSET Users,
         entry' = entry, subs' = subs, pc' = pc, job' = job, raced' = raced,
         confrc' = [confrc EXCEPT ![c] = list], Conferences!Decide([may EXCEPT ![c] = l]),
         \A w \in Users : w \in l <=> Conferences!ConfRight(list, w, entry[c]) = 0
  PROVE  ConfInv'
<1> DEFINE m == [may EXCEPT ![c] = l]
<1>1. ConfTypes /\ Len(entry) \in Nat
  BY EntriesAre DEF ConfInv
<1>2. /\ confrc' \in Seq(SUBSET Users) /\ Len(confrc') = Len(entry) /\ confrc'[c] = list
      /\ \A x \in Count \ {c} : confrc'[x] = confrc[x]
  BY <1>1, OneList DEF ConfTypes, Count
<1>3. /\ m \in Seq(SUBSET Users) /\ Len(m) = Len(entry) /\ m[c] = l /\ \A x \in Count \ {c} : m[x] = may[x]
  BY <1>1, OneList DEF ConfTypes, Count
<1> HIDE DEF m
<1>4. /\ may' = m /\ kept' \in [Users -> SUBSET Nat] /\ \A v \in Users : kept[v] \subseteq kept'[v]
      /\ \A v \in Users : \A x \in Count : pc[v] # "off" /\ v \in may[x] => v \in m[x] \/ x \in kept'[v]
  BY <1>1, <1>3, DecideIs DEF m
<1>5. ConfTypes' /\ Count' = Count
  BY <1>1, <1>2, <1>3, <1>4 DEF ConfTypes, Count
<1>6. ASSUME NEW x \in Count PROVE RightIs(x)' /\ LinkIs(x)'
  <2>1. RightIs(x)'
    <3>1. CASE x = c
      BY <1>2, <1>3, <1>4, <3>1 DEF RightIs, Conferences!Right
    <3>2. CASE x # c
      BY <1>2, <1>3, <1>4, <3>2, SameRight
    <3> QED BY <3>1, <3>2
  <2>2. LinkIs(x)'
    BY DEF ConfInv, LinkIs, Conferences!Live
  <2> QED BY <2>1, <2>2
<1>7. ASSUME NEW v \in Users PROVE Asking(v)' /\ Parting(v)' /\ Entering(v)' /\ Inside(v)'
  <2>1. job[v].op = "delete" => \A x \in Count' \ raced' : entry'[x].comconf # job[v].conf
    BY <1>5 DEF ConfInv, Parting
  <2> QED BY <1>1, <1>4, <2>1, ChangeKeepsOthers
<1> QED BY <1>5, <1>6, <1>7 DEF ConfInv

LEMMA AddRightsKeeps ==
  ASSUME ConfInv, NEW u \in Users, NEW c \in Count, NEW v \in Users, Conferences!AddRights(u, c, v)
  PROVE  ConfInv'
<1> DEFINE list == IF entry[c].access = "open" THEN confrc[c] \ {v} ELSE confrc[c] \cup {v}
           l == may[c] \cup {v}
<1>1. /\ entry' = entry /\ subs' = subs /\ pc' = pc /\ job' = job /\ raced' = raced
      /\ confrc' = [confrc EXCEPT ![c] = list] /\ Conferences!Decide([may EXCEPT ![c] = l])
      /\ ~(Conferences!ConfRight(confrc[c], v, entry[c]) = 0)
  <2>1. Conferences!Right(c, v) > 0
    BY DEF Conferences!AddRights
  <2>2. ~(Conferences!ConfRight(confrc[c], v, entry[c]) = 0)
    BY <2>1 DEF Conferences!Right
  <2>3. DOMAIN confrc = Count /\ DOMAIN may = Count
    BY EntriesAre DEF ConfInv
  <2> QED BY <2>2, <2>3 DEF Conferences!AddRights, Conferences!session
<1>2. list \in SUBSET Users /\ l \in SUBSET Users /\ entry[c].access \in Conferences!Accesses
  BY EntriesAre DEF ConfInv
<1>3. ASSUME NEW w \in Users PROVE w \in l <=> Conferences!ConfRight(list, w, entry[c]) = 0
  <2>1. w \in may[c] <=> Conferences!ConfRight(confrc[c], w, entry[c]) = 0
    BY DEF ConfInv, RightIs, Conferences!Right
  <2> QED BY <1>1, <1>2, <2>1, RightZero
<1> HIDE DEF list, l
<1> QED BY <1>1, <1>2, <1>3, RightsKeep

LEMMA SubRightsKeeps ==
  ASSUME ConfInv, NEW u \in Users, NEW c \in Count, NEW v \in Users, Conferences!SubRights(u, c, v)
  PROVE  ConfInv'
<1> DEFINE list == IF entry[c].access = "open" THEN confrc[c] \cup {v} ELSE confrc[c] \ {v}
           l == may[c] \ {v}
<1>1. /\ entry' = entry /\ subs' = subs /\ pc' = pc /\ job' = job /\ raced' = raced
      /\ confrc' = [confrc EXCEPT ![c] = list] /\ Conferences!Decide([may EXCEPT ![c] = l])
      /\ entry[c].creator # v
  <2>1. DOMAIN confrc = Count /\ DOMAIN may = Count
    BY EntriesAre DEF ConfInv
  <2> QED BY <2>1 DEF Conferences!SubRights, Conferences!session
<1>2. list \in SUBSET Users /\ l \in SUBSET Users /\ entry[c].access \in Conferences!Accesses
  BY EntriesAre DEF ConfInv
<1>3. ASSUME NEW w \in Users PROVE w \in l <=> Conferences!ConfRight(list, w, entry[c]) = 0
  <2>1. w \in may[c] <=> Conferences!ConfRight(confrc[c], w, entry[c]) = 0
    BY DEF ConfInv, RightIs, Conferences!Right
  <2> QED BY <1>1, <1>2, <2>1, RightZero
<1> HIDE DEF list, l
<1> QED BY <1>1, <1>2, <1>3, RightsKeep

LEMMA ConfStays ==
  ASSUME ConfsFounded, ConfInv, [Conferences!Next]_(Conferences!vars) PROVE ConfInv'
<1>1. CASE UNCHANGED Conferences!vars
  <2>1. /\ entry' = entry /\ confrc' = confrc /\ subs' = subs /\ pc' = pc /\ job' = job
        /\ may' = may /\ kept' = kept /\ raced' = raced
    BY <1>1 DEF Conferences!vars, Conferences!files, Conferences!session, Conferences!history
  <2>2. \A c \in Count : RightIs(c)' /\ LinkIs(c)'
    BY <2>1 DEF ConfInv, RightIs, LinkIs, Conferences!Right, Conferences!Live
  <2>3. ASSUME NEW v \in Users PROVE Asking(v)' /\ Parting(v)' /\ Entering(v)' /\ Inside(v)'
    BY <2>1 DEF ConfInv, Asking, Parting, Entering, Inside, Count
  <2>4. ConfTypes' /\ Count' = Count
    BY <2>1 DEF ConfInv, ConfTypes, Count
  <2> QED BY <2>2, <2>3, <2>4 DEF ConfInv
<1>2. CASE Conferences!Next
  <2> USE DEF ConfsFounded
  <2>1. Conferences!Numbers = Count
    BY EntriesAre DEF ConfInv, Conferences!Numbers
  <2> SUFFICES ASSUME NEW u \in Users,
        \/ Conferences!Login(u) \/ Conferences!ForceUnsubscribe(u) \/ Conferences!LoggedIn(u) \/ Conferences!Leave(u)
        \/ \E n \in Names, a \in Conferences!Accesses : Conferences!CreateConf(u, n, a)
        \/ Conferences!CreateStored(u) \/ Conferences!RenameStored(u) \/ Conferences!ComcStored(u)
        \/ Conferences!DeleteConfirmed(u) \/ Conferences!ModStored(u)
        \/ Conferences!Answer(u)
        \/ \E c \in Count :
             \/ Conferences!Subscribe(u, c) \/ Conferences!Unsubscribe(u, c) \/ Conferences!DeleteConf(u, c)
             \/ \E n \in Names : \/ Conferences!ChangeCname(u, c, n)
                                 \/ \E a \in Conferences!Accesses : Conferences!ModConf(u, c, n, a)
             \/ \E d \in Count : Conferences!ChangeComc(u, c, d)
             \/ \E v \in Users : Conferences!AddRights(u, c, v) \/ Conferences!SubRights(u, c, v)
      PROVE ConfInv'
    BY <1>2, <2>1 DEF Conferences!Next
  <2>2. ASSUME NEW c \in Count,
               \/ Conferences!Subscribe(u, c) \/ Conferences!Unsubscribe(u, c) \/ Conferences!DeleteConf(u, c)
               \/ \E n \in Names : \/ Conferences!ChangeCname(u, c, n)
                                   \/ \E a \in Conferences!Accesses : Conferences!ModConf(u, c, n, a)
               \/ \E d \in Count : Conferences!ChangeComc(u, c, d)
               \/ \E v \in Users : Conferences!AddRights(u, c, v) \/ Conferences!SubRights(u, c, v)
        PROVE  ConfInv'
    BY <2>2, SubscribeKeeps, UnsubscribeKeeps, DeleteConfKeeps, ChangeCnameKeeps, ModConfKeeps, ChangeComcKeeps,
       AddRightsKeeps, SubRightsKeeps
  <2> QED BY <2>2, LoginKeeps, ForceKeeps, LoggedInKeeps, LeaveKeeps, CreateConfKeeps, CreatedKeeps, RenameKeeps,
             ComcKeeps, DeletedKeeps, ModifiedKeeps, AnswerKeeps
<1> QED BY <1>1, <1>2

(* Who is in a conference was let in, or is remembered as an exception:    *)
(* the lists of CONFRC_FILE and the types say what the creators want.      *)
THEOREM UsersAreAdmitted ==
  ASSUME ConfsFounded PROVE Conferences!Spec => []Conferences!Admitted
<1>1. Conferences!Init => ConfInv
  BY ConfBegins
<1>2. ConfInv /\ [Conferences!Next]_(Conferences!vars) => ConfInv'
  BY ConfStays
<1>3. ConfInv => Conferences!Admitted
  BY DEF ConfInv, Inside, Conferences!Admitted
<1> QED BY <1>1, <1>2, <1>3, PTL DEF Conferences!Spec

(* Comments go to a conference that exists, but for links made while it    *)
(* was being deleted.                                                      *)
THEOREM CommentsGoSomewhere ==
  ASSUME ConfsFounded PROVE Conferences!Spec => []Conferences!CommentsArrive
<1>1. Conferences!Init => ConfInv
  BY ConfBegins
<1>2. ConfInv /\ [Conferences!Next]_(Conferences!vars) => ConfInv'
  BY ConfStays
<1>3. ConfInv => Conferences!CommentsArrive
  BY EntriesAre DEF ConfInv, LinkIs, Conferences!CommentsArrive, Conferences!Numbers
<1> QED BY <1>1, <1>2, <1>3, PTL DEF Conferences!Spec

-----------------------------------------------------------------------------
(* Files: a finite set of names, each a sequence of words.                 *)
NamesAreWords == IsFiniteSet(Names) /\ \E Words : Names \subseteq Seq(Words)

Descs     == Said \cup {""}
FileLines == [name : Names, desc : Descs]
Nodes     == [lines : Seq(FileLines), holder : Users \cup {Nobody}]

BeforeList == {"rebuild", "waitindex", "opennew", "waitnew", "list"}
AfterList  == {"copy", "store", "waitstore", "write", "finish"}
FilePlaces == {"idle", "upload", "ask"} \cup BeforeList \cup AfterList
MakeJobs   == [op : {"upload", "unlink"}, index : Nat, new : Nat, remo : BOOLEAN, buf : Seq(FileLines)]

FileTypes ==
  /\ stored \subseteq Names /\ inode \in Seq(Nodes) /\ told \in [Names -> Descs] /\ uneven \in BOOLEAN
  /\ at \in [{Files!Index, Files!New} -> 0 .. Len(inode)]
  /\ at[Files!Index] = at[Files!New] => at[Files!Index] = 0
  /\ pc \in [Users -> FilePlaces] /\ \E S : job \in [Users -> S]

(* What a session has opened, and what it asks about.                      *)
Opening(u) ==
  /\ pc[u] \in BeforeList \cup AfterList => job[u] \in MakeJobs
  /\ pc[u] \in {"waitindex", "opennew", "waitnew", "list", "waitstore", "write"} => job[u].index \in 1 .. Len(inode)
  /\ pc[u] \in {"waitnew", "list", "store", "waitstore", "write"} => job[u].new \in 1 .. Len(inode)
  /\ pc[u] = "ask" => job[u].name \in Names

(* These lines are those of an index of the files as they are, unless      *)
(* somebody is about to list them, and say what was said.                  *)
Whole(lines) == Files!Listed(lines) = stored /\ Len(lines) = Cardinality(stored)
Good(lines) ==
  /\ (\A u \in Users : pc[u] \notin BeforeList) => Whole(lines)
  /\ \A n \in Names \ excused : Files!DescOf(lines, n) = told[n]
Fine(u, lines) == Good(lines) /\ (job[u].remo => lines = << >>)

(* Where a session that has made an index has its lines.                   *)
MakingIt(u) ==
  /\ pc[u] = "copy" => at[Files!New] # 0 /\ Fine(u, Files!Lines(Files!New))
  /\ pc[u] \in {"store", "waitstore", "write"} => Fine(u, job[u].buf)
  /\ pc[u] \in {"waitstore", "write"} => job[u].index = at[Files!Index]
  /\ pc[u] = "finish" => Fine(u, Files!Lines(Files!Index))

Even ==
  /\ \A u, v \in Users : Files!MadeBy(u) /\ Files!MadeBy(v) => u = v
  /\ (\A u \in Users : ~Files!MadeBy(u)) => Good(Files!Lines(Files!Index))
  /\ \A u \in Users : MakingIt(u)

FilesInv ==
  /\ FileTypes
  /\ \A u \in Users : Opening(u)
  /\ uneven => Names \subseteq excused
  /\ ~uneven => Even

(* Who hears nothing is sending files, or was left in the middle of it.    *)
Hearing(u) ==
  /\ pc[u] # "upload" /\ u \notin failed =>
       u \in hears /\ (u \in avail => pc[u] \in BeforeList \cup AfterList /\ job[u].op = "upload")
  /\ pc[u] \in BeforeList \cup AfterList /\ job[u].op = "upload" => u \in hears
HearInv == \A u \in Users : Hearing(u)

-----------------------------------------------------------------------------
LEMMA SameSize == ASSUME NEW S PROVE Files!Cardinality(S) = Cardinality(S)
BY DEF Cardinality, Files!Cardinality

LEMMA SuffixSelf == ASSUME NEW W, NEW n \in Seq(W) PROVE Files!IsSuffix(n, n)
<1>1. Len(n) \in Nat /\ Files!Reverse(n) = [i \in 1 .. Len(n) |-> n[(Len(n) - i) + 1]]
  BY LenProperties DEF Files!Reverse
<1>2. Len(Files!Reverse(n)) \in Nat
  BY <1>1
<1> QED BY <1>2 DEF Files!IsSuffix, Files!IsPrefix

(* A listing has every member of a finite set.                             *)
LEMMA ListingIs ==
  ASSUME NEW S, IsFiniteSet(S)
  PROVE  /\ Cardinality(S) \in Nat /\ Files!SetToSeq(S) \in [1 .. Cardinality(S) -> S]
         /\ \A x \in S : \E k \in 1 .. Cardinality(S) : Files!SetToSeq(S)[k] = x
<1> DEFINE n == Cardinality(S)
           Z == [1 .. n -> S]
           s == Files!SetToSeq(S)
<1>1. n \in Nat /\ ExistsBijection(1 .. n, S)
  BY FS_CardinalityType
<1>2. PICK b \in Bijection(1 .. n, S) : TRUE
  BY <1>1 DEF ExistsBijection
<1>3. b \in Z /\ Files!IsInjective(b)
  <2>1. b \in Injection(1 .. n, S)
    BY <1>2 DEF Bijection
  <2> QED BY <2>1 DEF Injection, IsInjective, Files!IsInjective
<1>4. s = CHOOSE f \in Z : Files!IsInjective(f)
  BY SameSize DEF Files!SetToSeq
<1> HIDE DEF s
<1>5. s \in Z /\ Files!IsInjective(s)
  BY <1>3, <1>4
<1>6. ASSUME NEW x \in S, \A k \in 1 .. n : s[k] # x PROVE FALSE
  <2>1. s \in [1 .. n -> S \ {x}]
    BY <1>5, <1>6
  <2>2. IsFiniteSet(S \ {x}) /\ Cardinality(S \ {x}) = n - 1
    BY FS_RemoveElement
  <2>3. IsFiniteSet(1 .. n) /\ Cardinality(1 .. n) = n
    BY <1>1, FS_Interval
  <2>4. \E i, j \in 1 .. n : i # j /\ s[i] = s[j]
    <3>1. Cardinality(S \ {x}) < Cardinality(1 .. n)
      BY <1>1, <2>2, <2>3
    <3> HIDE DEF n
    <3> QED BY <2>1, <2>2, <2>3, <3>1, FS_PigeonHole
  <2> QED BY <1>5, <2>4 DEF Files!IsInjective
<1> QED BY <1>1, <1>5, <1>6 DEF s

(* What is said of a file is said in the first line that has its name.     *)
FirstFor(lines, n, k) ==
  /\ k \in 1 .. Len(lines) /\ lines[k].name = n
  /\ \A i \in 1 .. Len(lines) : lines[i].name = n => k <= i
SaidIn(lines, n) ==
  \/ n \notin Files!Listed(lines) /\ Files!DescOf(lines, n) = ""
  \/ \E k \in 1 .. Len(lines) : FirstFor(lines, n, k) /\ Files!DescOf(lines, n) = lines[k].desc

LEMMA DescIs == ASSUME NEW T, NEW lines \in Seq(T), NEW n PROVE SaidIn(lines, n)
<1> DEFINE S == {i \in DOMAIN lines : lines[i].name = n}
<1>1. DOMAIN lines = 1 .. Len(lines)
  BY LenProperties
<1>2. CASE S = {}
  BY <1>1, <1>2 DEF Files!Listed, Files!DescOf, SaidIn
<1>3. CASE S # {}
  <2>1. S \subseteq Nat
    BY <1>1
  <2>2. PICK m \in S : \A i \in S : m <= i
    BY <1>3, <2>1, LeastOf
  <2>3. Files!Min(S) \in S /\ \A i \in S : Files!Min(S) <= i
    BY <2>2 DEF Files!Min
  <2>4. Files!DescOf(lines, n) = lines[Files!Min(S)].desc
    BY <1>3 DEF Files!DescOf
  <2> DEFINE k == Files!Min(S)
  <2>5. FirstFor(lines, n, k)
    BY <1>1, <2>3 DEF FirstFor
  <2> HIDE DEF k
  <2> QED BY <2>4, <2>5 DEF k, SaidIn, FirstFor
<1> QED BY <1>2, <1>3

LEMMA DescIsOf ==
  ASSUME NEW T, NEW lines \in Seq(T), NEW n, NEW k, FirstFor(lines, n, k)
  PROVE  Files!DescOf(lines, n) = lines[k].desc
<1>1. n \in Files!Listed(lines) /\ Len(lines) \in Nat
  BY LenProperties DEF Files!Listed, FirstFor
<1>2. PICK j \in 1 .. Len(lines) : FirstFor(lines, n, j) /\ Files!DescOf(lines, n) = lines[j].desc
  BY <1>1, DescIs DEF SaidIn
<1>3. j <= k /\ k <= j /\ j \in Int /\ k \in Int
  BY <1>1, <1>2 DEF FirstFor
<1> QED BY <1>2, <1>3

(* A listing of the files, each with what the old lines say of it.         *)
NewLines(lines, from, to) == lines = [k \in DOMAIN Files!SetToSeq(to) |-> Files!Entry(from, Files!SetToSeq(to)[k])]

LEMMA NewLinesAre ==
  ASSUME NamesAreWords, NEW old \in Seq(FileLines), NEW S \in SUBSET Names, NEW lines, NewLines(lines, old, S)
  PROVE  /\ lines \in Seq(FileLines) /\ Files!Listed(lines) = S /\ Len(lines) = Cardinality(S)
         /\ \A n \in Names : Files!DescOf(lines, n) = IF n \in S THEN Files!DescOf(old, n) ELSE ""
         /\ S = {} => lines = << >>
<1> DEFINE s == Files!SetToSeq(S)
           c == Cardinality(S)
<1>1. IsFiniteSet(S)
  BY FS_Subset DEF NamesAreWords
<1>2. c \in Nat /\ s \in [1 .. c -> S] /\ \A x \in S : \E k \in 1 .. c : s[k] = x
  BY <1>1, ListingIs
<1> HIDE DEF s, c
<1>3. lines = [k \in 1 .. c |-> Files!Entry(old, s[k])]
  BY <1>2 DEF s, NewLines
<1>4. ASSUME NEW n \in Names PROVE Files!DescOf(old, n) \in Descs
  <2>1. \A k \in 1 .. Len(old) : old[k] \in FileLines
    BY ElementOfSeq
  <2>2. \A k \in 1 .. Len(old) : old[k].desc \in Descs
    BY <2>1 DEF FileLines
  <2>3. \/ Files!DescOf(old, n) = ""
        \/ \E k \in 1 .. Len(old) : Files!DescOf(old, n) = old[k].desc
    BY DescIs DEF SaidIn
  <2> QED BY <2>2, <2>3 DEF Descs
<1>5. ASSUME NEW k \in 1 .. c
      PROVE  lines[k] \in FileLines /\ lines[k].name = s[k] /\ lines[k].desc = Files!DescOf(old, s[k])
  <2>1. s[k] \in Names /\ lines[k] = [name |-> s[k], desc |-> Files!DescOf(old, s[k])]
    BY <1>2, <1>3 DEF Files!Entry, Files!Line
  <2> QED BY <1>4, <2>1 DEF FileLines
<1>6. lines \in Seq(FileLines) /\ Len(lines) = c /\ DOMAIN lines = 1 .. c
  BY <1>2, <1>3, <1>5
<1>7. Files!Listed(lines) = S
  <2>1. Files!Listed(lines) = {s[k] : k \in 1 .. c}
    BY <1>5, <1>6 DEF Files!Listed
  <2> QED BY <1>2, <2>1
<1>8. ASSUME NEW n \in Names PROVE Files!DescOf(lines, n) = IF n \in S THEN Files!DescOf(old, n) ELSE ""
  <2>1. \/ n \notin S /\ Files!DescOf(lines, n) = ""
        \/ \E k \in 1 .. c : lines[k].name = n /\ Files!DescOf(lines, n) = lines[k].desc
    <3>1. SaidIn(lines, n)
      BY <1>6, DescIs
    <3> QED BY <1>6, <1>7, <3>1 DEF SaidIn, FirstFor
  <2>2. ASSUME NEW k \in 1 .. c, lines[k].name = n, Files!DescOf(lines, n) = lines[k].desc
        PROVE  n \in S /\ Files!DescOf(lines, n) = Files!DescOf(old, n)
    <3>1. s[k] = n /\ s[k] \in S
      BY <1>2, <1>5, <2>2
    <3> QED BY <1>5, <2>2, <3>1
  <2>3. CASE n \notin S
    BY <2>1, <2>2, <2>3
  <2>4. CASE n \in S
    BY <2>1, <2>2, <2>4
  <2> QED BY <2>3, <2>4
<1>9. ASSUME S = {} PROVE lines = << >>
  <2>1. c = 0
    BY <1>9, FS_EmptySet DEF c
  <2> QED BY <1>6, <2>1
<1> QED BY <1>6, <1>7, <1>8, <1>9 DEF c

-----------------------------------------------------------------------------
LEMMA NodesAre ==
  ASSUME FileTypes
  PROVE  /\ Len(inode) \in Nat /\ DOMAIN inode = 1 .. Len(inode)
         /\ \A i \in 1 .. Len(inode) : inode[i] \in Nodes /\ inode[i].lines \in Seq(FileLines)
         /\ \A f \in {Files!Index, Files!New} : at[f] \in 0 .. Len(inode) /\ Files!Lines(f) \in Seq(FileLines)
<1>1. Len(inode) \in Nat /\ DOMAIN inode = 1 .. Len(inode)
  BY LenProperties DEF FileTypes
<1>2. ASSUME NEW i \in 1 .. Len(inode) PROVE inode[i] \in Nodes /\ inode[i].lines \in Seq(FileLines)
  <2>1. inode[i] \in Nodes
    BY ElementOfSeq DEF FileTypes
  <2> QED BY <2>1 DEF Nodes
<1>3. ASSUME NEW f \in {Files!Index, Files!New}
      PROVE  at[f] \in 0 .. Len(inode) /\ Files!Lines(f) \in Seq(FileLines)
  <2>1. at[f] \in 0 .. Len(inode)
    BY DEF FileTypes
  <2>2. << >> \in Seq(FileLines)
    OBVIOUS
  <2> QED BY <1>2, <2>1, <2>2 DEF Files!Lines
<1> QED BY <1>1, <1>2, <1>3

(* The files of the directory may be opened and locked, and no line of     *)
(* them changes.                                                           *)
OpenedOnly ==
  /\ inode' \in Seq(Nodes) /\ Len(inode) <= Len(inode')
  /\ at' \in [{Files!Index, Files!New} -> 0 .. Len(inode')]
  /\ at'[Files!Index] = at'[Files!New] => at'[Files!Index] = 0
  /\ Files!Lines(Files!Index)' = Files!Lines(Files!Index) /\ Files!Lines(Files!New)' = Files!Lines(Files!New)
  /\ at[Files!Index] # 0 => at'[Files!Index] = at[Files!Index]
  /\ at[Files!New] # 0 => at'[Files!New] = at[Files!New]

Turns(u) == /\ pc' \in [Users -> FilePlaces] /\ \E S : job' \in [Users -> S]
            /\ \A v \in Users \ {u} : pc'[v] = pc[v] /\ job'[v] = job[v]

LEMMA GoesTo ==
  ASSUME FileTypes, NEW u \in Users, NEW p \in FilePlaces, NEW j, Files!Goto(u, p, j)
  PROVE  Turns(u) /\ pc'[u] = p /\ job'[u] = j
<1>1. PICK S : job \in [Users -> S]
  BY DEF FileTypes
<1>2. job' \in [Users -> S \cup {j}] /\ job'[u] = j /\ \A v \in Users \ {u} : job'[v] = job[v]
  BY <1>1 DEF Files!Goto
<1>3. pc' \in [Users -> FilePlaces] /\ pc'[u] = p /\ \A v \in Users \ {u} : pc'[v] = pc[v]
  BY DEF FileTypes, Files!Goto
<1> QED BY <1>2, <1>3 DEF Turns

LEMMA SameDisk ==
  ASSUME FileTypes, inode' = inode, at' = at PROVE OpenedOnly
BY NodesAre DEF OpenedOnly, FileTypes, Files!Lines

(* A lock is taken or let go.                                              *)
LEMMA HolderIs ==
  ASSUME FileTypes, NEW i \in 1 .. Len(inode), NEW h \in Users \cup {Nobody},
         inode' = [inode EXCEPT ![i].holder = h], at' = at
  PROVE  OpenedOnly /\ Len(inode') = Len(inode)
<1>1. inode[i] \in Nodes /\ [inode[i] EXCEPT !.holder = h] \in Nodes
      /\ [inode[i] EXCEPT !.holder = h].lines = inode[i].lines
  BY NodesAre DEF Nodes
<1> DEFINE e == [inode[i] EXCEPT !.holder = h]
<1>2. inode' = [inode EXCEPT ![i] = e]
  BY DEF FileTypes
<1> HIDE DEF e
<1>3. /\ inode' \in Seq(Nodes) /\ Len(inode') = Len(inode)
      /\ \A k \in 1 .. Len(inode) : inode'[k] = IF k = i THEN e ELSE inode[k]
  BY <1>1, <1>2, ExceptSeq DEF FileTypes, e
<1>4. \A k \in 1 .. Len(inode) : inode'[k].lines = inode[k].lines
  BY <1>1, <1>3 DEF e
<1>5. \A f \in {Files!Index, Files!New} : at[f] \in 0 .. Len(inode)
  BY NodesAre
<1>6. ASSUME NEW f \in {Files!Index, Files!New} PROVE Files!Lines(f)' = Files!Lines(f)
  BY <1>4, <1>5 DEF Files!Lines
<1>7. /\ at' \in [{Files!Index, Files!New} -> 0 .. Len(inode')]
      /\ at'[Files!Index] = at'[Files!New] => at'[Files!Index] = 0
      /\ Len(inode) <= Len(inode')
  BY <1>3, NodesAre DEF FileTypes
<1> QED BY <1>3, <1>6, <1>7 DEF OpenedOnly

(* A file is made.                                                         *)
LEMMA MadeIs ==
  ASSUME FileTypes, NEW f \in {Files!Index, Files!New}, at[f] = 0, NEW h \in Users \cup {Nobody},
         inode' = Append(inode, [lines |-> << >>, holder |-> h]), at' = [at EXCEPT ![f] = Len(inode) + 1]
  PROVE  OpenedOnly /\ at'[f] = Len(inode) + 1 /\ Len(inode') = Len(inode) + 1
<1>1. [lines |-> << >>, holder |-> h] \in Nodes
  BY DEF Nodes
<1>2. Len(inode) \in Nat /\ \A g \in {Files!Index, Files!New} : at[g] \in 0 .. Len(inode)
  BY NodesAre
<1>3. /\ inode' \in Seq(Nodes) /\ Len(inode') = Len(inode) + 1
      /\ \A k \in 1 .. Len(inode) : inode'[k] = inode[k]
      /\ inode'[Len(inode) + 1] = [lines |-> << >>, holder |-> h]
  BY <1>1, AppendProperties DEF FileTypes
<1>4. /\ at' \in [{Files!Index, Files!New} -> 0 .. Len(inode')] /\ at'[f] = Len(inode) + 1
      /\ \A g \in {Files!Index, Files!New} \ {f} : at'[g] = at[g]
  BY <1>2, <1>3 DEF FileTypes
<1>5. at'[Files!Index] = at'[Files!New] => at'[Files!Index] = 0
  BY <1>2, <1>4 DEF Files!Index, Files!New
<1>6. ASSUME NEW g \in {Files!Index, Files!New} PROVE Files!Lines(g)' = Files!Lines(g)
  <2>1. CASE g = f
    <3>1. at'[g] # 0 /\ inode'[at'[g]].lines = << >> /\ at[g] = 0
      BY <1>2, <1>3, <1>4, <2>1
    <3> QED BY <3>1 DEF Files!Lines
  <2>2. CASE g # f
    BY <1>2, <1>3, <1>4, <2>2 DEF Files!Lines
  <2> QED BY <2>1, <2>2
<1> QED BY <1>2, <1>3, <1>4, <1>5, <1>6 DEF OpenedOnly

Remembers(j, f, i, k) == k = [j EXCEPT ![f] = i]

LEMMA OpenIs ==
  ASSUME FileTypes, NEW u \in Users, NEW f \in {Files!Index, Files!New},
         NEW got \in FilePlaces, NEW wait \in FilePlaces, Files!Open(u, f, got, wait)
  PROVE  /\ OpenedOnly /\ Turns(u) /\ pc'[u] \in {got, wait}
         /\ at'[f] \in 1 .. Len(inode') /\ Remembers(job[u], f, at'[f], job'[u])
<1> DEFINE i == Files!Opened(f)
           j == [job[u] EXCEPT ![f] = i]
<1> USE DEF Remembers
<1>1. /\ Len(inode) \in Nat /\ DOMAIN inode = 1 .. Len(inode)
      /\ \A g \in {Files!Index, Files!New} : at[g] \in 0 .. Len(inode)
  BY NodesAre
<1>2. at' = [at EXCEPT ![f] = i] /\ at'[f] = i
  BY DEF Files!Open, FileTypes
<1>3. CASE Files!Free(i)
  <2>1. inode' = [Files!Created(f) EXCEPT ![i].holder = u] /\ Files!Goto(u, got, j)
    BY <1>3 DEF Files!Open
  <2>2. CASE at[f] # 0
    <3>1. i \in 1 .. Len(inode) /\ at' = at /\ inode' = [inode EXCEPT ![i].holder = u]
      BY <1>1, <1>2, <2>1, <2>2 DEF Files!Opened, Files!Created, FileTypes
    <3>2. OpenedOnly /\ Len(inode') = Len(inode)
      <4> HIDE DEF i
      <4> QED BY <3>1, HolderIs
    <3> QED BY <1>2, <2>1, <3>1, <3>2, GoesTo
  <2>3. CASE at[f] = 0
    <3>1. i = Len(inode) + 1
      BY <2>3 DEF Files!Opened
    <3>2. inode' = Append(inode, [lines |-> << >>, holder |-> u])
      <4>1. inode' = [Append(inode, [lines |-> << >>, holder |-> Nobody]) EXCEPT ![Len(inode) + 1].holder = u]
        BY <2>1, <2>3, <3>1 DEF Files!Created
      <4> DEFINE n == Len(inode)
                 e == [lines |-> << >>, holder |-> Nobody]
                 o == [lines |-> << >>, holder |-> u]
                 a == Append(inode, e)
                 b == Append(inode, o)
      <4>2. e \in Nodes /\ o \in Nodes /\ [e EXCEPT !.holder = u] = o
        BY DEF Nodes
      <4> HIDE DEF e, o
      <4>3. /\ a \in Seq(Nodes) /\ Len(a) = n + 1 /\ a[n + 1] = e /\ \A k \in 1 .. n : a[k] = inode[k]
            /\ b \in Seq(Nodes) /\ Len(b) = n + 1 /\ b[n + 1] = o /\ \A k \in 1 .. n : b[k] = inode[k]
        BY <4>2, AppendProperties DEF FileTypes
      <4>4. inode' = [a EXCEPT ![n + 1] = o]
        BY <4>1, <4>2, <4>3 DEF e
      <4> HIDE DEF a, b
      <4>5. /\ inode' \in Seq(Nodes) /\ Len(inode') = n + 1
            /\ \A k \in 1 .. n + 1 : inode'[k] = IF k = n + 1 THEN o ELSE a[k]
        BY <1>1, <4>2, <4>3, <4>4, ExceptSeq
      <4>6. inode' = b
        BY <1>1, <4>3, <4>5, SeqEqual
      <4> QED BY <4>6 DEF b, o
    <3>3. OpenedOnly /\ Len(inode') = Len(inode) + 1
      BY <1>2, <2>3, <3>1, <3>2, MadeIs
    <3> QED BY <1>1, <1>2, <2>1, <3>1, <3>3, GoesTo
  <2> QED BY <1>1, <2>2, <2>3
<1>4. CASE ~Files!Free(i)
  <2>1. inode' = inode /\ Files!Goto(u, wait, j)
    BY <1>4 DEF Files!Open
  <2>2. i \in 1 .. Len(inode) /\ at[f] # 0 /\ at' = at
    BY <1>1, <1>2, <1>4 DEF Files!Free, Files!Opened, FileTypes
  <2> QED BY <1>2, <2>1, <2>2, SameDisk, GoesTo
<1> QED BY <1>3, <1>4

LEMMA WaitIs ==
  ASSUME FileTypes, NEW u \in Users, NEW f \in {Files!Index, Files!New}, NEW got \in FilePlaces,
         job[u][f] \in 1 .. Len(inode), Files!Wait(u, f, got)
  PROVE  OpenedOnly /\ Turns(u) /\ pc'[u] = got /\ job'[u] = job[u] /\ Len(inode') = Len(inode)
BY HolderIs, GoesTo DEF Files!Wait

-----------------------------------------------------------------------------
(* Lines that were good are, while nothing is said of a file and nobody    *)
(* changes the files or gives up listing them.                             *)
Calm == /\ told' = told /\ excused' = excused /\ uneven' = uneven /\ stored' \subseteq Names
        /\ (\A v \in Users : pc'[v] \notin BeforeList) =>
             stored' = stored /\ \A v \in Users : pc[v] \notin BeforeList

LEMMA GoodStays == ASSUME Calm, NEW lines, Good(lines) PROVE Good(lines)'
BY DEF Calm, Good, Whole

LEMMA OthersOpen ==
  ASSUME NEW v \in Users, Opening(v), pc'[v] = pc[v], job'[v] = job[v],
         Len(inode) \in Nat, Len(inode') \in Nat, Len(inode) <= Len(inode')
  PROVE  Opening(v)'
BY DEF Opening

LEMMA OthersMake ==
  ASSUME Calm, FileTypes, OpenedOnly, NEW v \in Users, Opening(v), MakingIt(v), pc'[v] = pc[v], job'[v] = job[v]
  PROVE  MakingIt(v)'
<1>1. ASSUME pc[v] = "copy"
      PROVE  at'[Files!New] # 0 /\ Fine(v, Files!Lines(Files!New))'
  <2>1. at[Files!New] # 0 /\ Fine(v, Files!Lines(Files!New))
    BY <1>1 DEF MakingIt
  <2> DEFINE l == Files!Lines(Files!New)
  <2>2. Files!Lines(Files!New)' = Files!Lines(Files!New) /\ at'[Files!New] = at[Files!New]
    BY <2>1 DEF OpenedOnly
  <2> QED BY <2>1, <2>2 DEF Fine, Good, Whole, Calm
<1>2. ASSUME pc[v] \in {"store", "waitstore", "write"} PROVE Fine(v, job[v].buf)'
  <2>1. Fine(v, job[v].buf)
    BY <1>2 DEF MakingIt
  <2> QED BY <2>1 DEF Fine, Good, Whole, Calm
<1>3. ASSUME pc[v] \in {"waitstore", "write"} PROVE job[v].index = at'[Files!Index]
  <2>1. job[v].index = at[Files!Index] /\ job[v].index # 0
    BY <1>3, NodesAre DEF MakingIt, Opening
  <2> QED BY <2>1 DEF OpenedOnly
<1>4. ASSUME pc[v] = "finish" PROVE Fine(v, Files!Lines(Files!Index))'
  <2>1. Fine(v, Files!Lines(Files!Index)) /\ Files!Lines(Files!Index)' = Files!Lines(Files!Index)
    BY <1>4 DEF MakingIt, OpenedOnly
  <2> QED BY <2>1 DEF Fine, Good, Whole, Calm
<1> QED BY <1>1, <1>2, <1>3, <1>4 DEF MakingIt

LEMMA GoodIndex ==
  ASSUME Calm, OpenedOnly, Good(Files!Lines(Files!Index)) PROVE Good(Files!Lines(Files!Index))'
<1>1. Files!Lines(Files!Index)' = Files!Lines(Files!Index)
  BY DEF OpenedOnly
<1> QED BY <1>1 DEF Calm, Good, Whole

(* What a session does but for its index is nothing to an index that is    *)
(* being made.                                                             *)
LEMMA CalmKeeps ==
  ASSUME FilesInv, NEW u \in Users, Calm, OpenedOnly, Turns(u), Opening(u)',
         pc[u] \notin AfterList, pc'[u] \notin AfterList
  PROVE  FilesInv'
<1>1. FileTypes /\ Len(inode) \in Nat /\ Len(inode') \in Nat /\ Len(inode) <= Len(inode')
  BY NodesAre, LenProperties DEF FilesInv, OpenedOnly
<1>2. FileTypes'
  BY <1>1 DEF OpenedOnly, Turns, Calm, FileTypes
<1>3. \A v \in Users \ {u} : pc'[v] = pc[v] /\ job'[v] = job[v]
  BY DEF Turns
<1>4. \A v \in Users \ {u} : Opening(v)'
  BY <1>1, <1>3, OthersOpen DEF FilesInv
<1>5. \A v \in Users : Files!MadeBy(v)' <=> Files!MadeBy(v)
  BY <1>3 DEF Files!MadeBy, AfterList
<1>6. ASSUME ~uneven PROVE Even'
  <2>1. Even
    BY <1>6 DEF FilesInv
  <2>2. \A v \in Users \ {u} : MakingIt(v)'
    BY <1>1, <1>3, <2>1, OthersMake DEF FilesInv, Even
  <2>3. MakingIt(u)'
    BY DEF MakingIt, AfterList
  <2>4. (\A v \in Users : ~Files!MadeBy(v)') => Good(Files!Lines(Files!Index))'
    BY <1>5, <2>1, GoodIndex DEF Even
  <2>5. \A v, w \in Users : Files!MadeBy(v)' /\ Files!MadeBy(w)' => v = w
    BY <1>5, <2>1 DEF Even
  <2> QED BY <2>2, <2>3, <2>4, <2>5 DEF Even
<1> QED BY <1>2, <1>4, <1>6 DEF FilesInv, Calm

(* Who makes an index is the only one, unless the index may be anything.   *)
LEMMA MakerKeeps ==
  ASSUME FilesInv, NEW u \in Users, pc[u] \in AfterList, Turns(u), FileTypes', Opening(u)', Len(inode) <= Len(inode'),
         uneven' = uneven, excused' = excused,
         ~uneven => /\ MakingIt(u)'
                    /\ pc'[u] \notin AfterList => Good(Files!Lines(Files!Index))'
  PROVE  FilesInv'
<1>1. FileTypes /\ Len(inode) \in Nat /\ Len(inode') \in Nat
  BY NodesAre, LenProperties DEF FilesInv, FileTypes
<1>2. \A v \in Users \ {u} : pc'[v] = pc[v] /\ job'[v] = job[v]
  BY DEF Turns
<1>3. \A v \in Users \ {u} : Opening(v)'
  BY <1>1, <1>2, OthersOpen DEF FilesInv
<1>4. ASSUME ~uneven PROVE Even'
  <2>1. \A v \in Users \ {u} : pc[v] \notin AfterList
    BY <1>4 DEF FilesInv, Even, Files!MadeBy, AfterList
  <2>2. \A v \in Users \ {u} : MakingIt(v)' /\ ~Files!MadeBy(v)'
    BY <1>2, <2>1 DEF MakingIt, Files!MadeBy, AfterList
  <2>3. ~Files!MadeBy(u)' => Good(Files!Lines(Files!Index))'
    BY <1>4 DEF Files!MadeBy, AfterList
  <2> QED BY <1>4, <2>2, <2>3 DEF Even
<1> QED BY <1>3, <1>4 DEF FilesInv

LEMMA FilesBegin == ASSUME NamesAreWords, Files!Init PROVE FilesInv
<1>1. /\ stored = {} /\ inode = << >> /\ at = [f \in {Files!Index, Files!New} |-> 0]
      /\ pc = [u \in Users |-> "idle"] /\ job = [u \in Users |-> Files!NoJob]
      /\ told = [n \in Names |-> ""] /\ excused = {} /\ uneven = FALSE
  BY DEF Files!Init
<1>2. FileTypes
  <2>1. job \in [Users -> {Files!NoJob}]
    BY <1>1
  <2>2. inode = << >> /\ inode \in Seq(Nodes) /\ Len(inode) = 0
    BY <1>1, EmptySeq
  <2>3. at = [f \in {Files!Index, Files!New} |-> 0]
    BY <1>1
  <2>4. at \in [{Files!Index, Files!New} -> 0 .. Len(inode)] /\ at[Files!Index] = 0
    BY <2>2, <2>3
  <2>5. told \in [Names -> Descs] /\ pc \in [Users -> FilePlaces]
    BY <1>1 DEF FilePlaces, Descs
  <2> QED BY <1>1, <2>1, <2>2, <2>4, <2>5 DEF FileTypes
<1>3. \A u \in Users : Opening(u) /\ MakingIt(u) /\ ~Files!MadeBy(u)
  BY <1>1 DEF Opening, MakingIt, Files!MadeBy, BeforeList, AfterList
<1>4. Good(Files!Lines(Files!Index))
  <2>1. Files!Lines(Files!Index) = << >>
    BY <1>1 DEF Files!Lines
  <2>2. Files!Listed(<< >>) = {} /\ Len(<< >>) = 0 /\ Cardinality({}) = 0
    BY FS_EmptySet DEF Files!Listed
  <2>3. \A n \in Names : Files!DescOf(<< >>, n) = ""
    BY DEF Files!DescOf
  <2> QED BY <1>1, <2>1, <2>2, <2>3 DEF Good, Whole
<1> QED BY <1>1, <1>2, <1>3, <1>4 DEF FilesInv, Even

-----------------------------------------------------------------------------
(* Steps that are nothing to an index that is being made.                  *)
LEMMA CalmStep ==
  ASSUME FilesInv, NEW u \in Users, OpenedOnly, Turns(u), Opening(u)', UNCHANGED << told, excused, uneven >>,
         stored' \subseteq Names, pc[u] \notin AfterList, pc'[u] \notin AfterList,
         pc[u] \in BeforeList => pc'[u] \in BeforeList,
         stored' = stored \/ pc'[u] \in BeforeList
  PROVE  FilesInv'
<1>1. Calm
  BY DEF Calm, Turns
<1> QED BY <1>1, CalmKeeps

(* Those that do not touch the disk.                                       *)
LEMMA SamePlaceKeeps ==
  ASSUME FilesInv, NEW u \in Users, NEW p \in {"idle", "upload", "ask"}, NEW j, Files!Goto(u, p, j),
         UNCHANGED << stored, inode, at, told, excused, uneven >>,
         pc[u] \in {"idle", "upload", "ask"}, p = "ask" => j.name \in Names
  PROVE  FilesInv'
<1>1. FileTypes /\ p \in FilePlaces /\ pc[u] \notin BeforeList \cup AfterList /\ p \notin BeforeList \cup AfterList
  BY DEF FilesInv, FilePlaces, BeforeList, AfterList
<1>2. Turns(u) /\ pc'[u] = p /\ job'[u] = j
  BY <1>1, GoesTo
<1>3. Opening(u)'
  BY <1>1, <1>2 DEF Opening, BeforeList, AfterList
<1>4. OpenedOnly /\ stored' \subseteq Names
  BY <1>1, SameDisk DEF FileTypes
<1> QED BY <1>1, <1>2, <1>3, <1>4, CalmStep

LEMMA UploadKeeps == ASSUME FilesInv, NEW u \in Users, Files!Upload(u) PROVE FilesInv'
BY SamePlaceKeeps DEF Files!Upload, Files!disk, Files!history

LEMMA UploadFailsKeeps == ASSUME FilesInv, NEW u \in Users, Files!UploadFails(u) PROVE FilesInv'
BY SamePlaceKeeps DEF Files!UploadFails, Files!disk

LEMMA DescribeKeeps == ASSUME FilesInv, NEW u \in Users, NEW n \in Names, Files!Describe(u, n) PROVE FilesInv'
BY SamePlaceKeeps DEF Files!Describe, Files!disk, Files!history

LEMMA DescribeNothingKeeps == ASSUME FilesInv, NEW u \in Users, Files!DescribeNothing(u) PROVE FilesInv'
BY SamePlaceKeeps DEF Files!DescribeNothing, Files!disk, Files!history

LEMMA RebuildIs ==
  ASSUME NEW op \in {"upload", "unlink"}
  PROVE  Files!Rebuild(op) \in MakeJobs /\ Files!Rebuild(op).op = op
BY DEF Files!Rebuild, MakeJobs

(* Files come and go, and the index is to be made anew.                    *)
LEMMA BeginsKeeps ==
  ASSUME FilesInv, NEW u \in Users, NEW op \in {"upload", "unlink"}, Files!Goto(u, "rebuild", Files!Rebuild(op)),
         UNCHANGED << inode, at, told, excused, uneven >>, stored' \subseteq Names, pc[u] \in {"idle", "upload"}
  PROVE  FilesInv'
<1>1. FileTypes /\ "rebuild" \in FilePlaces /\ pc[u] \notin BeforeList \cup AfterList
  BY DEF FilesInv, FilePlaces, BeforeList, AfterList
<1>2. Turns(u) /\ pc'[u] = "rebuild" /\ job'[u] = Files!Rebuild(op)
  BY <1>1, GoesTo
<1>3. Opening(u)'
  BY <1>2, RebuildIs DEF Opening
<1>4. OpenedOnly
  BY <1>1, SameDisk
<1> QED BY <1>1, <1>2, <1>3, <1>4, CalmStep DEF BeforeList, AfterList

LEMMA UploadedKeeps == ASSUME FilesInv, NEW u \in Users, Files!Uploaded(u) PROVE FilesInv'
<1>1. PICK S \in SUBSET Names :
        /\ pc[u] = "upload" /\ Files!Goto(u, "rebuild", Files!Rebuild("upload")) /\ stored' = stored \cup S
        /\ UNCHANGED << inode, at, told, excused, uneven >>
  BY DEF Files!Uploaded
<1> QED BY <1>1, BeginsKeeps DEF FilesInv, FileTypes

(* The mark of who cannot find out where he is.                            *)
LEMMA UploadBusyKeeps == ASSUME FilesInv, NEW u \in Users, Files!UploadBusy(u) PROVE FilesInv'
<1>1. pc[u] = "idle" /\ UNCHANGED << stored, inode, at, pc, job, told, excused, uneven >>
  BY DEF Files!UploadBusy, Files!disk, Files!session
<1>2. FileTypes /\ pc[u] \notin BeforeList \cup AfterList /\ Opening(u)
  BY <1>1 DEF FilesInv, BeforeList, AfterList
<1>3. Turns(u) /\ Opening(u)' /\ OpenedOnly /\ stored' \subseteq Names
  BY <1>1, <1>2, SameDisk DEF FileTypes, Turns, Opening
<1> QED BY <1>1, <1>2, <1>3, CalmStep

LEMMA UnlinkKeeps == ASSUME FilesInv, NEW u \in Users, NEW n \in Names, Files!Unlink(u, n) PROVE FilesInv'
<1>1. /\ pc[u] = "idle" /\ Files!Goto(u, "rebuild", Files!Rebuild("unlink")) /\ stored' = stored \ {n}
      /\ UNCHANGED << inode, at, told, excused, uneven >>
  BY DEF Files!Unlink, Files!history
<1> QED BY <1>1, BeginsKeeps DEF FilesInv, FileTypes

LEMMA DownloadKeeps == ASSUME FilesInv, NEW u \in Users, Files!Download(u) PROVE FilesInv'
<1>1. pc[u] = "idle" /\ UNCHANGED << stored, inode, at, pc, job, told, excused, uneven >>
  BY DEF Files!Download, Files!disk, Files!session
<1>2. FileTypes /\ pc[u] \notin BeforeList \cup AfterList /\ Opening(u)
  BY <1>1 DEF FilesInv, BeforeList, AfterList
<1>3. Turns(u) /\ Opening(u)' /\ OpenedOnly /\ stored' \subseteq Names
  BY <1>1, <1>2, SameDisk DEF FileTypes, Turns, Opening
<1> QED BY <1>1, <1>2, <1>3, CalmStep

LEMMA DescribeLostKeeps == ASSUME FilesInv, NEW u \in Users, Files!DescribeLost(u) PROVE FilesInv'
<1>1. /\ pc[u] = "ask" /\ at[Files!Index] # 0 /\ inode' = [inode EXCEPT ![at[Files!Index]].holder = u]
      /\ Files!Goto(u, "idle", Files!NoJob) /\ UNCHANGED << stored, at, told, excused, uneven >>
  BY DEF Files!DescribeLost, Files!history
<1>2. FileTypes /\ "idle" \in FilePlaces /\ pc[u] \notin BeforeList \cup AfterList
  BY <1>1 DEF FilesInv, FilePlaces, BeforeList, AfterList
<1>3. at[Files!Index] \in 1 .. Len(inode)
  BY <1>1, <1>2, NodesAre
<1>4. Turns(u) /\ pc'[u] = "idle" /\ OpenedOnly
  <2> DEFINE i == at[Files!Index]
  <2>1. i \in 1 .. Len(inode) /\ inode' = [inode EXCEPT ![i].holder = u]
    BY <1>1, <1>3
  <2> HIDE DEF i
  <2> QED BY <1>1, <1>2, <2>1, HolderIs, GoesTo
<1>5. Opening(u)' /\ stored' \subseteq Names
  BY <1>1, <1>2, <1>4 DEF Opening, BeforeList, AfterList, FileTypes
<1> QED BY <1>1, <1>2, <1>4, <1>5, CalmStep DEF AfterList

-----------------------------------------------------------------------------
(* What is opened is remembered.                                           *)
LEMMA RememberIndex ==
  ASSUME NEW j \in MakeJobs, NEW i \in Nat, NEW k, Remembers(j, Files!Index, i, k)
  PROVE  k \in MakeJobs /\ k.index = i /\ k.new = j.new /\ k.op = j.op /\ k.remo = j.remo /\ k.buf = j.buf
BY DEF MakeJobs, Files!Index, Remembers

LEMMA RememberNew ==
  ASSUME NEW j \in MakeJobs, NEW i \in Nat, NEW k, Remembers(j, Files!New, i, k)
  PROVE  k \in MakeJobs /\ k.new = i /\ k.index = j.index /\ k.op = j.op /\ k.remo = j.remo /\ k.buf = j.buf
BY DEF MakeJobs, Files!New, Remembers

LEMMA OpenIndexKeeps == ASSUME FilesInv, NEW u \in Users, Files!OpenIndex(u) PROVE FilesInv'
<1>1. /\ pc[u] = "rebuild" /\ Files!Open(u, Files!Index, "opennew", "waitindex")
      /\ UNCHANGED << stored, told, excused, uneven >>
  BY DEF Files!OpenIndex, Files!history
<1>2. /\ FileTypes /\ "opennew" \in FilePlaces /\ "waitindex" \in FilePlaces
      /\ Files!Index \in {Files!Index, Files!New} /\ job[u] \in MakeJobs /\ pc[u] \notin AfterList
  BY <1>1 DEF FilesInv, FilePlaces, BeforeList, AfterList, Opening
<1>3. /\ OpenedOnly /\ Turns(u) /\ pc'[u] \in {"opennew", "waitindex"} /\ at'[Files!Index] \in 1 .. Len(inode')
      /\ Remembers(job[u], Files!Index, at'[Files!Index], job'[u])
  BY <1>1, <1>2, OpenIs
<1>4. Len(inode') \in Nat
  BY <1>3, LenProperties DEF OpenedOnly
<1>5. job'[u] \in MakeJobs /\ job'[u].index = at'[Files!Index]
  <2> DEFINE i == at'[Files!Index]
  <2>1. i \in Nat
    BY <1>3, <1>4
  <2> HIDE DEF i
  <2>2. Remembers(job[u], Files!Index, i, job'[u])
    BY <1>3 DEF i
  <2>3. job'[u] \in MakeJobs /\ job'[u].index = i
    BY <1>2, <2>1, <2>2, RememberIndex
  <2> QED BY <2>3 DEF i
<1>6. Opening(u)' /\ stored' \subseteq Names
  BY <1>1, <1>2, <1>3, <1>5 DEF Opening, FileTypes
<1> QED BY <1>1, <1>2, <1>3, <1>6, CalmStep DEF BeforeList, AfterList

LEMMA WaitIndexKeeps == ASSUME FilesInv, NEW u \in Users, Files!WaitIndex(u) PROVE FilesInv'
<1>1. /\ pc[u] = "waitindex" /\ Files!Wait(u, Files!Index, "opennew") /\ UNCHANGED << stored, told, excused, uneven >>
  BY DEF Files!WaitIndex, Files!history
<1>2. /\ FileTypes /\ "opennew" \in FilePlaces /\ Files!Index \in {Files!Index, Files!New}
      /\ job[u] \in MakeJobs /\ job[u].index \in 1 .. Len(inode) /\ pc[u] \notin AfterList
  BY <1>1 DEF FilesInv, FilePlaces, BeforeList, AfterList, Opening
<1>3. job[u][Files!Index] \in 1 .. Len(inode)
  BY <1>2 DEF Files!Index
<1>4. OpenedOnly /\ Turns(u) /\ pc'[u] = "opennew" /\ job'[u] = job[u] /\ Len(inode') = Len(inode)
  BY <1>1, <1>2, <1>3, WaitIs
<1>5. Opening(u)' /\ stored' \subseteq Names
  BY <1>1, <1>2, <1>4 DEF Opening, FileTypes
<1> QED BY <1>1, <1>2, <1>4, <1>5, CalmStep DEF BeforeList, AfterList

LEMMA OpenNewKeeps == ASSUME FilesInv, NEW u \in Users, Files!OpenNew(u) PROVE FilesInv'
<1>1. /\ pc[u] = "opennew" /\ Files!Open(u, Files!New, "list", "waitnew")
      /\ UNCHANGED << stored, told, excused, uneven >>
  BY DEF Files!OpenNew, Files!history
<1>2. /\ FileTypes /\ "list" \in FilePlaces /\ "waitnew" \in FilePlaces
      /\ Files!New \in {Files!Index, Files!New} /\ job[u] \in MakeJobs /\ job[u].index \in 1 .. Len(inode)
      /\ pc[u] \notin AfterList
  BY <1>1 DEF FilesInv, FilePlaces, BeforeList, AfterList, Opening
<1>3. /\ OpenedOnly /\ Turns(u) /\ pc'[u] \in {"list", "waitnew"} /\ at'[Files!New] \in 1 .. Len(inode')
      /\ Remembers(job[u], Files!New, at'[Files!New], job'[u])
  BY <1>1, <1>2, OpenIs
<1>4. Len(inode') \in Nat /\ Len(inode) <= Len(inode') /\ Len(inode) \in Nat
  BY <1>2, <1>3, NodesAre, LenProperties DEF OpenedOnly
<1>5. job'[u] \in MakeJobs /\ job'[u].new = at'[Files!New] /\ job'[u].index = job[u].index
  <2> DEFINE i == at'[Files!New]
  <2>1. i \in Nat
    BY <1>3, <1>4
  <2> HIDE DEF i
  <2>2. Remembers(job[u], Files!New, i, job'[u])
    BY <1>3 DEF i
  <2>3. job'[u] \in MakeJobs /\ job'[u].new = i /\ job'[u].index = job[u].index
    BY <1>2, <2>1, <2>2, RememberNew
  <2> QED BY <2>3 DEF i
<1>6. Opening(u)' /\ stored' \subseteq Names
  BY <1>1, <1>2, <1>3, <1>4, <1>5 DEF Opening, FileTypes
<1> QED BY <1>1, <1>2, <1>3, <1>6, CalmStep DEF BeforeList, AfterList

LEMMA WaitNewKeeps == ASSUME FilesInv, NEW u \in Users, Files!WaitNew(u) PROVE FilesInv'
<1>1. /\ pc[u] = "waitnew" /\ Files!Wait(u, Files!New, "list") /\ UNCHANGED << stored, told, excused, uneven >>
  BY DEF Files!WaitNew, Files!history
<1>2. /\ FileTypes /\ "list" \in FilePlaces /\ Files!New \in {Files!Index, Files!New}
      /\ job[u] \in MakeJobs /\ job[u].index \in 1 .. Len(inode) /\ job[u].new \in 1 .. Len(inode)
      /\ pc[u] \notin AfterList
  BY <1>1 DEF FilesInv, FilePlaces, BeforeList, AfterList, Opening
<1>3. job[u][Files!New] \in 1 .. Len(inode)
  BY <1>2 DEF Files!New
<1>4. OpenedOnly /\ Turns(u) /\ pc'[u] = "list" /\ job'[u] = job[u] /\ Len(inode') = Len(inode)
  BY <1>1, <1>2, <1>3, WaitIs
<1>5. Opening(u)' /\ stored' \subseteq Names
  BY <1>1, <1>2, <1>4 DEF Opening, FileTypes
<1> QED BY <1>1, <1>2, <1>4, <1>5, CalmStep DEF BeforeList, AfterList

-----------------------------------------------------------------------------
(* An index that was not finished, or not made alone, may be anything.     *)
LEMMA SpoiltKeeps ==
  ASSUME FilesInv, NEW u \in Users, NEW p \in FilePlaces, NEW j, Files!Goto(u, p, j),
         stored' \subseteq Names, inode' \in Seq(Nodes), Len(inode') = Len(inode),
         UNCHANGED << at, told >>, uneven' = TRUE, excused' = Names,
         p \in {"idle", "finish"}, p = "finish" => j \in MakeJobs
  PROVE  FilesInv'
<1>1. FileTypes /\ Turns(u) /\ pc'[u] = p /\ job'[u] = j /\ Len(inode) \in Nat
  BY GoesTo, NodesAre DEF FilesInv
<1>2. FileTypes'
  BY <1>1 DEF FileTypes, Turns
<1>3. Opening(u)'
  BY <1>1 DEF Opening, BeforeList, AfterList
<1>4. \A v \in Users \ {u} : Opening(v)'
  BY <1>1, OthersOpen DEF FilesInv, Turns
<1> QED BY <1>2, <1>3, <1>4 DEF FilesInv

LEMMA CopyFailsKeeps == ASSUME FilesInv, NEW u \in Users, Files!CopyFails(u) PROVE FilesInv'
<1>1. /\ Files!Goto(u, "finish", job[u]) /\ uneven' = TRUE /\ excused' = Names
      /\ UNCHANGED << stored, inode, at, told >> /\ pc[u] \in {"copy", "waitstore"}
  BY DEF Files!CopyFails, Files!disk
<1>2. job[u] \in MakeJobs /\ "finish" \in FilePlaces
  BY <1>1 DEF FilesInv, Opening, AfterList, FilePlaces
<1>3. stored' \subseteq Names /\ inode' \in Seq(Nodes) /\ Len(inode') = Len(inode)
  BY <1>1 DEF FilesInv, FileTypes
<1> QED BY <1>1, <1>2, <1>3, SpoiltKeeps

(* copy_file, step by step.                                                *)
LEMMA CopyReadKeeps == ASSUME FilesInv, NEW u \in Users, Files!CopyRead(u) PROVE FilesInv'
<1> DEFINE i == at[Files!New]
           l == Files!Lines(Files!New)
           j == [job[u] EXCEPT !.new = i, !.buf = l]
<1>1. /\ pc[u] = "copy" /\ i # 0 /\ inode' = [inode EXCEPT ![i].holder = u] /\ Files!Goto(u, "store", j)
      /\ stored' = stored /\ at' = at /\ told' = told /\ excused' = excused /\ uneven' = uneven
  BY DEF Files!CopyRead, Files!history
<1>2. /\ FileTypes /\ "store" \in FilePlaces /\ job[u] \in MakeJobs /\ pc[u] \in AfterList
  BY <1>1 DEF FilesInv, FilePlaces, AfterList, Opening
<1>3. i \in 1 .. Len(inode) /\ l \in Seq(FileLines) /\ Len(inode) \in Nat
  BY <1>1, <1>2, NodesAre
<1>4. j \in MakeJobs /\ j.new = i /\ j.buf = l /\ j.remo = job[u].remo
  <2>1. i \in Nat
    BY <1>3
  <2> HIDE DEF i, l
  <2>2. j.new = i /\ j.buf = l /\ j.remo = job[u].remo
    BY <1>2 DEF MakeJobs
  <2>3. j \in MakeJobs
    BY <1>2, <1>3, <2>1 DEF MakeJobs
  <2> QED BY <2>2, <2>3
<1> HIDE DEF j
<1>5. OpenedOnly /\ Len(inode') = Len(inode)
  <2> HIDE DEF i, l
  <2> QED BY <1>1, <1>2, <1>3, HolderIs
<1>6. Turns(u) /\ pc'[u] = "store" /\ job'[u] = j
  BY <1>1, <1>2, GoesTo
<1> HIDE DEF l
<1>7. FileTypes' /\ Opening(u)'
  BY <1>1, <1>2, <1>3, <1>4, <1>5, <1>6 DEF FileTypes, OpenedOnly, Turns, Opening
<1>8. ASSUME ~uneven PROVE MakingIt(u)'
  <2>1. Fine(u, l)
    BY <1>1, <1>8 DEF FilesInv, Even, MakingIt, l
  <2>2. Calm
    BY <1>1, <1>2, <1>6 DEF Calm, Turns, FileTypes, BeforeList
  <2>3. Good(l)'
    <3>1. Good(l)
      BY <2>1 DEF Fine
    <3> QED BY <1>5, <2>2, <3>1 DEF Calm, Good, Whole, OpenedOnly, l
  <2>4. job'[u].buf = l /\ (job'[u].remo => l = << >>) /\ l' = l
    BY <1>4, <1>5, <1>6, <2>1 DEF Fine, OpenedOnly, l
  <2>5. Fine(u, job[u].buf)'
    BY <2>3, <2>4 DEF Fine, Good, Whole
  <2> QED BY <1>6, <2>5 DEF MakingIt
<1> QED BY <1>1, <1>2, <1>3, <1>5, <1>6, <1>7, <1>8, MakerKeeps DEF AfterList

LEMMA FineStays ==
  ASSUME Calm, NEW u \in Users, Fine(u, job[u].buf), job'[u].buf = job[u].buf, job'[u].remo = job[u].remo
  PROVE  Fine(u, job[u].buf)'
BY DEF Calm, Fine, Good, Whole

LEMMA CopyOpenKeeps == ASSUME FilesInv, NEW u \in Users, Files!CopyOpen(u) PROVE FilesInv'
<1>1. /\ pc[u] = "store" /\ Files!Open(u, Files!Index, "write", "waitstore")
      /\ stored' = stored /\ told' = told /\ excused' = excused /\ uneven' = uneven
  BY DEF Files!CopyOpen, Files!history
<1>2. /\ FileTypes /\ "write" \in FilePlaces /\ "waitstore" \in FilePlaces
      /\ Files!Index \in {Files!Index, Files!New} /\ job[u] \in MakeJobs /\ pc[u] \in AfterList
      /\ job[u].new \in 1 .. Len(inode)
  BY <1>1 DEF FilesInv, FilePlaces, BeforeList, AfterList, Opening
<1>3. /\ OpenedOnly /\ Turns(u) /\ pc'[u] \in {"write", "waitstore"} /\ at'[Files!Index] \in 1 .. Len(inode')
      /\ Remembers(job[u], Files!Index, at'[Files!Index], job'[u])
  BY <1>1, <1>2, OpenIs
<1>4. Len(inode') \in Nat /\ Len(inode) <= Len(inode') /\ Len(inode) \in Nat
  BY <1>2, <1>3, NodesAre, LenProperties DEF OpenedOnly
<1>5. /\ job'[u] \in MakeJobs /\ job'[u].index = at'[Files!Index] /\ job'[u].new = job[u].new
      /\ job'[u].buf = job[u].buf /\ job'[u].remo = job[u].remo
  <2> DEFINE i == at'[Files!Index]
  <2>1. i \in Nat
    BY <1>3, <1>4
  <2> HIDE DEF i
  <2>2. Remembers(job[u], Files!Index, i, job'[u])
    BY <1>3 DEF i
  <2>3. job'[u] \in MakeJobs /\ job'[u].index = i
    BY <1>2, <2>1, <2>2, RememberIndex
  <2>4. job'[u].new = job[u].new /\ job'[u].buf = job[u].buf /\ job'[u].remo = job[u].remo
    BY <1>2, <2>1, <2>2, RememberIndex
  <2> QED BY <2>3, <2>4 DEF i
<1>6. FileTypes' /\ Opening(u)'
  <2>1. FileTypes'
    BY <1>1, <1>2, <1>3 DEF FileTypes, OpenedOnly, Turns
  <2>2. job'[u].new \in 1 .. Len(inode')
    BY <1>2, <1>4, <1>5
  <2>3. Opening(u)'
    BY <1>3, <1>5, <2>2 DEF Opening, BeforeList, AfterList
  <2> QED BY <2>1, <2>3
<1>7. ASSUME ~uneven PROVE MakingIt(u)'
  <2>1. Fine(u, job[u].buf)
    BY <1>1, <1>7 DEF FilesInv, Even, MakingIt
  <2>2. Calm
    BY <1>1, <1>2, <1>3 DEF Calm, Turns, FileTypes, BeforeList
  <2>3. Fine(u, job[u].buf)'
    BY <1>5, <2>1, <2>2, FineStays
  <2> QED BY <1>3, <1>5, <2>3 DEF MakingIt
<1> QED BY <1>1, <1>2, <1>3, <1>4, <1>6, <1>7, MakerKeeps DEF AfterList

LEMMA CopyWaitKeeps == ASSUME FilesInv, NEW u \in Users, Files!CopyWait(u) PROVE FilesInv'
<1>1. /\ pc[u] = "waitstore" /\ Files!Wait(u, Files!Index, "write")
      /\ stored' = stored /\ told' = told /\ excused' = excused /\ uneven' = uneven
  BY DEF Files!CopyWait, Files!history
<1>2. /\ FileTypes /\ "write" \in FilePlaces /\ Files!Index \in {Files!Index, Files!New}
      /\ job[u] \in MakeJobs /\ pc[u] \in AfterList /\ job[u].new \in 1 .. Len(inode) /\ job[u].index \in 1 .. Len(inode)
  BY <1>1 DEF FilesInv, FilePlaces, BeforeList, AfterList, Opening
<1>3. job[u][Files!Index] \in 1 .. Len(inode)
  BY <1>2 DEF Files!Index
<1>4. OpenedOnly /\ Turns(u) /\ pc'[u] = "write" /\ job'[u] = job[u] /\ Len(inode') = Len(inode)
  BY <1>1, <1>2, <1>3, WaitIs
<1>5. at' = at /\ Len(inode) \in Nat
  BY <1>1, <1>2, NodesAre DEF Files!Wait
<1>6. FileTypes' /\ Opening(u)'
  BY <1>1, <1>2, <1>4 DEF FileTypes, OpenedOnly, Turns, Opening
<1>7. ASSUME ~uneven PROVE MakingIt(u)'
  <2>1. Fine(u, job[u].buf) /\ job[u].index = at[Files!Index]
    BY <1>1, <1>7 DEF FilesInv, Even, MakingIt
  <2>2. Calm
    BY <1>1, <1>2, <1>4 DEF Calm, Turns, FileTypes, BeforeList
  <2>3. Fine(u, job[u].buf)'
    BY <1>4, <2>1, <2>2, FineStays
  <2> QED BY <1>4, <1>5, <2>1, <2>3 DEF MakingIt
<1> QED BY <1>1, <1>2, <1>4, <1>5, <1>6, <1>7, MakerKeeps DEF AfterList

(* Lines are written to one file, and another is let go.                   *)
Written(i, k, l) ==
  inode' = [inode EXCEPT ![i] = [lines |-> l, holder |-> Nobody], ![k].holder = Nobody]

LEMMA WrittenIs ==
  ASSUME FileTypes, NEW i \in 1 .. Len(inode), NEW k \in 1 .. Len(inode), NEW l \in Seq(FileLines),
         Written(i, k, l)
  PROVE  /\ inode' \in Seq(Nodes) /\ Len(inode') = Len(inode) /\ inode'[i].lines = l
         /\ \A m \in 1 .. Len(inode) \ {i} : inode'[m].lines = inode[m].lines
<1> DEFINE e == [lines |-> l, holder |-> Nobody]
           s == [inode EXCEPT ![i] = e]
           o == [s[k] EXCEPT !.holder = Nobody]
<1>1. e \in Nodes /\ e.lines = l
  BY DEF Nodes
<1> HIDE DEF e
<1>2. s \in Seq(Nodes) /\ Len(s) = Len(inode) /\ \A m \in 1 .. Len(inode) : s[m] = IF m = i THEN e ELSE inode[m]
  BY <1>1, ExceptSeq DEF FileTypes
<1>3. inode' = [s EXCEPT ![k].holder = Nobody]
  BY DEF e, Written
<1> HIDE DEF s
<1>4. s[k] \in Nodes
  BY <1>2, ElementOfSeq
<1>5. o \in Nodes /\ o.lines = s[k].lines
  BY <1>4 DEF Nodes
<1>6. inode' = [s EXCEPT ![k] = o]
  BY <1>3
<1> HIDE DEF o
<1>7. inode' \in Seq(Nodes) /\ Len(inode') = Len(inode) /\ \A m \in 1 .. Len(inode) : inode'[m] = IF m = k THEN o ELSE s[m]
  BY <1>2, <1>5, <1>6, ExceptSeq
<1>8. inode'[i].lines = l
  <2>1. s[i].lines = l
    BY <1>1, <1>2
  <2> QED BY <1>5, <1>7, <2>1
<1>9. ASSUME NEW m \in 1 .. Len(inode) \ {i} PROVE inode'[m].lines = inode[m].lines
  <2>1. s[m] = inode[m]
    BY <1>2
  <2> QED BY <1>5, <1>7, <2>1
<1> QED BY <1>7, <1>8, <1>9

LEMMA CopyWriteKeeps == ASSUME FilesInv, NEW u \in Users, Files!CopyWrite(u) PROVE FilesInv'
<1> DEFINE i == job[u].index
           k == job[u].new
           l == job[u].buf
<1>1. /\ pc[u] = "write" /\ Written(i, k, l)
      /\ Files!Goto(u, "finish", job[u])
      /\ stored' = stored /\ at' = at /\ told' = told /\ excused' = excused /\ uneven' = uneven
  BY DEF Files!CopyWrite, Files!history, Written
<1>2. /\ FileTypes /\ "finish" \in FilePlaces /\ pc[u] \in AfterList /\ job[u] \in MakeJobs
      /\ i \in 1 .. Len(inode) /\ k \in 1 .. Len(inode) /\ l \in Seq(FileLines) /\ Len(inode) \in Nat
  BY <1>1, NodesAre DEF FilesInv, FilePlaces, AfterList, Opening, MakeJobs
<1> HIDE DEF i, k, l
<1>3. inode' \in Seq(Nodes) /\ Len(inode') = Len(inode) /\ inode'[i].lines = l
  BY <1>1, <1>2, WrittenIs
<1>4. Turns(u) /\ pc'[u] = "finish" /\ job'[u] = job[u]
  BY <1>1, <1>2, GoesTo
<1>5. FileTypes' /\ Opening(u)'
  BY <1>1, <1>2, <1>3, <1>4 DEF FileTypes, Turns, Opening
<1>6. ASSUME ~uneven PROVE MakingIt(u)'
  <2>1. Fine(u, l) /\ i = at[Files!Index]
    BY <1>1, <1>6 DEF FilesInv, Even, MakingIt, i, l
  <2>2. Files!Lines(Files!Index)' = l
    BY <1>1, <1>2, <1>3, <2>1 DEF Files!Lines
  <2>3. Calm
    BY <1>1, <1>2, <1>4 DEF Calm, Turns, FileTypes, BeforeList
  <2>4. Fine(u, Files!Lines(Files!Index))'
    BY <1>4, <2>1, <2>2, <2>3 DEF Calm, Fine, Good, Whole
  <2> QED BY <1>4, <2>4 DEF MakingIt
<1> QED BY <1>1, <1>2, <1>3, <1>4, <1>5, <1>6, MakerKeeps DEF AfterList

LEMMA FinishKeeps == ASSUME FilesInv, NEW u \in Users, Files!Finish(u) PROVE FilesInv'
<1>1. /\ pc[u] = "finish" /\ Files!Goto(u, "idle", Files!NoJob)
      /\ at' = [f \in {Files!Index, Files!New} |-> IF f = Files!New \/ job[u].remo THEN 0 ELSE at[f]]
      /\ stored' = stored /\ inode' = inode /\ told' = told /\ excused' = excused /\ uneven' = uneven
  BY DEF Files!Finish, Files!history
<1>2. FileTypes /\ "idle" \in FilePlaces /\ pc[u] \in AfterList /\ Len(inode) \in Nat
  BY <1>1, NodesAre DEF FilesInv, FilePlaces, AfterList
<1>3. Turns(u) /\ pc'[u] = "idle"
  BY <1>1, <1>2, GoesTo
<1>4. /\ at' \in [{Files!Index, Files!New} -> 0 .. Len(inode')] /\ at'[Files!New] = 0
      /\ at'[Files!Index] = IF job[u].remo THEN 0 ELSE at[Files!Index]
  BY <1>1, <1>2 DEF FileTypes, Files!Index, Files!New
<1>5. FileTypes' /\ Opening(u)'
  BY <1>1, <1>2, <1>3, <1>4 DEF FileTypes, Turns, Opening, BeforeList, AfterList
<1>6. ASSUME ~uneven PROVE MakingIt(u)' /\ Good(Files!Lines(Files!Index))'
  <2>1. Fine(u, Files!Lines(Files!Index))
    BY <1>1, <1>6 DEF FilesInv, Even, MakingIt
  <2>2. Files!Lines(Files!Index)' = Files!Lines(Files!Index)
    BY <1>1, <1>4, <2>1 DEF Files!Lines, Fine
  <2>3. Calm
    BY <1>1, <1>2, <1>3 DEF Calm, Turns, FileTypes, BeforeList
  <2>4. Good(Files!Lines(Files!Index))'
    BY <2>1, <2>2, <2>3 DEF Calm, Fine, Good, Whole
  <2> QED BY <1>3, <2>4 DEF MakingIt
<1> QED BY <1>1, <1>2, <1>3, <1>5, <1>6, MakerKeeps

-----------------------------------------------------------------------------
(* One line is given another description.                                  *)
Reworded(new, old, i, d) == new = [old EXCEPT ![i].desc = d]

LEMMA SaidAnew ==
  ASSUME NEW old \in Seq(FileLines), NEW i \in 1 .. Len(old), NEW d \in Descs, NEW new,
         Reworded(new, old, i, d)
  PROVE  /\ new \in Seq(FileLines) /\ Len(new) = Len(old) /\ Files!Listed(new) = Files!Listed(old)
         /\ \A x : x # old[i].name => Files!DescOf(new, x) = Files!DescOf(old, x)
         /\ FirstFor(old, old[i].name, i) => Files!DescOf(new, old[i].name) = d
<1> DEFINE e == [old[i] EXCEPT !.desc = d]
<1>1. old[i] \in FileLines
  BY ElementOfSeq
<1>2. e \in FileLines /\ e.name = old[i].name /\ e.desc = d
  BY <1>1 DEF FileLines
<1>3. new = [old EXCEPT ![i] = e]
  BY DEF Reworded
<1> HIDE DEF e
<1>4. new \in Seq(FileLines) /\ Len(new) = Len(old) /\ \A k \in 1 .. Len(old) : new[k] = IF k = i THEN e ELSE old[k]
  BY <1>2, <1>3, ExceptSeq
<1>5. /\ \A k \in 1 .. Len(old) : new[k].name = old[k].name
      /\ \A k \in 1 .. Len(old) : k # i => new[k].desc = old[k].desc
      /\ new[i].desc = d
  BY <1>2, <1>4
<1>6. DOMAIN new = 1 .. Len(old) /\ DOMAIN old = 1 .. Len(old) /\ Len(new) = Len(old)
  BY <1>4, LenProperties
<1>7. Files!Listed(new) = Files!Listed(old)
  BY <1>5, <1>6 DEF Files!Listed
<1>8. ASSUME NEW x, NEW k, FirstFor(old, x, k) PROVE FirstFor(new, x, k) /\ k \in 1 .. Len(old) /\ old[k].name = x
  BY <1>5, <1>6, <1>8 DEF FirstFor
<1>9. ASSUME NEW x, x # old[i].name PROVE Files!DescOf(new, x) = Files!DescOf(old, x)
  <2>1. CASE x \notin Files!Listed(old)
    <3>1. ~\E k \in 1 .. Len(old) : old[k].name = x
      BY <1>6, <2>1 DEF Files!Listed
    <3>2. ~\E k \in 1 .. Len(new) : new[k].name = x
      BY <1>5, <1>6, <3>1
    <3>3. Files!DescOf(old, x) = "" /\ Files!DescOf(new, x) = ""
      BY <1>6, <3>1, <3>2 DEF Files!DescOf
    <3> QED BY <3>3
  <2>2. CASE x \in Files!Listed(old)
    <3>1. PICK k \in 1 .. Len(old) : FirstFor(old, x, k) /\ Files!DescOf(old, x) = old[k].desc
      BY <2>2, DescIs DEF SaidIn
    <3>2. FirstFor(new, x, k) /\ old[k].name = x
      BY <1>8, <3>1
    <3>3. new \in Seq(FileLines)
      BY <1>4
    <3>4. Files!DescOf(new, x) = new[k].desc
      BY <3>2, <3>3, DescIsOf
    <3> QED BY <1>5, <1>9, <3>1, <3>2, <3>4
  <2> QED BY <2>1, <2>2
<1>10. ASSUME FirstFor(old, old[i].name, i) PROVE Files!DescOf(new, old[i].name) = d
  <2>1. FirstFor(new, old[i].name, i)
    BY <1>8, <1>10
  <2>2. new \in Seq(FileLines)
    BY <1>4
  <2>3. Files!DescOf(new, old[i].name) = new[i].desc
    BY <2>1, <2>2, DescIsOf
  <2> QED BY <1>5, <2>3
<1> QED BY <1>4, <1>7, <1>9, <1>10

LEMMA DescribeStoreKeeps ==
  ASSUME NamesAreWords, FilesInv, NEW u \in Users, Files!DescribeStore(u) PROVE FilesInv'
<1> DEFINE n == job[u].name
           S == Files!Fits(n)
           i == Files!Min(S)
           a == at[Files!Index]
           old == Files!Lines(Files!Index)
           m == old[i].name
<1>1. PICK d \in Said :
        /\ inode' = [inode EXCEPT ![a].lines[i].desc = d] /\ told' = [told EXCEPT ![n] = d]
  BY DEF Files!DescribeStore
<1>2. /\ pc[u] = "ask" /\ a # 0 /\ S # {} /\ Files!Goto(u, "idle", Files!NoJob)
      /\ excused' = IF m # n THEN excused \cup {m, n} ELSE
                    IF Files!Raced(u) \/ uneven THEN excused \cup {n} ELSE excused \ {n}
      /\ stored' = stored /\ at' = at /\ uneven' = uneven
  BY DEF Files!DescribeStore
<1>3. /\ FileTypes /\ "idle" \in FilePlaces /\ n \in Names /\ Len(inode) \in Nat
      /\ a \in 1 .. Len(inode) /\ inode[a] \in Nodes /\ old = inode[a].lines /\ old \in Seq(FileLines)
      /\ at[Files!New] \in 0 .. Len(inode) /\ at[Files!New] # a
  <2>1. FileTypes /\ "idle" \in FilePlaces /\ n \in Names
    BY <1>2 DEF FilesInv, FilePlaces, Opening
  <2>2. Len(inode) \in Nat /\ a \in 1 .. Len(inode) /\ inode[a] \in Nodes /\ at[Files!New] \in 0 .. Len(inode)
    BY <1>2, <2>1, NodesAre
  <2>3. old = inode[a].lines /\ old \in Seq(FileLines)
    BY <1>2, <2>1, <2>2, NodesAre DEF Files!Lines
  <2>4. at[Files!New] # a
    BY <1>2, <2>1 DEF FileTypes
  <2> QED BY <2>1, <2>2, <2>3, <2>4
<1>4. /\ S \subseteq 1 .. Len(old) /\ i \in S /\ \A k \in S : i <= k
      /\ \A k \in 1 .. Len(old) : old[k].name = n => k \in S
  <2>1. DOMAIN old = 1 .. Len(old) /\ Len(old) \in Nat
    BY <1>3, LenProperties
  <2>2. S = {k \in 1 .. Len(old) : Files!IsSuffix(n, old[k].name)}
    BY <2>1 DEF Files!Fits
  <2> HIDE DEF S, old
  <2>3. S \subseteq Nat
    BY <2>1, <2>2
  <2>4. \E k \in S : \A l \in S : k <= l
    BY <1>2, <2>3, LeastOf
  <2>5. i \in S /\ \A k \in S : i <= k
    BY <2>4 DEF Files!Min
  <2>6. Files!IsSuffix(n, n)
    BY <1>3, SuffixSelf DEF NamesAreWords
  <2> QED BY <2>2, <2>5, <2>6
<1> HIDE DEF S, i
<1> DEFINE new == [old EXCEPT ![i].desc = d]
           e == [inode[a] EXCEPT !.lines = new]
<1>5. /\ new \in Seq(FileLines) /\ Len(new) = Len(old) /\ Files!Listed(new) = Files!Listed(old)
      /\ \A x : x # m => Files!DescOf(new, x) = Files!DescOf(old, x)
      /\ FirstFor(old, m, i) => Files!DescOf(new, m) = d
  <2>1. i \in 1 .. Len(old) /\ d \in Descs /\ old \in Seq(FileLines)
    BY <1>3, <1>4 DEF Descs
  <2>2. Reworded(new, old, i, d)
    BY DEF Reworded
  <2> HIDE DEF old, new
  <2> QED BY <2>1, <2>2, SaidAnew
<1>6. e \in Nodes /\ e.lines = new
  <2> HIDE DEF new, a
  <2> QED BY <1>3, <1>5 DEF Nodes
<1>7. inode' = [inode EXCEPT ![a] = e]
  BY <1>1, <1>3
<1> HIDE DEF e
<1>8. /\ inode' \in Seq(Nodes) /\ Len(inode') = Len(inode) /\ inode'[a].lines = new
      /\ \A k \in 1 .. Len(inode) \ {a} : inode'[k] = inode[k]
  <2> HIDE DEF new, a
  <2> QED BY <1>3, <1>6, <1>7, ExceptSeq DEF FileTypes
<1>9. Files!Lines(Files!Index)' = new /\ Files!Lines(Files!New)' = Files!Lines(Files!New)
  <2>1. Files!Lines(Files!Index)' = new
    BY <1>2, <1>8 DEF Files!Lines
  <2>2. Files!Lines(Files!New)' = Files!Lines(Files!New)
    BY <1>2, <1>3, <1>8 DEF Files!Lines
  <2> QED BY <2>1, <2>2
<1>10. Turns(u) /\ pc'[u] = "idle"
  BY <1>2, <1>3, GoesTo
<1>11. /\ told' \in [Names -> Descs] /\ told'[n] = d /\ \A x \in Names \ {n} : told'[x] = told[x]
  BY <1>1, <1>3 DEF FileTypes, Descs
<1> HIDE DEF new, old, a
<1>12. FileTypes'
  BY <1>2, <1>3, <1>8, <1>10, <1>11 DEF FileTypes, Turns
<1>13. \A v \in Users : Opening(v)'
  <2>1. Opening(u)'
    BY <1>10 DEF Opening, BeforeList, AfterList
  <2>2. \A v \in Users \ {u} : Opening(v)'
    BY <1>3, <1>8, <1>10, OthersOpen DEF FilesInv, Turns
  <2> QED BY <2>1, <2>2
<1>14. uneven' => Names \subseteq excused'
  BY <1>2 DEF FilesInv
<1>15. (\A v \in Users : pc'[v] \notin BeforeList) => \A v \in Users : pc[v] \notin BeforeList
  BY <1>2, <1>10 DEF Turns, BeforeList
(* The index is good if it was.                                            *)
<1>16. ASSUME ~uneven, Good(old) PROVE Good(Files!Lines(Files!Index))'
  <2>1. ASSUME NEW x \in Names \ excused' PROVE Files!DescOf(new, x) = told'[x]
    <3>1. CASE m # n \/ Files!Raced(u)
      <4>1. x # n /\ x # m /\ x \notin excused
        BY <1>2, <2>1, <3>1
      <4> QED BY <1>5, <1>11, <1>16, <4>1 DEF Good
    <3>2. CASE m = n /\ ~Files!Raced(u) /\ x = n
      <4>1. FirstFor(old, m, i)
        BY <1>4, <3>2 DEF FirstFor
      <4> QED BY <1>5, <1>11, <3>2, <4>1
    <3>3. CASE m = n /\ ~Files!Raced(u) /\ x # n
      <4>1. x \notin excused
        BY <1>2, <1>16, <2>1, <3>3
      <4> QED BY <1>5, <1>11, <1>16, <3>3, <4>1 DEF Good
    <3> QED BY <3>1, <3>2, <3>3
  <2>2. (\A v \in Users : pc'[v] \notin BeforeList) => Files!Listed(new) = stored' /\ Len(new) = Cardinality(stored')
    BY <1>2, <1>5, <1>15, <1>16 DEF Good, Whole
  <2> QED BY <1>9, <2>1, <2>2 DEF Good, Whole
(* So are lines on their way, of which the name is excused.                *)
<1>17. ASSUME ~uneven, Files!Raced(u), NEW lines, Good(lines) PROVE Good(lines)'
  <2>1. \A x \in Names \ excused' : x # n /\ x \notin excused
    BY <1>2, <1>17
  <2> QED BY <1>2, <1>11, <1>15, <1>17, <2>1 DEF Good, Whole
<1>18. ASSUME ~uneven PROVE Even'
  <2>1. Even
    BY <1>18 DEF FilesInv
  <2>2. \A v \in Users : Files!MadeBy(v)' <=> Files!MadeBy(v)
    BY <1>2, <1>10 DEF Turns, Files!MadeBy
  <2>3. ASSUME NEW v \in Users \ {u} PROVE MakingIt(v)'
    <3>1. pc'[v] = pc[v] /\ job'[v] = job[v] /\ MakingIt(v)
      BY <1>10, <2>1 DEF Turns, Even
    <3>2. pc[v] \in AfterList => Files!Raced(u)
      BY DEF Files!Raced, Files!MadeBy, AfterList
    <3>3. ASSUME pc[v] = "copy" PROVE at'[Files!New] # 0 /\ Fine(v, Files!Lines(Files!New))'
      <4>1. at[Files!New] # 0 /\ Fine(v, Files!Lines(Files!New)) /\ Files!Raced(u)
        BY <3>1, <3>2, <3>3 DEF MakingIt, AfterList
      <4> DEFINE l == Files!Lines(Files!New)
      <4>2. \A x \in Names \ excused' : x # n /\ x \notin excused
        BY <1>2, <4>1
      <4> QED BY <1>2, <1>9, <1>11, <1>15, <3>1, <4>1, <4>2 DEF Fine, Good, Whole
    <3>4. ASSUME pc[v] \in {"store", "waitstore", "write"} PROVE Fine(v, job[v].buf)'
      <4>1. Fine(v, job[v].buf) /\ Files!Raced(u)
        BY <3>1, <3>2, <3>4 DEF MakingIt, AfterList
      <4>2. \A x \in Names \ excused' : x # n /\ x \notin excused
        BY <1>2, <4>1
      <4> QED BY <1>2, <1>11, <1>15, <3>1, <4>1, <4>2 DEF Fine, Good, Whole
    <3>5. ASSUME pc[v] = "finish" PROVE Fine(v, Files!Lines(Files!Index))'
      <4>1. Good(old) /\ (job[v].remo => old = << >>)
        BY <3>1, <3>5 DEF MakingIt, Fine, old
      <4>2. ~job[v].remo \/ Len(old) = 0
        BY <4>1
      <4>3. ~(Len(old) = 0)
        BY <1>4
      <4>4. Good(Files!Lines(Files!Index))'
        BY <1>16, <1>18, <4>1
      <4> QED BY <3>1, <4>2, <4>3, <4>4 DEF Fine
    <3> QED BY <1>2, <3>1, <3>3, <3>4, <3>5 DEF MakingIt
  <2>4. MakingIt(u)'
    BY <1>10 DEF MakingIt
  <2>5. (\A v \in Users : ~Files!MadeBy(v)') => Good(Files!Lines(Files!Index))'
    BY <1>16, <1>18, <2>1, <2>2 DEF Even, old
  <2>6. \A v, w \in Users : Files!MadeBy(v)' /\ Files!MadeBy(w)' => v = w
    BY <2>1, <2>2 DEF Even
  <2> QED BY <2>3, <2>4, <2>5, <2>6 DEF Even
<1> QED BY <1>2, <1>12, <1>13, <1>14, <1>18 DEF FilesInv

(* The index is made anew from what is in the directory.                   *)
LEMMA OverIs ==
  ASSUME NEW T, NEW lines \in Seq(T), NEW old \in Seq(T)
  PROVE  Files!Over(lines, old) \in Seq(T) /\ (old = << >> => Files!Over(lines, old) = lines)
<1> DEFINE rest == SubSeq(old, Len(lines) + 1, Len(old))
<1>1. Len(lines) \in Nat /\ Len(old) \in Nat
  BY LenProperties
<1>2. rest \in Seq(T)
  <2>1. \A k \in (Len(lines) + 1) .. Len(old) : old[k] \in T
    BY <1>1, ElementOfSeq
  <2> QED BY <1>1, <2>1, SubSeqProperties
<1>3. ASSUME old = << >> PROVE rest = << >>
  BY <1>1, <1>3
<1>4. lines \o rest \in Seq(T) /\ (rest = << >> => lines \o rest = lines)
  <2>1. lines \o rest \in Seq(T)
    BY <1>2, ConcatProperties
  <2>2. lines \o << >> = lines
    BY ConcatEmptySeq
  <2> QED BY <2>1, <2>2
<1> QED BY <1>3, <1>4 DEF Files!Over

LEMMA ListKeeps == ASSUME NamesAreWords, FilesInv, NEW u \in Users, Files!List(u) PROVE FilesInv'
<1> DEFINE j == job[u]
           i == j.index
           k == j.new
           from == inode[i].lines
           old == inode[k].lines
           files == Files!SetToSeq(stored)
           lines == [n \in DOMAIN files |-> Files!Entry(from, files[n])]
           l == Files!Over(lines, old)
           clean == at[Files!New] = k /\ at[Files!Index] = i /\ old = << >> /\ ~Files!Raced(u)
           r == [j EXCEPT !.remo = (stored = {})]
<1>1. /\ pc[u] = "list" /\ Written(k, i, l) /\ Files!Goto(u, "copy", r)
      /\ told' = [n \in Names |-> IF n \in stored THEN told[n] ELSE ""]
      /\ excused' = IF clean THEN excused \cap stored ELSE Names
      /\ uneven' = ~clean /\ stored' = stored /\ at' = at
  BY DEF Files!List, Files!Fresh, Written
<1>2. /\ FileTypes /\ "copy" \in FilePlaces /\ j \in MakeJobs /\ i \in 1 .. Len(inode) /\ k \in 1 .. Len(inode)
      /\ Len(inode) \in Nat /\ from \in Seq(FileLines) /\ old \in Seq(FileLines) /\ stored \in SUBSET Names
  <2>1. FileTypes /\ "copy" \in FilePlaces /\ stored \in SUBSET Names /\ Opening(u)
    BY DEF FilesInv, FilePlaces, AfterList, FileTypes
  <2>2. j \in MakeJobs /\ i \in 1 .. Len(inode) /\ k \in 1 .. Len(inode)
    BY <1>1, <2>1 DEF Opening, BeforeList
  <2> HIDE DEF i, k
  <2> QED BY <2>1, <2>2, NodesAre
<1>3. NewLines(lines, from, stored)
  BY DEF NewLines
<1>4. r \in MakeJobs /\ r.remo = (stored = {})
  BY <1>2 DEF MakeJobs
<1> HIDE DEF lines, r, i, k
<1>5. /\ lines \in Seq(FileLines) /\ Files!Listed(lines) = stored /\ Len(lines) = Cardinality(stored)
      /\ \A n \in Names : Files!DescOf(lines, n) = IF n \in stored THEN Files!DescOf(from, n) ELSE ""
      /\ stored = {} => lines = << >>
  <2> HIDE DEF from
  <2> QED BY <1>2, <1>3, NewLinesAre
<1>6. l \in Seq(FileLines) /\ (old = << >> => l = lines)
  <2> HIDE DEF old
  <2> QED BY <1>2, <1>5, OverIs
<1> HIDE DEF l
<1>7. inode' \in Seq(Nodes) /\ Len(inode') = Len(inode) /\ inode'[k].lines = l
  BY <1>1, <1>2, <1>6, WrittenIs
<1>8. Turns(u) /\ pc'[u] = "copy" /\ job'[u] = r
  BY <1>1, <1>2, GoesTo
<1> HIDE DEF from, old
<1>9. FileTypes'
  <2>1. told' \in [Names -> Descs] /\ uneven' \in BOOLEAN
    BY <1>1, <1>2 DEF FileTypes, Descs
  <2>2. /\ at' \in [{Files!Index, Files!New} -> 0 .. Len(inode')]
        /\ at'[Files!Index] = at'[Files!New] => at'[Files!Index] = 0
    BY <1>1, <1>2, <1>7 DEF FileTypes
  <2> QED BY <1>1, <1>2, <1>7, <1>8, <2>1, <2>2 DEF FileTypes, Turns
<1>10. \A v \in Users : Opening(v)'
  <2>1. Opening(u)'
    BY <1>4, <1>8 DEF Opening, BeforeList, AfterList
  <2>2. \A v \in Users \ {u} : Opening(v)'
    BY <1>2, <1>7, <1>8, OthersOpen DEF FilesInv, Turns
  <2> QED BY <2>1, <2>2
<1>11. uneven' => Names \subseteq excused'
  BY <1>1
<1>12. ASSUME ~uneven' PROVE Even'
  <2>1. at[Files!New] = k /\ at[Files!Index] = i /\ old = << >> /\ ~Files!Raced(u) /\ excused' = excused \cap stored
    BY <1>1, <1>12
  <2>2. \A v \in Users \ {u} : pc'[v] = pc[v] /\ ~Files!MadeBy(v)
    BY <1>8, <2>1 DEF Turns, Files!Raced
  <2>3. \A v \in Users : ~Files!MadeBy(v)
    BY <1>1, <2>2 DEF Files!MadeBy
  <2>4. Files!Lines(Files!Index) = from /\ Files!Lines(Files!New)' = lines /\ at'[Files!New] # 0
    <3>1. i # 0 /\ k # 0
      BY <1>2
    <3>2. Files!Lines(Files!Index) = from
      BY <2>1, <3>1 DEF Files!Lines, from
    <3>3. at'[Files!New] = k
      BY <1>1, <2>1
    <3>4. Files!Lines(Files!New)' = lines
      BY <1>6, <1>7, <2>1, <3>1, <3>3 DEF Files!Lines
    <3> QED BY <3>1, <3>2, <3>3, <3>4
  <2>5. ASSUME NEW n \in Names \ excused' PROVE Files!DescOf(lines, n) = told'[n]
    <3>1. CASE n \notin stored
      BY <1>1, <1>5, <3>1
    <3>2. CASE n \in stored
      <4>1. n \notin excused
        BY <2>1, <2>5, <3>2
      <4>2. Good(Files!Lines(Files!Index))
        BY <2>3, <2>5, <4>1 DEF FilesInv, Even
      <4>3. Files!DescOf(from, n) = told[n]
        BY <2>4, <2>5, <4>1, <4>2 DEF Good
      <4> QED BY <1>1, <1>5, <3>2, <4>3
    <3> QED BY <3>1, <3>2
  <2>6. Fine(u, Files!Lines(Files!New))'
    <3>1. Files!Listed(lines) = stored' /\ Len(lines) = Cardinality(stored')
      BY <1>1, <1>5
    <3>2. job'[u].remo => lines = << >>
      BY <1>4, <1>5, <1>8
    <3> QED BY <2>4, <2>5, <3>1, <3>2 DEF Fine, Good, Whole
  <2>7. \A v \in Users : Files!MadeBy(v)' => v = u
    BY <2>2 DEF Files!MadeBy
  <2>8. MakingIt(u)' /\ Files!MadeBy(u)'
    BY <1>8, <2>4, <2>6 DEF MakingIt, Files!MadeBy
  <2>9. \A v \in Users \ {u} : MakingIt(v)'
    BY <2>2 DEF MakingIt, Files!MadeBy
  <2> QED BY <2>7, <2>8, <2>9 DEF Even
<1> QED BY <1>9, <1>10, <1>11, <1>12 DEF FilesInv

-----------------------------------------------------------------------------
(* What a session that stops leaves of the file it writes.                 *)
Holds(nodes, i, l) == nodes = [inode EXCEPT ![i].lines = l]

LEMMA HoldsIs ==
  ASSUME FileTypes, NEW i \in 1 .. Len(inode), NEW l \in Seq(FileLines), NEW nodes, Holds(nodes, i, l)
  PROVE  nodes \in Seq(Nodes) /\ Len(nodes) = Len(inode)
<1> DEFINE e == [inode[i] EXCEPT !.lines = l]
<1>1. inode[i] \in Nodes
  BY NodesAre
<1>2. e \in Nodes
  BY <1>1 DEF Nodes
<1>3. nodes = [inode EXCEPT ![i] = e]
  BY DEF Holds
<1> HIDE DEF e
<1> QED BY <1>2, <1>3, ExceptSeq DEF FileTypes

(* Lines written over those that are there.                                *)
LEMMA PartlyIs ==
  ASSUME FileTypes, NEW u \in Users, NEW f \in {Files!Index, Files!New}, job[u][f] \in 1 .. Len(inode),
         NEW l \in Seq(FileLines)
  PROVE  Files!Partly(u, f, l) \in Seq(Nodes) /\ Len(Files!Partly(u, f, l)) = Len(inode)
<1> DEFINE i == job[u][f]
           m == Files!Over(l, inode[i].lines)
           nodes == Files!Partly(u, f, l)
<1>1. i \in 1 .. Len(inode)
  OBVIOUS
<1>2. nodes = [inode EXCEPT ![i].lines = m]
  BY DEF Files!Partly
<1> HIDE DEF i, nodes
<1>3. inode[i].lines \in Seq(FileLines)
  BY <1>1, NodesAre
<1>4. m \in Seq(FileLines)
  BY <1>3, OverIs
<1> HIDE DEF m
<1>5. Holds(nodes, i, m)
  BY <1>2 DEF Holds
<1>6. nodes \in Seq(Nodes) /\ Len(nodes) = Len(inode)
  BY <1>1, <1>4, <1>5, HoldsIs
<1> QED BY <1>6 DEF nodes

LEMMA BegunIs ==
  ASSUME NamesAreWords, FilesInv, NEW u \in Users, NEW nodes \in Files!Begun(u)
  PROVE  nodes \in Seq(Nodes) /\ Len(nodes) = Len(inode)
<1>1. FileTypes /\ Opening(u) /\ Files!Index \in {Files!Index, Files!New} /\ Files!New \in {Files!Index, Files!New}
  BY DEF FilesInv
<1>2. CASE nodes = inode
  BY <1>1, <1>2 DEF FileTypes
<1>3. CASE pc[u] = "list"
  <2>1. PICK k \in 0 .. Files!Cardinality(stored) : nodes = Files!Partly(u, Files!New, SubSeq(Files!Fresh(u), 1, k))
    BY <1>3 DEF Files!Begun
  <2> DEFINE i == job[u].index
             from == inode[i].lines
             lines == Files!Fresh(u)
             part == SubSeq(lines, 1, k)
  <2>2. i \in 1 .. Len(inode) /\ job[u].new \in 1 .. Len(inode)
    BY <1>1, <1>3 DEF Opening
  <2>3. stored \in SUBSET Names /\ job[u][Files!New] \in 1 .. Len(inode)
    BY <1>1, <2>2 DEF FileTypes, Files!New
  <2>4. NewLines(lines, from, stored)
    BY DEF NewLines, Files!Fresh
  <2> HIDE DEF i, lines
  <2>5. from \in Seq(FileLines)
    BY <1>1, <2>2, NodesAre
  <2> HIDE DEF from
  <2>6. lines \in Seq(FileLines) /\ Len(lines) = Cardinality(stored)
    BY <2>3, <2>4, <2>5, NewLinesAre
  <2>7. part \in Seq(FileLines)
    <3>1. Len(lines) \in Nat /\ k \in 0 .. Len(lines)
      BY <2>6, SameSize, LenProperties
    <3>2. \A n \in 1 .. k : lines[n] \in FileLines
      BY <2>6, <3>1, ElementOfSeq
    <3> QED BY <2>6, <3>1, <3>2, SubSeqProperties
  <2>8. nodes = Files!Partly(u, Files!New, part)
    BY <2>1 DEF lines
  <2> HIDE DEF part
  <2> QED BY <1>1, <2>3, <2>7, <2>8, PartlyIs
<1>4. CASE pc[u] = "write"
  <2> DEFINE i == job[u].index
             l == job[u].buf
  <2>1. nodes \in {inode, Files!Partly(u, Files!Index, l), [inode EXCEPT ![i].lines = l]}
    BY <1>4 DEF Files!Begun
  <2>2. i \in 1 .. Len(inode) /\ l \in Seq(FileLines) /\ job[u][Files!Index] \in 1 .. Len(inode)
    BY <1>1, <1>4 DEF Opening, MakeJobs, AfterList, Files!Index
  <2> HIDE DEF i, l
  <2>3. CASE nodes = Files!Partly(u, Files!Index, l)
    BY <1>1, <2>2, <2>3, PartlyIs
  <2>4. CASE nodes = [inode EXCEPT ![i].lines = l]
    <3>1. Holds(nodes, i, l)
      BY <2>4 DEF Holds
    <3> QED BY <1>1, <2>2, <3>1, HoldsIs
  <2> QED BY <1>2, <2>1, <2>3, <2>4
<1>5. CASE pc[u] \notin {"list", "write"}
  BY <1>2, <1>5 DEF Files!Begun
<1> QED BY <1>3, <1>4, <1>5

LEMMA RebuildFailsKeeps == ASSUME NamesAreWords, FilesInv, NEW u \in Users, Files!RebuildFails(u) PROVE FilesInv'
<1>1. /\ Files!Goto(u, "idle", Files!NoJob) /\ uneven' = TRUE /\ excused' = Names
      /\ inode' \in Files!Begun(u) /\ UNCHANGED << stored, at, told >>
  BY DEF Files!RebuildFails
<1>2. stored' \subseteq Names /\ "idle" \in FilePlaces
  BY <1>1 DEF FilesInv, FileTypes, FilePlaces
<1>3. inode' \in Seq(Nodes) /\ Len(inode') = Len(inode)
  <2>1. PICK nodes \in Files!Begun(u) : inode' = nodes
    BY <1>1
  <2> QED BY <2>1, BegunIs
<1> QED BY <1>1, <1>2, <1>3, SpoiltKeeps

-----------------------------------------------------------------------------
(* The locks of a session that ends.                                       *)
LEMMA FreedIs ==
  ASSUME NEW u \in Users, NEW nodes \in Seq(Nodes)
  PROVE  /\ Files!Freed(u, nodes) \in Seq(Nodes) /\ Len(Files!Freed(u, nodes)) = Len(nodes)
         /\ \A i \in 1 .. Len(nodes) : Files!Freed(u, nodes)[i].lines = nodes[i].lines
<1> DEFINE e(i) == IF nodes[i].holder = u THEN [nodes[i] EXCEPT !.holder = Nobody] ELSE nodes[i]
           freed == Files!Freed(u, nodes)
<1>1. Len(nodes) \in Nat /\ DOMAIN nodes = 1 .. Len(nodes)
  BY LenProperties
<1>2. freed = [i \in 1 .. Len(nodes) |-> e(i)]
  BY <1>1 DEF Files!Freed
<1>3. \A i \in 1 .. Len(nodes) : e(i) \in Nodes /\ e(i).lines = nodes[i].lines
  <2> TAKE i \in 1 .. Len(nodes)
  <2>1. nodes[i] \in Nodes
    BY ElementOfSeq
  <2> QED BY <2>1 DEF Nodes
<1> HIDE DEF e, freed
<1>4. freed \in Seq(Nodes) /\ Len(freed) = Len(nodes) /\ \A i \in 1 .. Len(nodes) : freed[i].lines = nodes[i].lines
  BY <1>1, <1>2, <1>3
<1> QED BY <1>4 DEF freed

LEMMA FreedOnly ==
  ASSUME FileTypes, NEW u \in Users, inode' = Files!Freed(u, inode), at' = at
  PROVE  OpenedOnly /\ Len(inode') = Len(inode)
<1>1. inode \in Seq(Nodes) /\ Len(inode) \in Nat /\ \A f \in {Files!Index, Files!New} : at[f] \in 0 .. Len(inode)
  BY NodesAre DEF FileTypes
<1>2. inode' \in Seq(Nodes) /\ Len(inode') = Len(inode) /\ \A i \in 1 .. Len(inode) : inode'[i].lines = inode[i].lines
  BY <1>1, FreedIs
<1>3. ASSUME NEW f \in {Files!Index, Files!New} PROVE Files!Lines(f)' = Files!Lines(f)
  BY <1>1, <1>2 DEF Files!Lines
<1>4. /\ at' \in [{Files!Index, Files!New} -> 0 .. Len(inode')]
      /\ at'[Files!Index] = at'[Files!New] => at'[Files!Index] = 0
  BY <1>2 DEF FileTypes
<1> QED BY <1>1, <1>2, <1>3, <1>4 DEF OpenedOnly

(* A session ends that makes no index.                                     *)
LEMMA CalmEnd ==
  ASSUME FilesInv, NEW u \in Users, pc[u] \in {"idle", "ask", "upload"}, Files!Goto(u, "idle", Files!NoJob),
         UNCHANGED << stored, at, told, excused, uneven >>, inode' = Files!Freed(u, inode) \/ inode' = inode
  PROVE  FilesInv'
<1>1. FileTypes /\ "idle" \in FilePlaces /\ pc[u] \notin BeforeList \cup AfterList
  BY DEF FilesInv, FilePlaces, BeforeList, AfterList
<1>2. Turns(u) /\ pc'[u] = "idle"
  BY <1>1, GoesTo
<1>3. OpenedOnly
  BY <1>1, FreedOnly, SameDisk
<1>4. Opening(u)' /\ stored' \subseteq Names
  BY <1>1, <1>2 DEF Opening, BeforeList, AfterList, FileTypes
<1> QED BY <1>1, <1>2, <1>3, <1>4, CalmStep DEF AfterList

LEMMA EndsKeeps == ASSUME FilesInv, NEW u \in Users, Files!Ends(u) PROVE FilesInv'
BY CalmEnd DEF Files!Ends, Files!Leaves

(* Files without an index.                                                 *)
LEMMA StraysKeeps ==
  ASSUME FilesInv, NEW u \in Users, pc[u] = "upload", Files!Goto(u, "idle", Files!NoJob), NEW S \in SUBSET Names,
         Files!Strays(S), UNCHANGED << at, told >>, inode' = Files!Freed(u, inode) \/ inode' = inode
  PROVE  FilesInv'
<1>1. FileTypes /\ "idle" \in FilePlaces /\ stored' = stored \cup S
  BY DEF FilesInv, FilePlaces, Files!Strays
<1>2. CASE S \subseteq stored
  <2>1. stored' = stored /\ UNCHANGED << excused, uneven >>
    BY <1>1, <1>2 DEF Files!Strays
  <2> QED BY <2>1, CalmEnd
<1>3. CASE ~(S \subseteq stored)
  <2>1. uneven' = TRUE /\ excused' = Names /\ stored' \subseteq Names
    BY <1>1, <1>3 DEF Files!Strays, FileTypes
  <2>2. inode' \in Seq(Nodes) /\ Len(inode') = Len(inode)
    BY <1>1, FreedIs DEF FileTypes
  <2> QED BY <1>1, <2>1, <2>2, SpoiltKeeps
<1> QED BY <1>2, <1>3

LEMMA UploadedLostKeeps == ASSUME FilesInv, NEW u \in Users, Files!UploadedLost(u) PROVE FilesInv'
<1>1. PICK S \in SUBSET Names :
        /\ pc[u] = "upload" /\ Files!Goto(u, "idle", Files!NoJob) /\ Files!Strays(S)
        /\ UNCHANGED << inode, at, told >>
  BY DEF Files!UploadedLost
<1> QED BY <1>1, StraysKeeps

LEMMA EndsSendingKeeps == ASSUME FilesInv, NEW u \in Users, Files!EndsSending(u) PROVE FilesInv'
<1>1. PICK S \in SUBSET Names :
        /\ pc[u] = "upload" /\ Files!Goto(u, "idle", Files!NoJob) /\ Files!Strays(S)
        /\ inode' = Files!Freed(u, inode) /\ UNCHANGED << at, told >>
  BY DEF Files!EndsSending, Files!Leaves
<1> QED BY <1>1, StraysKeeps

(* A session ends that makes one, or says what a file is.                  *)
LEMMA EndsMakingKeeps == ASSUME NamesAreWords, FilesInv, NEW u \in Users, Files!EndsMaking(u) PROVE FilesInv'
<1>1. PICK nodes \in Files!Begun(u) : inode' = Files!Freed(u, nodes)
  BY DEF Files!EndsMaking
<1>2. /\ Files!Goto(u, "idle", Files!NoJob) /\ uneven' = TRUE /\ excused' = Names
      /\ UNCHANGED << stored, at, told >>
  BY DEF Files!EndsMaking, Files!Leaves
<1>3. stored' \subseteq Names /\ "idle" \in FilePlaces
  BY <1>2 DEF FilesInv, FileTypes, FilePlaces
<1>4. inode' \in Seq(Nodes) /\ Len(inode') = Len(inode)
  BY <1>1, BegunIs, FreedIs
<1> QED BY <1>2, <1>3, <1>4, SpoiltKeeps

LEMMA EndsDescribingKeeps ==
  ASSUME FilesInv, NEW u \in Users, Files!EndsDescribing(u) PROVE FilesInv'
<1> DEFINE n == job[u].name
           S == Files!Fits(n)
           i == Files!Min(S)
           a == at[Files!Index]
           old == Files!Lines(Files!Index)
           rest == Files!Line(n, "")
<1>1. PICK d \in Said, more \in BOOLEAN :
        inode' = Files!Freed(u, [inode EXCEPT ![a].lines =
                   IF more THEN Append([old EXCEPT ![i].desc = d], rest) ELSE [old EXCEPT ![i].desc = d]])
  BY DEF Files!EndsDescribing
<1>2. /\ pc[u] = "ask" /\ a # 0 /\ S # {} /\ Files!Goto(u, "idle", Files!NoJob)
      /\ uneven' = TRUE /\ excused' = Names /\ UNCHANGED << stored, at, told >>
  BY DEF Files!EndsDescribing, Files!Leaves
<1>3. /\ FileTypes /\ "idle" \in FilePlaces /\ n \in Names /\ stored' \subseteq Names
      /\ a \in 1 .. Len(inode) /\ old \in Seq(FileLines)
  <2>1. FileTypes /\ "idle" \in FilePlaces /\ n \in Names
    BY <1>2 DEF FilesInv, FilePlaces, Opening
  <2>2. stored' \subseteq Names
    BY <1>2, <2>1 DEF FileTypes
  <2>3. Len(inode) \in Nat /\ a \in 0 .. Len(inode) /\ old \in Seq(FileLines)
    BY <2>1, NodesAre
  <2> QED BY <1>2, <2>1, <2>2, <2>3
<1>4. i \in 1 .. Len(old)
  <2>1. DOMAIN old = 1 .. Len(old) /\ Len(old) \in Nat
    BY <1>3, LenProperties
  <2>2. S \subseteq 1 .. Len(old)
    BY <2>1 DEF Files!Fits
  <2> HIDE DEF S, old
  <2>3. S \subseteq Nat
    BY <2>1, <2>2
  <2>4. \E k \in S : \A l \in S : k <= l
    BY <1>2, <2>3, LeastOf
  <2>5. i \in S
    BY <2>4 DEF Files!Min
  <2> QED BY <2>2, <2>5
<1> HIDE DEF S, i
<1> DEFINE new == [old EXCEPT ![i].desc = d]
           lines == IF more THEN Append(new, rest) ELSE new
           nodes == [inode EXCEPT ![a].lines = lines]
<1>5. new \in Seq(FileLines)
  <2>1. d \in Descs /\ Reworded(new, old, i, d)
    BY DEF Descs, Reworded
  <2> HIDE DEF old, new
  <2> QED BY <1>3, <1>4, <2>1, SaidAnew
<1>6. inode' = Files!Freed(u, nodes)
  BY <1>1
<1> HIDE DEF new
<1>7. lines \in Seq(FileLines)
  <2>1. rest \in FileLines
    BY <1>3 DEF Files!Line, FileLines, Descs
  <2> HIDE DEF rest
  <2> QED BY <1>5, <2>1, AppendProperties
<1> HIDE DEF lines, a
<1>8. nodes \in Seq(Nodes) /\ Len(nodes) = Len(inode)
  <2>1. Holds(nodes, a, lines)
    BY DEF Holds
  <2> HIDE DEF nodes
  <2> QED BY <1>3, <1>7, <2>1, HoldsIs
<1> HIDE DEF nodes
<1>9. inode' \in Seq(Nodes) /\ Len(inode') = Len(inode)
  BY <1>6, <1>8, FreedIs
<1> QED BY <1>2, <1>3, <1>9, SpoiltKeeps

-----------------------------------------------------------------------------
LEMMA FilesStays == ASSUME NamesAreWords, FilesInv, [Files!Next]_(Files!vars) PROVE FilesInv'
<1>1. CASE UNCHANGED Files!vars
  <2>1. UNCHANGED << stored, inode, at, pc, job, told, excused, uneven >>
    BY <1>1 DEF Files!vars, Files!disk, Files!session, Files!history
  <2>2. \A u \in Users : Opening(u)' <=> Opening(u)
    BY <2>1 DEF Opening
  <2>3. FileTypes' <=> FileTypes
    BY <2>1 DEF FileTypes
  <2>4. Even' <=> Even
    <3>1. \A u \in Users : MakingIt(u)' <=> MakingIt(u)
      BY <2>1 DEF MakingIt, Fine, Good, Whole, Files!Lines
    <3>2. Good(Files!Lines(Files!Index))' <=> Good(Files!Lines(Files!Index))
      BY <2>1 DEF Good, Whole, Files!Lines
    <3>3. \A u \in Users : Files!MadeBy(u)' <=> Files!MadeBy(u)
      BY <2>1 DEF Files!MadeBy
    <3> QED BY <3>1, <3>2, <3>3 DEF Even
  <2> QED BY <2>1, <2>2, <2>3, <2>4 DEF FilesInv
<1>2. CASE Files!Next
  <2>1. PICK u \in Users :
          \/ Files!Upload(u) \/ Files!UploadBusy(u) \/ Files!UploadFails(u) \/ Files!Uploaded(u)
          \/ Files!UploadedLost(u) \/ Files!Download(u)
          \/ \E n \in Names : Files!Unlink(u, n) \/ Files!Describe(u, n)
          \/ Files!DescribeStore(u) \/ Files!DescribeLost(u) \/ Files!DescribeNothing(u)
          \/ Files!OpenIndex(u) \/ Files!WaitIndex(u) \/ Files!OpenNew(u) \/ Files!WaitNew(u) \/ Files!RebuildFails(u)
          \/ Files!List(u) \/ Files!CopyRead(u) \/ Files!CopyOpen(u) \/ Files!CopyWait(u) \/ Files!CopyWrite(u)
          \/ Files!CopyFails(u) \/ Files!Finish(u)
          \/ Files!Ends(u) \/ Files!EndsSending(u) \/ Files!EndsMaking(u) \/ Files!EndsDescribing(u)
    BY <1>2 DEF Files!Next
  <2>2. CASE \/ Files!Upload(u) \/ Files!UploadBusy(u) \/ Files!UploadFails(u) \/ Files!Uploaded(u)
             \/ Files!UploadedLost(u) \/ Files!Download(u)
    BY <2>2, UploadKeeps, UploadBusyKeeps, UploadFailsKeeps, UploadedKeeps, UploadedLostKeeps, DownloadKeeps
  <2>3. CASE \E n \in Names : Files!Unlink(u, n) \/ Files!Describe(u, n)
    BY <2>3, UnlinkKeeps, DescribeKeeps
  <2>4. CASE Files!DescribeStore(u) \/ Files!DescribeLost(u) \/ Files!DescribeNothing(u)
    BY <2>4, DescribeStoreKeeps, DescribeLostKeeps, DescribeNothingKeeps
  <2>5. CASE Files!OpenIndex(u) \/ Files!WaitIndex(u) \/ Files!OpenNew(u) \/ Files!WaitNew(u) \/ Files!RebuildFails(u)
    BY <2>5, OpenIndexKeeps, WaitIndexKeeps, OpenNewKeeps, WaitNewKeeps, RebuildFailsKeeps
  <2>6. CASE Files!List(u) \/ Files!CopyRead(u) \/ Files!CopyOpen(u) \/ Files!CopyWait(u)
    BY <2>6, ListKeeps, CopyReadKeeps, CopyOpenKeeps, CopyWaitKeeps
  <2>7. CASE Files!CopyWrite(u) \/ Files!CopyFails(u) \/ Files!Finish(u)
    BY <2>7, CopyWriteKeeps, CopyFailsKeeps, FinishKeeps
  <2>8. CASE Files!Ends(u) \/ Files!EndsSending(u) \/ Files!EndsMaking(u) \/ Files!EndsDescribing(u)
    BY <2>8, EndsKeeps, EndsSendingKeeps, EndsMakingKeeps, EndsDescribingKeeps
  <2> QED BY <2>1, <2>2, <2>3, <2>4, <2>5, <2>6, <2>7, <2>8
<1> QED BY <1>1, <1>2

(* Files!FilesListed: the index of a conference at rest has a line for     *)
(* each file there is and no other, with what was said of it last, but for *)
(* what the model names (rebuild_index_file, cmd_describe).                *)
THEOREM FilesAreListed == ASSUME NamesAreWords PROVE Files!Spec => []Files!FilesListed
<1>1. Files!Init => FilesInv
  BY FilesBegin
<1>2. FilesInv /\ [Files!Next]_(Files!vars) => FilesInv'
  BY FilesStays
<1>3. FilesInv => Files!FilesListed
  <2> SUFFICES ASSUME FilesInv, Files!Resting, ~uneven
      PROVE  /\ Files!Listed(Files!Lines(Files!Index)) = stored
             /\ Len(Files!Lines(Files!Index)) = Files!Cardinality(stored)
             /\ \A n \in stored \ excused : Files!DescOf(Files!Lines(Files!Index), n) = told[n]
    BY DEF Files!FilesListed
  <2>1. \A u \in Users : pc[u] \notin BeforeList /\ ~Files!MadeBy(u)
    BY DEF Files!Resting, BeforeList, Files!MadeBy
  <2>2. Good(Files!Lines(Files!Index)) /\ stored \subseteq Names
    BY <2>1 DEF FilesInv, Even, FileTypes
  <2> QED BY <2>1, <2>2, SameSize DEF Good, Whole
<1> QED BY <1>1, <1>2, <1>3, PTL DEF Files!Spec

-----------------------------------------------------------------------------
(* What a session hears changes with what it does.                         *)
Alike(u) ==
  \A v \in Users \ {u} : /\ v \in hears' <=> v \in hears
                         /\ v \in avail' <=> v \in avail
                         /\ v \in failed' <=> v \in failed

LEMMA HearKeeps ==
  ASSUME HearInv, NEW u \in Users, Turns(u), Alike(u), Hearing(u)' PROVE HearInv'
<1>1. ASSUME NEW v \in Users \ {u} PROVE Hearing(v)'
  BY DEF HearInv, Hearing, Turns, Alike
<1> QED BY <1>1 DEF HearInv

(* A session on its way through rebuild_index_file.                        *)
Onward(u) ==
  /\ Turns(u) /\ pc[u] \in BeforeList \cup AfterList /\ pc'[u] \in BeforeList \cup AfterList
  /\ job'[u].op = job[u].op

LEMMA OnwardHears ==
  ASSUME HearInv, NEW u \in Users, Onward(u), UNCHANGED << hears, avail, failed >> PROVE HearInv'
<1>1. Hearing(u)' /\ Alike(u) /\ Turns(u)
  BY DEF HearInv, Hearing, Onward, BeforeList, AfterList, Alike
<1> QED BY <1>1, HearKeeps

LEMMA SameOp ==
  ASSUME NEW j \in MakeJobs, NEW f \in {Files!Index, Files!New}, NEW i, NEW k, Remembers(j, f, i, k)
  PROVE  k.op = j.op
BY DEF MakeJobs, Remembers, Files!Index, Files!New

LEMMA OpensOnward ==
  ASSUME FilesInv, NEW u \in Users, pc[u] \in BeforeList \cup AfterList, NEW f \in {Files!Index, Files!New},
         NEW got \in BeforeList \cup AfterList, NEW wait \in BeforeList \cup AfterList, Files!Open(u, f, got, wait)
  PROVE  Onward(u)
<1>1. FileTypes /\ got \in FilePlaces /\ wait \in FilePlaces /\ job[u] \in MakeJobs
  BY DEF FilesInv, FilePlaces, Opening
<1>2. Turns(u) /\ pc'[u] \in {got, wait} /\ Remembers(job[u], f, at'[f], job'[u])
  BY <1>1, OpenIs
<1>3. job'[u].op = job[u].op
  BY <1>1, <1>2, SameOp
<1> QED BY <1>2, <1>3 DEF Onward

LEMMA GoesOnward ==
  ASSUME FilesInv, NEW u \in Users, pc[u] \in BeforeList \cup AfterList,
         NEW p \in BeforeList \cup AfterList, NEW j, Files!Goto(u, p, j), j.op = job[u].op
  PROVE  Onward(u)
<1>1. FileTypes /\ p \in FilePlaces
  BY DEF FilesInv, FilePlaces
<1>2. Turns(u) /\ pc'[u] = p /\ job'[u] = j
  BY <1>1, GoesTo
<1> QED BY <1>2 DEF Onward

LEMMA MakesOnward ==
  ASSUME FilesInv, NEW u \in Users,
         \/ Files!OpenIndex(u) \/ Files!WaitIndex(u) \/ Files!OpenNew(u) \/ Files!WaitNew(u)
         \/ Files!List(u) \/ Files!CopyRead(u) \/ Files!CopyOpen(u) \/ Files!CopyWait(u) \/ Files!CopyWrite(u)
         \/ Files!CopyFails(u)
  PROVE  Onward(u) /\ UNCHANGED << hears, avail, failed >>
<1>0. /\ {"rebuild", "waitindex", "opennew", "waitnew", "list"} \subseteq BeforeList \cup AfterList
      /\ {"copy", "store", "waitstore", "write", "finish"} \subseteq BeforeList \cup AfterList
      /\ Files!Index \in {Files!Index, Files!New} /\ Files!New \in {Files!Index, Files!New}
  BY DEF BeforeList, AfterList
<1>1. pc[u] \in BeforeList \cup AfterList /\ job[u] \in MakeJobs
  BY <1>0 DEF FilesInv, Opening, Files!OpenIndex, Files!WaitIndex, Files!OpenNew, Files!WaitNew, Files!List,
              Files!CopyRead, Files!CopyOpen, Files!CopyWait, Files!CopyWrite, Files!CopyFails
<1>2. CASE Files!OpenIndex(u) \/ Files!OpenNew(u) \/ Files!CopyOpen(u)
  <2>1. PICK f \in {Files!Index, Files!New}, got \in BeforeList \cup AfterList, wait \in BeforeList \cup AfterList :
          Files!Open(u, f, got, wait)
    BY <1>0, <1>2 DEF Files!OpenIndex, Files!OpenNew, Files!CopyOpen
  <2>2. UNCHANGED << hears, avail, failed >>
    BY <1>2 DEF Files!OpenIndex, Files!OpenNew, Files!CopyOpen, Files!ears, Files!history
  <2> QED BY <1>1, <2>1, <2>2, OpensOnward
<1>3. CASE Files!WaitIndex(u) \/ Files!WaitNew(u) \/ Files!CopyWait(u)
  <2>1. \E p \in BeforeList \cup AfterList : Files!Goto(u, p, job[u])
    BY <1>0, <1>3 DEF Files!WaitIndex, Files!WaitNew, Files!CopyWait, Files!Wait
  <2>2. UNCHANGED << hears, avail, failed >>
    BY <1>3 DEF Files!WaitIndex, Files!WaitNew, Files!CopyWait, Files!ears, Files!history
  <2> QED BY <1>1, <2>1, <2>2, GoesOnward
<1>4. CASE Files!List(u)
  <2> DEFINE j == [job[u] EXCEPT !.remo = (stored = {})]
  <2>1. Files!Goto(u, "copy", j) /\ UNCHANGED << hears, avail, failed >>
    BY <1>4 DEF Files!List, Files!ears
  <2>2. j.op = job[u].op
    BY <1>1 DEF MakeJobs
  <2> HIDE DEF j
  <2> QED BY <1>0, <1>1, <2>1, <2>2, GoesOnward
<1>5. CASE Files!CopyRead(u)
  <2> DEFINE j == [job[u] EXCEPT !.new = at[Files!New], !.buf = Files!Lines(Files!New)]
  <2>1. Files!Goto(u, "store", j) /\ UNCHANGED << hears, avail, failed >>
    BY <1>5 DEF Files!CopyRead, Files!ears, Files!history
  <2>2. j.op = job[u].op
    BY <1>1 DEF MakeJobs
  <2> HIDE DEF j
  <2> QED BY <1>0, <1>1, <2>1, <2>2, GoesOnward
<1>6. CASE Files!CopyWrite(u) \/ Files!CopyFails(u)
  <2>1. Files!Goto(u, "finish", job[u]) /\ UNCHANGED << hears, avail, failed >>
    BY <1>6 DEF Files!CopyWrite, Files!CopyFails, Files!ears, Files!history
  <2> QED BY <1>0, <1>1, <2>1, GoesOnward
<1> QED BY <1>2, <1>3, <1>4, <1>5, <1>6

(* What begins and ends at the prompt.                                     *)
LEMMA PromptHears ==
  ASSUME FilesInv, HearInv, NEW u \in Users,
         \/ Files!Upload(u) \/ Files!UploadBusy(u) \/ Files!UploadFails(u) \/ Files!Uploaded(u)
         \/ Files!UploadedLost(u) \/ Files!Download(u)
         \/ \E n \in Names : Files!Unlink(u, n) \/ Files!Describe(u, n)
         \/ Files!DescribeStore(u) \/ Files!DescribeLost(u) \/ Files!DescribeNothing(u)
         \/ Files!RebuildFails(u) \/ Files!Finish(u)
         \/ Files!Ends(u) \/ Files!EndsSending(u) \/ Files!EndsMaking(u) \/ Files!EndsDescribing(u)
  PROVE  HearInv'
<1>0. FileTypes /\ {"idle", "upload", "rebuild", "ask"} \subseteq FilePlaces /\ Hearing(u)
  BY DEF FilesInv, FilePlaces, BeforeList, HearInv
<1>1. CASE Files!Upload(u)
  <2>1. /\ Files!Goto(u, "upload", Files!NoJob) /\ hears' = hears \ {u} /\ failed' = failed
        /\ avail' \in {avail, avail \cup {u}}
    BY <1>1 DEF Files!Upload, Files!history
  <2>2. Turns(u) /\ pc'[u] = "upload"
    BY <1>0, <2>1, GoesTo
  <2> QED BY <2>1, <2>2, HearKeeps DEF Hearing, Alike, BeforeList, AfterList
<1>2. CASE Files!UploadFails(u)
  <2>1. /\ Files!Goto(u, "idle", Files!NoJob) /\ hears' = hears \cup {u}
        /\ \/ avail' = avail \ {u} /\ failed' = failed \ {u}
           \/ avail' = avail /\ failed' = failed \cup {u}
    BY <1>2 DEF Files!UploadFails, Files!Unmark
  <2>2. Turns(u) /\ pc'[u] = "idle"
    BY <1>0, <2>1, GoesTo
  <2> QED BY <2>1, <2>2, HearKeeps DEF Hearing, Alike, BeforeList, AfterList
<1>3. CASE Files!Uploaded(u)
  <2>1. /\ Files!Goto(u, "rebuild", Files!Rebuild("upload")) /\ hears' = hears \cup {u} /\ avail' = avail
        /\ failed' = failed \ {u}
    BY <1>3 DEF Files!Uploaded
  <2>2. Turns(u) /\ pc'[u] = "rebuild" /\ job'[u].op = "upload"
    BY <1>0, <2>1, GoesTo, RebuildIs
  <2> QED BY <2>1, <2>2, HearKeeps DEF Hearing, Alike, BeforeList
<1>4. CASE Files!Download(u)
  <2>1. pc[u] = "idle" /\ pc' = pc /\ job' = job
    BY <1>4 DEF Files!Download, Files!session
  <2>2. Turns(u)
    BY <1>0, <2>1 DEF Turns, FileTypes
  <2>3. \/ hears' = hears \cup {u} /\ avail' = avail \ {u} /\ failed' = failed \ {u}
        \/ /\ hears' \in {hears \cup {u}, hears \ {u}} /\ avail' \in {avail, avail \cup {u}}
           /\ failed' = failed \cup {u}
    BY <1>4 DEF Files!Download
  <2> QED BY <2>1, <2>2, <2>3, HearKeeps DEF Hearing, Alike, BeforeList, AfterList
<1>5. CASE \E n \in Names : Files!Unlink(u, n) \/ Files!Describe(u, n)
  <2>1. /\ pc[u] = "idle" /\ hears' = hears /\ avail' = avail /\ failed' = failed
        /\ \/ Files!Goto(u, "rebuild", Files!Rebuild("unlink"))
           \/ \E n \in Names : Files!Goto(u, "ask", [op |-> "describe", name |-> n])
    BY <1>5 DEF Files!Unlink, Files!Describe, Files!ears, Files!history
  <2>2. Turns(u) /\ (pc'[u] = "ask" \/ (pc'[u] = "rebuild" /\ job'[u].op = "unlink"))
    BY <1>0, <2>1, GoesTo, RebuildIs
  <2> QED BY <1>0, <2>1, <2>2, HearKeeps DEF Hearing, Alike, BeforeList, AfterList
<1>6. CASE Files!DescribeStore(u) \/ Files!DescribeLost(u) \/ Files!DescribeNothing(u)
  <2>1. /\ pc[u] = "ask" /\ hears' = hears /\ avail' = avail /\ failed' = failed /\ Files!Goto(u, "idle", Files!NoJob)
    BY <1>6 DEF Files!DescribeStore, Files!DescribeLost, Files!DescribeNothing, Files!ears, Files!history
  <2>2. Turns(u) /\ pc'[u] = "idle"
    BY <1>0, <2>1, GoesTo
  <2> QED BY <1>0, <2>1, <2>2, HearKeeps DEF Hearing, Alike, BeforeList, AfterList
<1>7. CASE Files!RebuildFails(u) \/ Files!Finish(u)
  <2>1. /\ pc[u] \in BeforeList \cup AfterList /\ hears' = hears /\ Files!Goto(u, "idle", Files!NoJob)
        /\ IF job[u].op = "upload"
           THEN \/ avail' = avail \ {u} /\ failed' = failed \ {u}
                \/ avail' = avail /\ failed' = failed \cup {u}
           ELSE avail' = avail /\ failed' = failed
    BY <1>7 DEF Files!RebuildFails, Files!Finish, Files!Done, Files!Unmark, BeforeList, AfterList
  <2>2. Turns(u) /\ pc'[u] = "idle"
    BY <1>0, <2>1, GoesTo
  <2>3. /\ pc[u] # "upload" /\ (u \in failed \/ (u \in hears /\ (u \in avail => job[u].op = "upload")))
        /\ pc'[u] \notin BeforeList \cup AfterList /\ (job[u].op = "upload" => u \in hears)
    BY <1>0, <2>1, <2>2 DEF Hearing, BeforeList, AfterList
  <2>4. Alike(u)
    <3>1. CASE job[u].op = "upload"
      <4>1. hears' = hears /\ (\/ avail' = avail \ {u} /\ failed' = failed \ {u}
                               \/ avail' = avail /\ failed' = failed \cup {u}) BY <2>1, <3>1
      <4> QED BY <4>1 DEF Alike
    <3>2. CASE job[u].op # "upload"
      <4>1. hears' = hears /\ avail' = avail /\ failed' = failed BY <2>1, <3>2
      <4> QED BY <4>1 DEF Alike
    <3> QED BY <3>1, <3>2
  <2>5. u \notin failed' => u \in hears' /\ u \notin avail'
    BY <2>1, <2>3
  <2>6. Hearing(u)'
    BY <2>2, <2>3, <2>5 DEF Hearing
  <2> QED BY <2>2, <2>4, <2>6, HearKeeps
<1>8. CASE Files!UploadBusy(u)
  <2>1. /\ pc[u] = "idle" /\ pc' = pc /\ job' = job /\ hears' = hears /\ failed' = failed \cup {u}
        /\ avail' \in {avail, avail \cup {u}}
    BY <1>8 DEF Files!UploadBusy, Files!session
  <2>2. Turns(u)
    BY <1>0, <2>1 DEF Turns, FileTypes
  <2> QED BY <2>1, <2>2, HearKeeps DEF Hearing, Alike, BeforeList, AfterList
<1>9. CASE Files!UploadedLost(u)
  <2>1. Files!Goto(u, "idle", Files!NoJob) /\ hears' = hears /\ avail' = avail /\ failed' = failed \cup {u}
    BY <1>9 DEF Files!UploadedLost, Files!ears
  <2>2. Turns(u) /\ pc'[u] = "idle"
    BY <1>0, <2>1, GoesTo
  <2> QED BY <2>1, <2>2, HearKeeps DEF Hearing, Alike, BeforeList, AfterList
<1>10. CASE Files!Ends(u) \/ Files!EndsSending(u) \/ Files!EndsMaking(u) \/ Files!EndsDescribing(u)
  <2>1. /\ Files!Goto(u, "idle", Files!NoJob) /\ hears' = hears \cup {u} /\ avail' = avail \ {u}
        /\ failed' = failed \ {u}
    BY <1>10 DEF Files!Ends, Files!EndsSending, Files!EndsMaking, Files!EndsDescribing, Files!Leaves
  <2>2. Turns(u) /\ pc'[u] = "idle"
    BY <1>0, <2>1, GoesTo
  <2> QED BY <2>1, <2>2, HearKeeps DEF Hearing, Alike, BeforeList, AfterList
<1> QED BY <1>1, <1>2, <1>3, <1>4, <1>5, <1>6, <1>7, <1>8, <1>9, <1>10

LEMMA HearStays == ASSUME FilesInv, HearInv, [Files!Next]_(Files!vars) PROVE HearInv'
<1>1. CASE UNCHANGED Files!vars
  BY <1>1 DEF Files!vars, Files!session, Files!ears, Files!history, HearInv, Hearing
<1>2. CASE Files!Next
  <2>1. PICK u \in Users :
          \/ Files!Upload(u) \/ Files!UploadBusy(u) \/ Files!UploadFails(u) \/ Files!Uploaded(u)
          \/ Files!UploadedLost(u) \/ Files!Download(u)
          \/ \E n \in Names : Files!Unlink(u, n) \/ Files!Describe(u, n)
          \/ Files!DescribeStore(u) \/ Files!DescribeLost(u) \/ Files!DescribeNothing(u)
          \/ Files!OpenIndex(u) \/ Files!WaitIndex(u) \/ Files!OpenNew(u) \/ Files!WaitNew(u) \/ Files!RebuildFails(u)
          \/ Files!List(u) \/ Files!CopyRead(u) \/ Files!CopyOpen(u) \/ Files!CopyWait(u) \/ Files!CopyWrite(u)
          \/ Files!CopyFails(u) \/ Files!Finish(u)
          \/ Files!Ends(u) \/ Files!EndsSending(u) \/ Files!EndsMaking(u) \/ Files!EndsDescribing(u)
    BY <1>2 DEF Files!Next
  <2>2. CASE \/ Files!OpenIndex(u) \/ Files!WaitIndex(u) \/ Files!OpenNew(u) \/ Files!WaitNew(u)
             \/ Files!List(u) \/ Files!CopyRead(u) \/ Files!CopyOpen(u) \/ Files!CopyWait(u) \/ Files!CopyWrite(u)
             \/ Files!CopyFails(u)
    BY <2>2, MakesOnward, OnwardHears
  <2>3. CASE \/ Files!Upload(u) \/ Files!UploadBusy(u) \/ Files!UploadFails(u) \/ Files!Uploaded(u)
             \/ Files!UploadedLost(u) \/ Files!Download(u)
             \/ \E n \in Names : Files!Unlink(u, n) \/ Files!Describe(u, n)
             \/ Files!DescribeStore(u) \/ Files!DescribeLost(u) \/ Files!DescribeNothing(u)
             \/ Files!RebuildFails(u) \/ Files!Finish(u)
             \/ Files!Ends(u) \/ Files!EndsSending(u) \/ Files!EndsMaking(u) \/ Files!EndsDescribing(u)
    BY <2>3, PromptHears
  <2> QED BY <2>1, <2>2, <2>3
<1> QED BY <1>1, <1>2

(* Files!NewsHeard: who is at the prompt hears of news and is not marked   *)
(* as not to be disturbed, but after a transfer whose command returned in  *)
(* the middle or could not take the mark back (cmd_upload, cmd_download,   *)
(* set_avail), until his session ends or another transfer goes well.       *)
THEOREM NewsIsHeard == ASSUME NamesAreWords PROVE Files!Spec => []Files!NewsHeard
<1>1. Files!Init => FilesInv /\ HearInv
  BY FilesBegin DEF Files!Init, HearInv, Hearing
<1>2. FilesInv /\ HearInv /\ [Files!Next]_(Files!vars) => FilesInv' /\ HearInv'
  BY FilesStays, HearStays
<1>3. HearInv => Files!NewsHeard
  BY DEF HearInv, Hearing, Files!NewsHeard, BeforeList, AfterList
<1> QED BY <1>1, <1>2, <1>3, PTL DEF Files!Spec

-----------------------------------------------------------------------------
(* Survey: None is no set of replies or of users, and Nobody no user.      *)
Replies == [user : Users, n : Nat]
NoneIsNoFile == /\ \A S : S \subseteq Replies \/ S \subseteq Users => S # None
                /\ Nobody \notin Users

InReply       == {"ask", "save", "create", "lock", "write"}
Marking     == {"mark", "mcreate", "mlock", "mwrite"}
SurveyPlaces == {"idle"} \cup InReply \cup Marking
SurveyTypes ==
  /\ result \in {None} \cup SUBSET Replies /\ taken \in {None} \cup SUBSET Users
  /\ lock \in [{"result", "taken"} -> Users \cup {Nobody}]
  /\ pc \in [Users -> SurveyPlaces] /\ \E S : job \in [Users -> S]
  /\ shown \in Nat /\ saved \in SUBSET Replies /\ IsFiniteSet(saved)
  /\ again \subseteq Users /\ uneven \in BOOLEAN

Repliers == {r.user : r \in saved}
In(f)    == IF f = None THEN {} ELSE f

(* A reply that was saved is in the file, and in the copy that is about to *)
(* take its place; who begins the file has excused what was there.         *)
RepliesIn(u) ==
  /\ pc[u] \in InReply => job[u].n \in Nat
  /\ pc[u] \in {"create", "lock"} => saved \subseteq excused
  /\ pc[u] = "write" => /\ lock["result"] = u
                        /\ saved \ excused \subseteq job[u].buf /\ job[u].buf \subseteq saved
RepliesSafe == saved \ excused \subseteq In(result) /\ In(result) \subseteq saved

(* Who has replied is in the file of those who have, once he has come to   *)
(* it, and is not asked again.                                             *)
Marked  == {u \in Repliers : pc[u] \notin Marking}
MarksIn(u) ==
  /\ pc[u] \in InReply /\ u \notin again => u \notin Repliers
  /\ pc[u] \in {"mcreate", "mlock"} => Marked \subseteq again
  /\ pc[u] = "mwrite" => lock["taken"] = u /\ Marked \ again \subseteq job[u].buf /\ job[u].buf \subseteq Users
MarksSafe == /\ Marked \ again \subseteq In(taken)
             /\ \A r, s \in saved : r.user = s.user /\ r # s => r.user \in again

(* As long as nothing went wrong, those marked are those who replied.      *)
AllCounted ==
  /\ again = {} /\ (report.pc # "posted" => excused = {})
  /\ In(taken) \subseteq Repliers
  /\ \A u \in Users : /\ pc[u] \in Marking => u \in Repliers
                      /\ pc[u] = "mwrite" => job[u].buf \subseteq Repliers
  /\ report.pc = "compare" => report.replies = due

ReportSafe ==
  /\ report \in [pc : {"idle", "compare", "posted"}, replies : SUBSET Replies, warned : BOOLEAN]
  /\ report.pc = "idle" => report.replies = {}
  /\ report.pc # "idle" => due \ excused \subseteq report.replies
  /\ report.warned => uneven

SurveyInv ==
  /\ SurveyTypes /\ RepliesSafe /\ MarksSafe /\ ReportSafe
  /\ \A u \in Users : RepliesIn(u) /\ MarksIn(u)
  /\ ~uneven => AllCounted

-----------------------------------------------------------------------------
(* What one session does.                                                  *)
Steps(u) == /\ pc' \in [Users -> SurveyPlaces] /\ \E S : job' \in [Users -> S]
            /\ \A v \in Users \ {u} : pc'[v] = pc[v] /\ job'[v] = job[v]

LEMMA SurveyGoes ==
  ASSUME SurveyTypes, NEW u \in Users, NEW p \in SurveyPlaces, NEW j, Survey!Goto(u, p, j)
  PROVE  Steps(u) /\ pc'[u] = p /\ job'[u] = j
<1>1. PICK S : job \in [Users -> S]
  BY DEF SurveyTypes
<1>2. job' \in [Users -> S \cup {j}] /\ job'[u] = j /\ \A v \in Users \ {u} : job'[v] = job[v]
  BY <1>1 DEF Survey!Goto
<1>3. pc' \in [Users -> SurveyPlaces] /\ pc'[u] = p /\ \A v \in Users \ {u} : pc'[v] = pc[v]
  BY DEF SurveyTypes, Survey!Goto
<1> QED BY <1>2, <1>3 DEF Steps

LEMMA SurveyMoves ==
  ASSUME SurveyTypes, NEW u \in Users, NEW p \in SurveyPlaces, Survey!Move(u, p)
  PROVE  Steps(u) /\ pc'[u] = p /\ job'[u] = job[u]
BY SurveyGoes DEF Survey!Move

LEMMA RepliersAre == ASSUME SurveyTypes PROVE Repliers \subseteq Users /\ Marked \subseteq Users
BY DEF SurveyTypes, Replies, Repliers, Marked

(* No reply is saved, and no file written, but it may be begun: then it is *)
(* as empty as if it were not there.                                       *)
SurveyRests(u) ==
  /\ Steps(u) /\ SurveyTypes' /\ UNCHANGED << saved, report, due >>
  /\ In(result)' = In(result) /\ In(taken)' = In(taken)
  /\ excused \subseteq excused' /\ again \subseteq again'
  /\ uneven => uneven'
  /\ \A f \in {"result", "taken"}, v \in Users \ {u} : lock[f] = v => lock'[f] = v
  /\ pc[u] \in Marking /\ pc'[u] \notin Marking => u \in again'
QuietMark(u) ==
  /\ pc'[u] \in InReply /\ u \notin again' => u \notin Repliers
  /\ pc'[u] \in {"mcreate", "mlock"} => Marked \subseteq again'
  /\ pc'[u] = "mwrite" => /\ lock'["taken"] = u /\ job'[u].buf \subseteq Users
                          /\ Marked \ again' \subseteq job'[u].buf
QuietEven(u) ==
  ~uneven' => /\ again' = {} /\ excused' = excused
              /\ pc'[u] \in Marking => u \in Repliers
              /\ pc'[u] = "mwrite" => job'[u].buf \subseteq Repliers

LEMMA QuietKeeps ==
  ASSUME SurveyInv, NEW u \in Users, SurveyRests(u), QuietMark(u), QuietEven(u), RepliesIn(u)'
  PROVE  SurveyInv'
<1>1. SurveyTypes' /\ RepliesSafe' /\ ReportSafe'
  BY DEF SurveyInv, SurveyRests, RepliesSafe, ReportSafe
<1>2. Repliers' = Repliers /\ Marked' \subseteq Marked \cup again'
  <2>1. Repliers' = Repliers /\ Repliers \subseteq Users
    BY RepliersAre DEF SurveyRests, Repliers, SurveyInv
  <2>2. ASSUME NEW v \in Marked' PROVE v \in Marked \cup again'
    <3>1. v \in Repliers /\ v \in Users /\ pc'[v] \notin Marking
      BY <2>1 DEF Marked
    <3>2. CASE v = u
      BY <3>1, <3>2 DEF SurveyRests, Marked
    <3>3. CASE v # u
      BY <3>1, <3>3 DEF SurveyRests, Steps, Marked
    <3> QED BY <3>2, <3>3
  <2> QED BY <2>1, <2>2
<1>3. MarksSafe'
  <2>1. In(taken)' = In(taken) /\ again \subseteq again' /\ saved' = saved
    BY DEF SurveyRests
  <2> QED BY <1>2, <2>1 DEF MarksSafe, SurveyInv
<1>4. ASSUME NEW v \in Users \ {u} PROVE RepliesIn(v)' /\ MarksIn(v)'
  <2>1. /\ pc'[v] = pc[v] /\ job'[v] = job[v] /\ RepliesIn(v) /\ MarksIn(v)
        /\ lock["result"] = v => lock'["result"] = v
        /\ lock["taken"] = v => lock'["taken"] = v
        /\ saved' = saved /\ excused \subseteq excused' /\ again \subseteq again'
    BY DEF SurveyRests, Steps, SurveyInv
  <2>2. RepliesIn(v)'
    BY <2>1 DEF RepliesIn
  <2>3. MarksIn(v)'
    BY <1>2, <2>1 DEF MarksIn
  <2> QED BY <2>2, <2>3
<1>5. MarksIn(u)'
  BY <1>2 DEF MarksIn, QuietMark
<1>6. ASSUME ~uneven' PROVE AllCounted'
  <2>1. AllCounted /\ again' = {} /\ excused' = excused /\ report' = report /\ due' = due /\ In(taken)' = In(taken)
    BY <1>6 DEF SurveyInv, SurveyRests, QuietEven
  <2>2. ASSUME NEW v \in Users
        PROVE  (pc'[v] \in Marking => v \in Repliers) /\ (pc'[v] = "mwrite" => job'[v].buf \subseteq Repliers)
    BY <1>6, <2>1 DEF AllCounted, SurveyRests, Steps, QuietEven
  <2> QED BY <1>2, <2>1, <2>2 DEF AllCounted
<1> QED BY <1>1, <1>3, <1>4, <1>5, <1>6 DEF SurveyInv

LEMMA Locks ==
  ASSUME NoneIsNoFile, SurveyTypes, NEW u \in Users, NEW f \in {"result", "taken"}
  PROVE  /\ Survey!Take(u, f) =>
              /\ lock' \in [{"result", "taken"} -> Users \cup {Nobody}] /\ lock'[f] = u
              /\ \A g \in {"result", "taken"}, v \in Users : lock[g] = v => lock'[g] = v
         /\ Survey!Release(f) /\ lock[f] = u =>
              /\ lock' \in [{"result", "taken"} -> Users \cup {Nobody}]
              /\ \A g \in {"result", "taken"}, v \in Users \ {u} : lock[g] = v => lock'[g] = v
BY DEF NoneIsNoFile, SurveyTypes, Survey!Take, Survey!Release, Survey!Free

(* What a session does at a question changes nothing.                      *)
LEMMA IdleKeeps ==
  ASSUME SurveyInv, NEW u \in Users, Steps(u), SurveyTypes', UNCHANGED << result, taken, lock, report, saved, due, excused, again >>,
         uneven => uneven', pc'[u] \notin Marking, pc[u] \notin Marking,
         pc'[u] \notin {"create", "lock", "write"}, pc'[u] \in InReply => job'[u].n \in Nat,
         pc'[u] \in InReply /\ u \notin again => u \notin Repliers
  PROVE  SurveyInv'
<1>1. SurveyRests(u)
  BY DEF SurveyRests, In
<1>2. QuietMark(u)
  BY DEF QuietMark, Marking
<1>3. QuietEven(u)
  BY <1>1 DEF QuietEven, SurveyInv, AllCounted, SurveyRests, Marking
<1>4. RepliesIn(u)'
  BY DEF RepliesIn
<1> QED BY <1>1, <1>2, <1>3, <1>4, QuietKeeps

LEMMA RefuseKeeps == ASSUME SurveyInv, NEW u \in Users, Survey!Refuse(u) PROVE SurveyInv'
<1>1. /\ pc[u] = "ask" /\ Survey!Goto(u, "idle", Survey!NoJob)
      /\ UNCHANGED << result, taken, lock, report, shown, saved, due, excused, again, uneven >>
  BY DEF Survey!Refuse, Survey!files, Survey!history
<1>2. SurveyTypes /\ Steps(u) /\ pc'[u] = "idle"
  BY <1>1, SurveyGoes DEF SurveyInv, SurveyPlaces
<1>3. SurveyTypes'
  BY <1>1, <1>2 DEF SurveyTypes, Steps
<1> QED BY <1>1, <1>2, <1>3, IdleKeeps DEF Marking, InReply

LEMMA SaveReplyKeeps == ASSUME SurveyInv, NEW u \in Users, Survey!Save(u) PROVE SurveyInv'
<1>1. /\ pc[u] = "ask" /\ Survey!Move(u, "save")
      /\ UNCHANGED << result, taken, lock, report, shown, saved, due, excused, again, uneven >>
  BY DEF Survey!Save, Survey!files, Survey!history
<1>2. SurveyTypes /\ Steps(u) /\ pc'[u] = "save" /\ job'[u] = job[u]
  BY <1>1, SurveyMoves DEF SurveyInv, SurveyPlaces, InReply
<1>3. SurveyTypes'
  BY <1>1, <1>2 DEF SurveyTypes, Steps
<1>4. job[u].n \in Nat /\ (u \notin again => u \notin Repliers)
  BY <1>1 DEF SurveyInv, RepliesIn, MarksIn, InReply
<1> QED BY <1>1, <1>2, <1>3, <1>4, IdleKeeps DEF Marking, InReply

(* Who is asked has not replied, unless the file of those who have could   *)
(* not be opened.                                                          *)
LEMMA ShowKeeps == ASSUME SurveyInv, NEW u \in Users, Survey!Show(u) PROVE SurveyInv'
<1>1. /\ pc[u] = "idle" /\ shown' = shown + 1
      /\ UNCHANGED << result, taken, lock, report, saved, due, excused >>
  BY DEF Survey!Show, Survey!files
<1>2. SurveyTypes /\ shown' \in Nat /\ (taken # None => In(taken) = taken)
  BY <1>1 DEF SurveyInv, SurveyTypes, In
<1>3. u \in Repliers /\ u \notin again => u \in In(taken)
  BY <1>1 DEF SurveyInv, MarksSafe, Marked, Marking
<1>4. CASE UNCHANGED << pc, job, again, uneven >>
  <2>1. Steps(u) /\ SurveyTypes'
    BY <1>1, <1>2, <1>4 DEF Steps, SurveyTypes
  <2> QED BY <1>1, <1>4, <2>1, IdleKeeps DEF Marking, InReply
<1>5. CASE /\ (taken # None => u \notin taken) /\ Survey!Goto(u, "ask", [n |-> shown + 1])
           /\ UNCHANGED << again, uneven >>
  <2>1. Steps(u) /\ pc'[u] = "ask" /\ job'[u].n = shown + 1
    BY <1>2, <1>5, SurveyGoes DEF SurveyPlaces, InReply
  <2>2. SurveyTypes'
    BY <1>1, <1>2, <1>5, <2>1 DEF Steps, SurveyTypes
  <2>3. u \notin again => u \notin Repliers
    BY <1>2, <1>3, <1>5 DEF In
  <2> QED BY <1>1, <1>2, <1>5, <2>1, <2>2, <2>3, IdleKeeps DEF Marking, InReply
<1>6. CASE /\ Survey!Goto(u, "ask", [n |-> shown + 1]) /\ again' = again \cup {u} /\ uneven' = TRUE
  <2>1. Steps(u) /\ pc'[u] = "ask" /\ job'[u].n = shown + 1
    BY <1>2, <1>6, SurveyGoes DEF SurveyPlaces, InReply
  <2>2. SurveyTypes'
    BY <1>1, <1>2, <1>6, <2>1 DEF Steps, SurveyTypes
  <2>3. SurveyRests(u) /\ QuietMark(u) /\ QuietEven(u)
    BY <1>1, <1>6, <2>1, <2>2 DEF SurveyRests, QuietMark, QuietEven, In, Marking
  <2>4. RepliesIn(u)'
    BY <1>1, <1>2, <2>1 DEF RepliesIn
  <2> QED BY <2>3, <2>4, QuietKeeps
<1> QED BY <1>4, <1>5, <1>6 DEF Survey!Show, Survey!session

-----------------------------------------------------------------------------
(* save_survey_result: who begins the file has excused the replies that    *)
(* are in it.                                                              *)
LEMMA AskedQuiet ==
  ASSUME SurveyInv, NEW u \in Users, pc[u] \in InReply, pc'[u] \in InReply, Steps(u), SurveyTypes',
         UNCHANGED << report, saved, due, taken, again >>, In(result)' = In(result), excused \subseteq excused',
         uneven => uneven', ~uneven' => excused' = excused,
         \A f \in {"result", "taken"}, v \in Users \ {u} : lock[f] = v => lock'[f] = v
  PROVE  SurveyRests(u) /\ QuietMark(u) /\ QuietEven(u)
<1>1. pc[u] \notin Marking /\ pc'[u] \notin Marking /\ pc'[u] \notin {"mcreate", "mlock", "mwrite"}
  BY DEF InReply, Marking
<1>2. SurveyRests(u)
  BY <1>1 DEF SurveyRests
<1>3. QuietMark(u)
  BY <1>1 DEF QuietMark, SurveyInv, MarksIn
<1>4. QuietEven(u)
  BY <1>1 DEF QuietEven, SurveyInv, AllCounted
<1> QED BY <1>2, <1>3, <1>4

LEMMA OpenResultKeeps == ASSUME NoneIsNoFile, SurveyInv, NEW u \in Users, Survey!OpenResult(u) PROVE SurveyInv'
<1>1. pc[u] = "save" /\ UNCHANGED << result, taken, report, shown, saved, due, again >>
  BY DEF Survey!OpenResult
<1>2. /\ SurveyTypes /\ RepliesSafe /\ job[u].n \in Nat /\ In(result)' = In(result)
      /\ "create" \in SurveyPlaces /\ "write" \in SurveyPlaces /\ "result" \in {"result", "taken"}
  BY <1>1 DEF SurveyInv, RepliesIn, SurveyPlaces, InReply, In
<1>3. CASE result = None /\ Survey!Move(u, "create") /\ UNCHANGED << lock, excused, uneven >>
  <2>1. Steps(u) /\ pc'[u] = "create" /\ job'[u] = job[u]
    BY <1>2, <1>3, SurveyMoves
  <2>2. SurveyTypes'
    BY <1>1, <1>2, <1>3, <2>1 DEF Steps, SurveyTypes
  <2>3. saved \subseteq excused
    BY <1>2, <1>3 DEF RepliesSafe, In
  <2>4. RepliesIn(u)'
    BY <1>1, <1>2, <1>3, <2>1, <2>3 DEF RepliesIn
  <2>5. pc[u] \in InReply /\ pc'[u] \in InReply
    BY <1>1, <2>1 DEF InReply
  <2> QED BY <1>1, <1>2, <1>3, <2>1, <2>2, <2>4, <2>5, AskedQuiet, QuietKeeps
<1>4. CASE /\ result # None /\ Survey!Take(u, "result")
           /\ Survey!Goto(u, "write", [n |-> job[u].n, buf |-> result]) /\ UNCHANGED << excused, uneven >>
  <2>1. Steps(u) /\ pc'[u] = "write" /\ job'[u].n = job[u].n /\ job'[u].buf = result
    BY <1>2, <1>4, SurveyGoes
  <2>2. /\ lock' \in [{"result", "taken"} -> Users \cup {Nobody}] /\ lock'["result"] = u
        /\ \A g \in {"result", "taken"}, v \in Users : lock[g] = v => lock'[g] = v
    BY <1>2, <1>4, Locks
  <2>3. SurveyTypes'
    BY <1>1, <1>2, <1>4, <2>1, <2>2 DEF Steps, SurveyTypes
  <2>4. saved \ excused \subseteq result /\ result \subseteq saved
    BY <1>2, <1>4 DEF RepliesSafe, In
  <2>5. RepliesIn(u)'
    BY <1>1, <1>2, <1>4, <2>1, <2>2, <2>4 DEF RepliesIn
  <2>6. pc[u] \in InReply /\ pc'[u] \in InReply
    BY <1>1, <2>1 DEF InReply
  <2> QED BY <1>1, <1>2, <1>4, <2>1, <2>2, <2>3, <2>5, <2>6, AskedQuiet, QuietKeeps
<1>5. CASE /\ result # None /\ Survey!Move(u, "create")
           /\ excused' = excused \cup result /\ uneven' = TRUE /\ UNCHANGED lock
  <2>1. Steps(u) /\ pc'[u] = "create" /\ job'[u] = job[u]
    BY <1>2, <1>5, SurveyMoves
  <2>2. SurveyTypes'
    BY <1>1, <1>2, <1>5, <2>1 DEF Steps, SurveyTypes
  <2>3. saved \subseteq excused'
    BY <1>2, <1>5 DEF RepliesSafe, In
  <2>4. RepliesIn(u)'
    BY <1>1, <1>2, <1>5, <2>1, <2>3 DEF RepliesIn
  <2>5. pc[u] \in InReply /\ pc'[u] \in InReply
    BY <1>1, <2>1 DEF InReply
  <2> QED BY <1>1, <1>2, <1>5, <2>1, <2>2, <2>4, <2>5, AskedQuiet, QuietKeeps
<1> QED BY <1>3, <1>4, <1>5 DEF Survey!OpenResult

LEMMA CreateResultKeeps == ASSUME NoneIsNoFile, SurveyInv, NEW u \in Users, Survey!CreateResult(u) PROVE SurveyInv'
<1>1. /\ pc[u] = "create" /\ Survey!Move(u, "lock") /\ result' = (IF result = None THEN {} ELSE result)
      /\ UNCHANGED << taken, lock, report, shown, saved, due, excused, again, uneven >>
  BY DEF Survey!CreateResult, Survey!history
<1>2. /\ SurveyTypes /\ job[u].n \in Nat /\ saved \subseteq excused /\ "lock" \in SurveyPlaces
      /\ In(result)' = In(result)
  BY <1>1 DEF SurveyInv, RepliesIn, SurveyPlaces, InReply, In
<1>3. Steps(u) /\ pc'[u] = "lock" /\ job'[u] = job[u]
  BY <1>1, <1>2, SurveyMoves
<1>4. SurveyTypes'
  BY <1>1, <1>2, <1>3 DEF Steps, SurveyTypes
<1>5. RepliesIn(u)' /\ pc[u] \in InReply /\ pc'[u] \in InReply
  BY <1>1, <1>2, <1>3 DEF RepliesIn, InReply
<1> QED BY <1>1, <1>2, <1>3, <1>4, <1>5, AskedQuiet, QuietKeeps

LEMMA LockResultKeeps == ASSUME NoneIsNoFile, SurveyInv, NEW u \in Users, Survey!LockResult(u) PROVE SurveyInv'
<1>1. pc[u] = "lock" /\ UNCHANGED << result, taken, report, shown, saved, due, excused, again >>
  BY DEF Survey!LockResult
<1>2. /\ SurveyTypes /\ job[u].n \in Nat /\ saved \subseteq excused /\ In(result)' = In(result) /\ pc[u] \in InReply
      /\ "mark" \in SurveyPlaces /\ "write" \in SurveyPlaces /\ "result" \in {"result", "taken"}
  BY <1>1 DEF SurveyInv, RepliesIn, SurveyPlaces, InReply, Marking, In
<1>3. CASE /\ Survey!Take(u, "result") /\ Survey!Goto(u, "write", [n |-> job[u].n, buf |-> {}])
           /\ UNCHANGED uneven
  <2>1. Steps(u) /\ pc'[u] = "write" /\ job'[u].n = job[u].n /\ job'[u].buf = {}
    BY <1>2, <1>3, SurveyGoes
  <2>2. /\ lock' \in [{"result", "taken"} -> Users \cup {Nobody}] /\ lock'["result"] = u
        /\ \A g \in {"result", "taken"}, v \in Users : lock[g] = v => lock'[g] = v
    BY <1>2, <1>3, Locks
  <2>3. SurveyTypes'
    BY <1>1, <1>2, <1>3, <2>1, <2>2 DEF Steps, SurveyTypes
  <2>4. RepliesIn(u)' /\ pc'[u] \in InReply
    BY <1>1, <1>2, <1>3, <2>1, <2>2 DEF RepliesIn, InReply
  <2> QED BY <1>1, <1>2, <1>3, <2>1, <2>2, <2>3, <2>4, AskedQuiet, QuietKeeps
<1>4. CASE Survey!Move(u, "mark") /\ uneven' = TRUE /\ UNCHANGED lock
  <2>1. Steps(u) /\ pc'[u] = "mark" /\ job'[u] = job[u]
    BY <1>2, <1>4, SurveyMoves
  <2>2. SurveyTypes'
    BY <1>1, <1>2, <1>4, <2>1 DEF Steps, SurveyTypes
  <2>3. SurveyRests(u) /\ QuietMark(u) /\ QuietEven(u) /\ RepliesIn(u)'
    BY <1>1, <1>4, <2>1, <2>2 DEF SurveyRests, QuietMark, QuietEven, In, Marking, InReply, RepliesIn
  <2> QED BY <2>3, QuietKeeps
<1> QED BY <1>3, <1>4 DEF Survey!LockResult

LEMMA WriteFailsKeeps == ASSUME SurveyInv, NEW u \in Users, Survey!WriteFails(u) PROVE SurveyInv'
<1>1. /\ pc[u] = "write" /\ Survey!Move(u, "mark") /\ uneven' = TRUE
      /\ UNCHANGED << result, taken, lock, report, shown, saved, due, excused, again >>
  BY DEF Survey!WriteFails, Survey!files
<1>2. SurveyTypes /\ "mark" \in SurveyPlaces
  BY DEF SurveyInv, SurveyPlaces, Marking
<1>3. Steps(u) /\ pc'[u] = "mark"
  BY <1>1, <1>2, SurveyMoves
<1>4. SurveyTypes'
  BY <1>1, <1>2, <1>3 DEF Steps, SurveyTypes
<1>5. SurveyRests(u) /\ QuietMark(u) /\ QuietEven(u) /\ RepliesIn(u)'
  BY <1>1, <1>3, <1>4 DEF SurveyRests, QuietMark, QuietEven, In, Marking, InReply, RepliesIn
<1> QED BY <1>5, QuietKeeps

(* A reply is saved.                                                       *)
LEMMA WriteResultKeeps == ASSUME NoneIsNoFile, SurveyInv, NEW u \in Users, Survey!WriteResult(u) PROVE SurveyInv'
<1> DEFINE r == Survey!Reply(u)
           b == job[u].buf
           B == Survey!Begins("result")
<1>1. /\ pc[u] = "write" /\ result' = {r} \cup b /\ Survey!Release("result") /\ saved' = saved \cup {r}
      /\ excused' = excused \cup (IF B = {} THEN {} ELSE result') /\ uneven' = (uneven \/ B # {})
      /\ Survey!Move(u, "mark") /\ UNCHANGED << taken, report, shown, due, again >>
  BY DEF Survey!WriteResult, Survey!Insert
<1>2. /\ SurveyTypes /\ "mark" \in SurveyPlaces /\ "result" \in {"result", "taken"} /\ job[u].n \in Nat
      /\ lock["result"] = u /\ saved \ excused \subseteq b /\ b \subseteq saved /\ saved \subseteq Replies
      /\ (u \notin again => u \notin Repliers)
  BY <1>1 DEF SurveyInv, SurveyPlaces, Marking, RepliesIn, MarksIn, InReply, SurveyTypes
<1>3. r \in Replies /\ r.user = u
  BY <1>2 DEF Survey!Reply, Replies
<1>4. Steps(u) /\ pc'[u] = "mark"
  BY <1>1, <1>2, SurveyMoves
<1>5. /\ lock' \in [{"result", "taken"} -> Users \cup {Nobody}]
      /\ \A g \in {"result", "taken"}, v \in Users \ {u} : lock[g] = v => lock'[g] = v
  BY <1>1, <1>2, Locks
<1> HIDE DEF r, b, B
<1>6. result' \subseteq Replies /\ In(result)' = result'
  BY <1>1, <1>2, <1>3 DEF NoneIsNoFile, In
<1>7. SurveyTypes'
  <2>1. IsFiniteSet(saved')
    BY <1>1, <1>2, FS_AddElement DEF SurveyTypes
  <2>2. uneven' \in BOOLEAN
    BY <1>1, <1>2 DEF SurveyTypes
  <2> QED BY <1>1, <1>2, <1>3, <1>4, <1>5, <1>6, <2>1, <2>2 DEF SurveyTypes, Steps
<1>8. RepliesSafe'
  BY <1>1, <1>2, <1>6 DEF RepliesSafe
<1>9. Repliers' = Repliers \cup {u} /\ Marked' \subseteq Marked /\ Repliers \subseteq Users
  <2>1. Repliers' = Repliers \cup {u} /\ Repliers \subseteq Users
    BY <1>1, <1>2, <1>3, RepliersAre DEF Repliers
  <2>2. ASSUME NEW v \in Marked' PROVE v \in Marked
    <3>1. v \in Repliers' /\ pc'[v] \notin Marking
      BY DEF Marked
    <3>2. v # u
      BY <1>4, <3>1 DEF Marking
    <3> QED BY <1>4, <2>1, <3>1, <3>2 DEF Steps, Marked
  <2> QED BY <2>1, <2>2
<1>10. MarksSafe'
  <2>1. Marked' \ again' \subseteq In(taken)'
    BY <1>1, <1>9 DEF SurveyInv, MarksSafe, In
  <2>2. ASSUME NEW x \in saved', NEW y \in saved', x.user = y.user, x # y PROVE x.user \in again'
    <3>1. CASE x \in saved /\ y \in saved
      BY <1>1, <2>2, <3>1 DEF SurveyInv, MarksSafe
    <3>2. CASE x = r \/ y = r
      <4>1. x.user = u /\ (x \in saved \/ y \in saved)
        BY <1>1, <1>3, <2>2, <3>2
      <4>2. u \in Repliers
        BY <2>2, <4>1 DEF Repliers
      <4> QED BY <1>1, <1>2, <4>1, <4>2
    <3> QED BY <1>1, <3>1, <3>2
  <2> QED BY <2>1, <2>2 DEF MarksSafe
<1>11. ReportSafe'
  BY <1>1 DEF SurveyInv, ReportSafe
<1>12. RepliesIn(u)' /\ MarksIn(u)'
  BY <1>4 DEF RepliesIn, MarksIn, InReply
<1>13. ASSUME NEW v \in Users \ {u} PROVE RepliesIn(v)' /\ MarksIn(v)'
  <2>1. pc'[v] = pc[v] /\ job'[v] = job[v] /\ RepliesIn(v) /\ MarksIn(v) /\ (lock["taken"] = v => lock'["taken"] = v)
    BY <1>4, <1>5 DEF Steps, SurveyInv
  <2>2. pc[v] # "write"
    BY <1>2, <2>1 DEF RepliesIn
  <2>3. pc[v] \in {"create", "lock"} => saved' \subseteq excused'
    <3>1. pc[v] \in {"create", "lock"} => v \in B
      BY DEF B, Survey!Begins
    <3> QED BY <1>1, <2>1, <3>1 DEF RepliesIn
  <2>4. RepliesIn(v)'
    BY <2>1, <2>2, <2>3 DEF RepliesIn
  <2>5. MarksIn(v)'
    BY <1>1, <1>9, <2>1 DEF MarksIn
  <2> QED BY <2>4, <2>5
<1>14. ASSUME ~uneven' PROVE AllCounted'
  <2>1. AllCounted /\ excused' = excused
    BY <1>1, <1>14 DEF SurveyInv
  <2>2. ASSUME NEW v \in Users
        PROVE  (pc'[v] \in Marking => v \in Repliers') /\ (pc'[v] = "mwrite" => job'[v].buf \subseteq Repliers')
    BY <1>4, <1>9, <2>1 DEF AllCounted, Steps
  <2>3. In(taken)' = In(taken)
    BY <1>1 DEF In
  <2> QED BY <1>1, <1>9, <2>1, <2>2, <2>3 DEF AllCounted
<1> QED BY <1>7, <1>8, <1>10, <1>11, <1>12, <1>13, <1>14 DEF SurveyInv

-----------------------------------------------------------------------------
(* mark_survey_as_taken.                                                   *)
LEMMA OpenTakenKeeps == ASSUME NoneIsNoFile, SurveyInv, NEW u \in Users, Survey!OpenTaken(u) PROVE SurveyInv'
<1>1. pc[u] = "mark" /\ UNCHANGED << result, taken, report, shown, saved, due, excused >>
  BY DEF Survey!OpenTaken
<1>2. /\ SurveyTypes /\ Marked \ again \subseteq In(taken) /\ pc[u] \in Marking
      /\ "mcreate" \in SurveyPlaces /\ "mwrite" \in SurveyPlaces /\ "taken" \in {"result", "taken"}
  BY <1>1 DEF SurveyInv, MarksSafe, SurveyPlaces, Marking
<1>3. ~uneven => again = {} /\ In(taken) \subseteq Repliers /\ u \in Repliers
  BY <1>2 DEF SurveyInv, AllCounted
<1>4. CASE taken = None /\ Survey!Move(u, "mcreate") /\ UNCHANGED << lock, again, uneven >>
  <2>1. Steps(u) /\ pc'[u] = "mcreate"
    BY <1>2, <1>4, SurveyMoves
  <2>2. SurveyTypes'
    BY <1>1, <1>2, <1>4, <2>1 DEF Steps, SurveyTypes
  <2>3. SurveyRests(u) /\ QuietMark(u) /\ QuietEven(u) /\ RepliesIn(u)'
    BY <1>1, <1>2, <1>3, <1>4, <2>1, <2>2 DEF SurveyRests, QuietMark, QuietEven, In, Marking, InReply, RepliesIn
  <2> QED BY <2>3, QuietKeeps
<1>5. CASE /\ taken # None /\ Survey!Take(u, "taken") /\ Survey!Goto(u, "mwrite", [buf |-> taken])
           /\ UNCHANGED << again, uneven >>
  <2>1. Steps(u) /\ pc'[u] = "mwrite" /\ job'[u].buf = taken
    BY <1>2, <1>5, SurveyGoes
  <2>2. /\ lock' \in [{"result", "taken"} -> Users \cup {Nobody}] /\ lock'["taken"] = u
        /\ \A g \in {"result", "taken"}, v \in Users : lock[g] = v => lock'[g] = v
    BY <1>2, <1>5, Locks
  <2>3. SurveyTypes'
    BY <1>1, <1>2, <1>5, <2>1, <2>2 DEF Steps, SurveyTypes
  <2>4. In(taken) = taken /\ taken \subseteq Users
    BY <1>2, <1>5 DEF In, SurveyTypes
  <2>5. SurveyRests(u) /\ RepliesIn(u)'
    BY <1>1, <1>2, <1>5, <2>1, <2>2, <2>3 DEF SurveyRests, In, Marking, InReply, RepliesIn
  <2>6. QuietMark(u) /\ QuietEven(u)
    BY <1>1, <1>2, <1>3, <1>5, <2>1, <2>2, <2>4 DEF QuietMark, QuietEven, InReply
  <2> QED BY <2>5, <2>6, QuietKeeps
<1>6. CASE /\ taken # None /\ Survey!Move(u, "mcreate")
           /\ again' = again \cup taken /\ uneven' = TRUE /\ UNCHANGED lock
  <2>1. Steps(u) /\ pc'[u] = "mcreate"
    BY <1>2, <1>6, SurveyMoves
  <2>2. SurveyTypes'
    BY <1>1, <1>2, <1>6, <2>1 DEF Steps, SurveyTypes
  <2>3. SurveyRests(u) /\ QuietMark(u) /\ QuietEven(u) /\ RepliesIn(u)'
    BY <1>1, <1>2, <1>6, <2>1, <2>2 DEF SurveyRests, QuietMark, QuietEven, In, Marking, InReply, RepliesIn
  <2> QED BY <2>3, QuietKeeps
<1> QED BY <1>4, <1>5, <1>6 DEF Survey!OpenTaken

LEMMA CreateTakenKeeps == ASSUME NoneIsNoFile, SurveyInv, NEW u \in Users, Survey!CreateTaken(u) PROVE SurveyInv'
<1>1. /\ pc[u] = "mcreate" /\ Survey!Move(u, "mlock") /\ taken' = (IF taken = None THEN {} ELSE taken)
      /\ UNCHANGED << result, lock, report, shown, saved, due, excused, again, uneven >>
  BY DEF Survey!CreateTaken, Survey!history
<1>2. SurveyTypes /\ Marked \subseteq again /\ "mlock" \in SurveyPlaces /\ In(taken)' = In(taken) /\ pc[u] \in Marking
  BY <1>1 DEF SurveyInv, MarksIn, SurveyPlaces, Marking, In
<1>3. ~uneven => again = {} /\ u \in Repliers
  BY <1>2 DEF SurveyInv, AllCounted
<1>4. Steps(u) /\ pc'[u] = "mlock"
  BY <1>1, <1>2, SurveyMoves
<1>5. SurveyTypes'
  BY <1>1, <1>2, <1>4 DEF Steps, SurveyTypes
<1>6. SurveyRests(u) /\ QuietMark(u) /\ QuietEven(u) /\ RepliesIn(u)'
  BY <1>1, <1>2, <1>3, <1>4, <1>5 DEF SurveyRests, QuietMark, QuietEven, In, Marking, InReply, RepliesIn
<1> QED BY <1>6, QuietKeeps

LEMMA LockTakenKeeps == ASSUME NoneIsNoFile, SurveyInv, NEW u \in Users, Survey!LockTaken(u) PROVE SurveyInv'
<1>1. pc[u] = "mlock" /\ UNCHANGED << result, taken, report, shown, saved, due, excused >>
  BY DEF Survey!LockTaken
<1>2. /\ SurveyTypes /\ Marked \subseteq again /\ pc[u] \in Marking
      /\ "idle" \in SurveyPlaces /\ "mwrite" \in SurveyPlaces /\ "taken" \in {"result", "taken"}
  BY <1>1 DEF SurveyInv, MarksIn, SurveyPlaces, Marking
<1>3. ~uneven => again = {} /\ u \in Repliers
  BY <1>2 DEF SurveyInv, AllCounted
<1>4. CASE /\ Survey!Take(u, "taken") /\ Survey!Goto(u, "mwrite", [buf |-> {}]) /\ UNCHANGED << again, uneven >>
  <2>1. Steps(u) /\ pc'[u] = "mwrite" /\ job'[u].buf = {}
    BY <1>2, <1>4, SurveyGoes
  <2>2. /\ lock' \in [{"result", "taken"} -> Users \cup {Nobody}] /\ lock'["taken"] = u
        /\ \A g \in {"result", "taken"}, v \in Users : lock[g] = v => lock'[g] = v
    BY <1>2, <1>4, Locks
  <2>3. SurveyTypes'
    BY <1>1, <1>2, <1>4, <2>1, <2>2 DEF Steps, SurveyTypes
  <2>4. SurveyRests(u) /\ RepliesIn(u)'
    BY <1>1, <1>2, <1>4, <2>1, <2>2, <2>3 DEF SurveyRests, In, Marking, InReply, RepliesIn
  <2>5. QuietMark(u) /\ QuietEven(u)
    BY <1>1, <1>2, <1>3, <1>4, <2>1, <2>2 DEF QuietMark, QuietEven, InReply
  <2> QED BY <2>4, <2>5, QuietKeeps
<1>5. CASE /\ Survey!Goto(u, "idle", Survey!NoJob) /\ again' = again \cup {u} /\ uneven' = TRUE /\ UNCHANGED lock
  <2>1. Steps(u) /\ pc'[u] = "idle"
    BY <1>2, <1>5, SurveyGoes
  <2>2. SurveyTypes'
    BY <1>1, <1>2, <1>5, <2>1 DEF Steps, SurveyTypes
  <2>3. SurveyRests(u) /\ QuietMark(u) /\ QuietEven(u) /\ RepliesIn(u)'
    BY <1>1, <1>2, <1>5, <2>1, <2>2 DEF SurveyRests, QuietMark, QuietEven, In, Marking, InReply, RepliesIn
  <2> QED BY <2>3, QuietKeeps
<1> QED BY <1>4, <1>5 DEF Survey!LockTaken

LEMMA MarkFailsKeeps == ASSUME SurveyInv, NEW u \in Users, Survey!MarkFails(u) PROVE SurveyInv'
<1>1. /\ Survey!Goto(u, "idle", Survey!NoJob) /\ again' = again \cup {u} /\ uneven' = TRUE
      /\ UNCHANGED << result, taken, lock, report, shown, saved, due, excused >>
  BY DEF Survey!MarkFails, Survey!files
<1>2. SurveyTypes /\ "idle" \in SurveyPlaces
  BY DEF SurveyInv, SurveyPlaces
<1>3. Steps(u) /\ pc'[u] = "idle"
  BY <1>1, <1>2, SurveyGoes
<1>4. SurveyTypes'
  BY <1>1, <1>2, <1>3 DEF Steps, SurveyTypes
<1>5. SurveyRests(u) /\ QuietMark(u) /\ QuietEven(u) /\ RepliesIn(u)'
  BY <1>1, <1>3, <1>4 DEF SurveyRests, QuietMark, QuietEven, In, Marking, InReply, RepliesIn
<1> QED BY <1>5, QuietKeeps

LEMMA LeaveSurveyKeeps == ASSUME SurveyInv, NEW u \in Users, Survey!Leave(u) PROVE SurveyInv'
<1>1. /\ Survey!Goto(u, "idle", Survey!NoJob)
      /\ lock' = [f \in DOMAIN lock |-> IF lock[f] = u THEN Nobody ELSE lock[f]]
      /\ again' = again \cup (IF pc[u] \in Marking THEN {u} ELSE {})
      /\ uneven' = (uneven \/ pc[u] \in Marking)
      /\ UNCHANGED << result, taken, report, shown, saved, due, excused >>
  BY DEF Survey!Leave, Marking
<1>2. SurveyTypes /\ "idle" \in SurveyPlaces
  BY DEF SurveyInv, SurveyPlaces
<1>3. Steps(u) /\ pc'[u] = "idle"
  BY <1>1, <1>2, SurveyGoes
<1>4. /\ lock' \in [{"result", "taken"} -> Users \cup {Nobody}]
      /\ \A f \in {"result", "taken"}, v \in Users \ {u} : lock[f] = v => lock'[f] = v
  BY <1>1, <1>2 DEF SurveyTypes
<1>5. SurveyTypes'
  <2>1. again' \subseteq Users /\ uneven' \in BOOLEAN
    BY <1>1, <1>2 DEF SurveyTypes
  <2> QED BY <1>1, <1>2, <1>3, <1>4, <2>1 DEF Steps, SurveyTypes
<1>6. SurveyRests(u)
  BY <1>1, <1>3, <1>4, <1>5 DEF SurveyRests, In
<1>7. QuietMark(u) /\ RepliesIn(u)'
  BY <1>3 DEF QuietMark, InReply, RepliesIn
<1>8. QuietEven(u)
  BY <1>1, <1>3 DEF QuietEven, SurveyInv, AllCounted, Marking
<1> QED BY <1>6, <1>7, <1>8, QuietKeeps

(* Who has replied is in the file.                                         *)
LEMMA WriteTakenKeeps == ASSUME NoneIsNoFile, SurveyInv, NEW u \in Users, Survey!WriteTaken(u) PROVE SurveyInv'
<1> DEFINE b == job[u].buf
           B == Survey!Begins("taken")
<1>1. /\ pc[u] = "mwrite" /\ taken' = b \cup {u} /\ Survey!Release("taken")
      /\ again' = again \cup (IF B = {} THEN {} ELSE taken') /\ uneven' = (uneven \/ B # {})
      /\ Survey!Goto(u, "idle", Survey!NoJob) /\ UNCHANGED << result, report, shown, saved, due, excused >>
  BY DEF Survey!WriteTaken
<1>2. /\ SurveyTypes /\ "idle" \in SurveyPlaces /\ "taken" \in {"result", "taken"} /\ pc[u] \in Marking
      /\ lock["taken"] = u /\ b \subseteq Users /\ Marked \ again \subseteq b /\ Repliers \subseteq Users
  BY <1>1, RepliersAre DEF SurveyInv, SurveyPlaces, Marking, MarksIn
<1>3. Steps(u) /\ pc'[u] = "idle"
  BY <1>1, <1>2, SurveyGoes
<1>4. /\ lock' \in [{"result", "taken"} -> Users \cup {Nobody}]
      /\ \A g \in {"result", "taken"}, v \in Users \ {u} : lock[g] = v => lock'[g] = v
  BY <1>1, <1>2, Locks
<1> HIDE DEF b, B
<1>5. taken' \subseteq Users /\ In(taken)' = taken'
  BY <1>1, <1>2 DEF NoneIsNoFile, In
<1>6. SurveyTypes'
  <2>1. again' \subseteq Users /\ uneven' \in BOOLEAN
    BY <1>1, <1>2, <1>5 DEF SurveyTypes
  <2> QED BY <1>1, <1>2, <1>3, <1>4, <1>5, <2>1 DEF SurveyTypes, Steps
<1>7. RepliesSafe' /\ ReportSafe'
  BY <1>1 DEF RepliesSafe, ReportSafe, SurveyInv, In
<1>8. Repliers' = Repliers /\ Marked' \subseteq Marked \cup {u}
  <2>1. Repliers' = Repliers
    BY <1>1 DEF Repliers
  <2>2. ASSUME NEW v \in Marked', v # u PROVE v \in Marked
    BY <1>2, <1>3, <2>1, <2>2 DEF Steps, Marked
  <2> QED BY <2>1, <2>2
<1>9. MarksSafe'
  <2>1. Marked' \ again' \subseteq In(taken)'
    BY <1>1, <1>2, <1>5, <1>8
  <2>2. \A x, y \in saved' : x.user = y.user /\ x # y => x.user \in again'
    BY <1>1 DEF SurveyInv, MarksSafe
  <2> QED BY <2>1, <2>2 DEF MarksSafe
<1>10. RepliesIn(u)' /\ MarksIn(u)'
  BY <1>3 DEF RepliesIn, MarksIn, InReply
<1>11. ASSUME NEW v \in Users \ {u} PROVE RepliesIn(v)' /\ MarksIn(v)'
  <2>1. pc'[v] = pc[v] /\ job'[v] = job[v] /\ RepliesIn(v) /\ MarksIn(v) /\ (lock["result"] = v => lock'["result"] = v)
    BY <1>3, <1>4 DEF Steps, SurveyInv
  <2>2. pc[v] # "mwrite"
    BY <1>2, <2>1 DEF MarksIn
  <2>3. pc[v] \in {"mcreate", "mlock"} => Marked' \subseteq again'
    <3>1. pc[v] \in {"mcreate", "mlock"} => v \in B
      BY DEF B, Survey!Begins
    <3> QED BY <1>1, <1>8, <2>1, <3>1 DEF MarksIn
  <2>4. RepliesIn(v)'
    BY <1>1, <2>1 DEF RepliesIn
  <2>5. MarksIn(v)'
    BY <1>1, <1>8, <2>1, <2>2, <2>3 DEF MarksIn
  <2> QED BY <2>4, <2>5
<1>12. ASSUME ~uneven' PROVE AllCounted'
  <2>1. AllCounted /\ again' = again
    BY <1>1, <1>12 DEF SurveyInv
  <2>2. b \subseteq Repliers /\ u \in Repliers
    BY <1>1, <1>2, <2>1 DEF AllCounted, b
  <2>3. ASSUME NEW v \in Users
        PROVE  (pc'[v] \in Marking => v \in Repliers') /\ (pc'[v] = "mwrite" => job'[v].buf \subseteq Repliers')
    BY <1>3, <1>8, <2>1, <2>2 DEF AllCounted, Steps
  <2> QED BY <1>1, <1>5, <1>8, <2>1, <2>2, <2>3 DEF AllCounted
<1> QED BY <1>6, <1>7, <1>9, <1>10, <1>11, <1>12 DEF SurveyInv

-----------------------------------------------------------------------------
(* survreport.                                                             *)
LEMMA SizeOf == ASSUME NEW S PROVE Survey!Cardinality(S) = Cardinality(S)
BY DEF Cardinality, Survey!Cardinality

(* There are as many replies as users who replied, if none replied twice.  *)
LEMMA OneReplyEach ==
  ASSUME SurveyTypes, \A x, y \in saved : x.user = y.user => x = y
  PROVE  Cardinality(Repliers) = Cardinality(saved)
<1> DEFINE f == [x \in saved |-> x.user]
<1>1. f \in [saved -> Repliers] /\ \A x, y \in saved : f[x] = f[y] => x = y
  BY DEF Repliers
<1>2. \A v \in Repliers : \E x \in saved : f[x] = v
  BY DEF Repliers
<1> HIDE DEF f
<1>3. f \in Bijection(saved, Repliers)
  BY <1>1, <1>2 DEF Bijection, Injection, IsInjective, Surjection
<1> QED BY <1>3, FS_Bijection DEF ExistsBijection, SurveyTypes

LEMMA ReportKeeps == ASSUME SurveyInv, Survey!Report PROVE SurveyInv'
<1>1. /\ report.pc = "idle" /\ due' = saved
      /\ UNCHANGED << result, taken, lock, pc, job, shown, saved, again, uneven >>
  BY DEF Survey!Report, Survey!files, Survey!session
<1>2. /\ SurveyTypes /\ report.replies = {} /\ saved \ excused \subseteq In(result) /\ In(result) \subseteq saved
      /\ report \in [pc : {"idle", "compare", "posted"}, replies : SUBSET Replies, warned : BOOLEAN]
      /\ (report.warned => uneven) /\ (~uneven => excused = {})
  BY <1>1 DEF SurveyInv, ReportSafe, RepliesSafe, AllCounted
<1>3. /\ excused \subseteq excused' /\ report'.warned = report.warned
      /\ report' \in [pc : {"compare", "posted"}, replies : SUBSET Replies, warned : BOOLEAN]
      /\ due' \ excused' \subseteq report'.replies
      /\ report'.pc = "compare" => excused' = excused /\ report'.replies = result /\ result # None
  <2>1. CASE result # None /\ report' = [report EXCEPT !.pc = "compare", !.replies = result] /\ UNCHANGED excused
    BY <1>1, <1>2, <2>1 DEF SurveyTypes, In
  <2>2. CASE result = None /\ report' = [report EXCEPT !.pc = "posted"] /\ UNCHANGED excused
    BY <1>1, <1>2, <2>2 DEF In
  <2>3. CASE report' = [report EXCEPT !.pc = "posted"] /\ excused' = excused \cup saved
    BY <1>1, <1>2, <2>3
  <2> QED BY <2>1, <2>2, <2>3 DEF Survey!Report
<1>4. SurveyTypes' /\ RepliesSafe' /\ MarksSafe'
  BY <1>1, <1>2, <1>3 DEF SurveyInv, SurveyTypes, RepliesSafe, MarksSafe, Marked, Repliers, In
<1>5. ReportSafe'
  BY <1>1, <1>2, <1>3 DEF ReportSafe
<1>6. ASSUME NEW v \in Users PROVE RepliesIn(v)' /\ MarksIn(v)'
  <2>1. RepliesIn(v) /\ MarksIn(v)
    BY DEF SurveyInv
  <2>2. RepliesIn(v)'
    BY <1>1, <1>3, <2>1 DEF RepliesIn
  <2>3. MarksIn(v)'
    BY <1>1, <2>1 DEF MarksIn, Marked, Repliers
  <2> QED BY <2>2, <2>3
<1>7. ASSUME ~uneven' PROVE AllCounted'
  <2>1. AllCounted /\ excused = {}
    BY <1>1, <1>2, <1>7 DEF SurveyInv
  <2>2. report'.pc = "compare" => report'.replies = due' /\ excused' = {}
    BY <1>1, <1>2, <1>3, <2>1 DEF In
  <2>3. report'.pc # "posted" => excused' = {}
    BY <1>3, <2>2
  <2> QED BY <1>1, <2>1, <2>2, <2>3 DEF AllCounted, Repliers, In
<1> QED BY <1>4, <1>5, <1>6, <1>7 DEF SurveyInv

LEMMA CompareKeeps == ASSUME SurveyInv, Survey!Compare PROVE SurveyInv'
<1> DEFINE n == IF taken # None /\ Survey!Free("taken") THEN Survey!Cardinality(taken) ELSE 0
           w == n # Survey!Cardinality(report.replies)
<1>1. /\ report.pc = "compare" /\ report' = [report EXCEPT !.pc = "posted", !.warned = w]
      /\ uneven' = (uneven \/ ~Survey!Free("taken") \/ \E u \in Users : pc[u] # "idle" \/ saved # due)
      /\ UNCHANGED << result, taken, lock, pc, job, shown, saved, due, excused, again >>
  BY DEF Survey!Compare, Survey!files, Survey!session
<1>2. /\ SurveyTypes /\ due \ excused \subseteq report.replies
      /\ report \in [pc : {"idle", "compare", "posted"}, replies : SUBSET Replies, warned : BOOLEAN]
  BY <1>1 DEF SurveyInv, ReportSafe
<1>3. w \in BOOLEAN /\ uneven' \in BOOLEAN
  BY <1>1, <1>2 DEF SurveyTypes
<1>4. ASSUME ~uneven' PROVE w = FALSE
  <2>1. ~uneven /\ Survey!Free("taken") /\ (\A u \in Users : pc[u] = "idle") /\ (Users # {} => saved = due)
    BY <1>1, <1>4
  <2>2. AllCounted /\ Repliers \subseteq Users
    BY <1>2, <2>1, RepliersAre DEF SurveyInv
  <2>3. saved = report.replies
    <3>1. CASE Users = {}
      <4>1. saved = {} /\ report.replies = {}
        BY <1>2, <3>1 DEF SurveyTypes, Replies
      <4> QED BY <4>1
    <3>2. CASE Users # {}
      BY <1>1, <2>1, <2>2, <3>2 DEF AllCounted
    <3> QED BY <3>1, <3>2
  <2>4. Marked = Repliers
    BY <2>1, <2>2 DEF Marked, Marking
  <2>5. In(taken) = Repliers /\ \A x, y \in saved : x.user = y.user => x = y
    BY <2>2, <2>4 DEF AllCounted, SurveyInv, MarksSafe
  <2>6. Cardinality(Repliers) = Cardinality(saved)
    BY <1>2, <2>5, OneReplyEach
  <2>7. n = Cardinality(In(taken))
    <3>1. CASE taken = None
      BY <3>1, FS_EmptySet DEF In
    <3>2. CASE taken # None
      BY <2>1, <3>2, SizeOf DEF In
    <3> QED BY <3>1, <3>2
  <2> HIDE DEF n
  <2>8. n = Survey!Cardinality(report.replies)
    BY <2>3, <2>5, <2>6, <2>7, SizeOf
  <2> QED BY <2>8
<1> HIDE DEF w
<1>5. report'.pc = "posted" /\ report'.replies = report.replies /\ report'.warned = w
      /\ report' \in [pc : {"idle", "compare", "posted"}, replies : SUBSET Replies, warned : BOOLEAN]
  BY <1>1, <1>2, <1>3
<1>6. SurveyTypes' /\ RepliesSafe' /\ MarksSafe'
  BY <1>1, <1>2, <1>3 DEF SurveyInv, SurveyTypes, RepliesSafe, MarksSafe, Marked, Repliers, In
<1>7. ReportSafe'
  BY <1>1, <1>2, <1>3, <1>4, <1>5 DEF ReportSafe
<1>8. ASSUME NEW v \in Users PROVE RepliesIn(v)' /\ MarksIn(v)'
  BY <1>1 DEF SurveyInv, RepliesIn, MarksIn, Marked, Repliers
<1>9. ASSUME ~uneven' PROVE AllCounted'
  <2>1. AllCounted
    BY <1>1, <1>9 DEF SurveyInv
  <2> QED BY <1>1, <1>5, <2>1 DEF AllCounted, Repliers, In
<1> QED BY <1>6, <1>7, <1>8, <1>9 DEF SurveyInv

LEMMA NothingSurveyed ==
  ASSUME SurveyInv, UNCHANGED << result, taken, lock, pc, job, report, shown, saved, due, excused, again, uneven >>
  PROVE  SurveyInv'
<1>1. SurveyTypes' /\ RepliesSafe' /\ MarksSafe' /\ ReportSafe'
  BY DEF SurveyInv, SurveyTypes, RepliesSafe, MarksSafe, ReportSafe, Marked, Repliers, In
<1>2. \A v \in Users : RepliesIn(v)' /\ MarksIn(v)'
  BY DEF SurveyInv, RepliesIn, MarksIn, Marked, Repliers
<1>3. ~uneven' => AllCounted'
  BY DEF SurveyInv, AllCounted, Repliers, In
<1> QED BY <1>1, <1>2, <1>3 DEF SurveyInv

LEMMA SurveyBegins == ASSUME NoneIsNoFile, Survey!Init PROVE SurveyInv
<1>1. /\ result = None /\ taken = None /\ lock = [f \in {"result", "taken"} |-> Nobody]
      /\ pc = [u \in Users |-> "idle"] /\ job = [u \in Users |-> Survey!NoJob]
      /\ report = [pc |-> "idle", replies |-> {}, warned |-> FALSE]
      /\ shown = 0 /\ saved = {} /\ due = {} /\ excused = {} /\ again = {} /\ uneven = FALSE
  BY DEF Survey!Init, Survey!NoReport
<1>2. SurveyTypes
  <2>1. job \in [Users -> {Survey!NoJob}] /\ IsFiniteSet(saved)
    BY <1>1, FS_EmptySet
  <2> QED BY <1>1, <2>1 DEF SurveyTypes, SurveyPlaces
<1>3. Repliers = {} /\ Marked = {} /\ In(result) = {} /\ In(taken) = {}
  BY <1>1 DEF Repliers, Marked, In
<1>4. \A v \in Users : RepliesIn(v) /\ MarksIn(v) /\ pc[v] \notin Marking
  BY <1>1 DEF RepliesIn, MarksIn, InReply, Marking
<1>5. AllCounted
  BY <1>1, <1>3, <1>4 DEF AllCounted, Marking
<1> QED BY <1>1, <1>2, <1>3, <1>4, <1>5 DEF SurveyInv, RepliesSafe, MarksSafe, ReportSafe

LEMMA SurveyStays == ASSUME NoneIsNoFile, SurveyInv, [Survey!Next]_(Survey!vars) PROVE SurveyInv'
<1>1. CASE UNCHANGED Survey!vars
  BY <1>1, NothingSurveyed DEF Survey!vars, Survey!files, Survey!session, Survey!history
<1>2. CASE Survey!TimeOver
  BY <1>2, NothingSurveyed DEF Survey!TimeOver, Survey!files, Survey!session, Survey!history
<1>3. CASE Survey!Report \/ Survey!Compare
  BY <1>3, ReportKeeps, CompareKeeps
<1>4. ASSUME NEW u \in Users,
             \/ Survey!Show(u) \/ Survey!Refuse(u) \/ Survey!Save(u) \/ Survey!OpenResult(u)
             \/ Survey!CreateResult(u) \/ Survey!LockResult(u) \/ Survey!WriteResult(u) \/ Survey!WriteFails(u)
             \/ Survey!OpenTaken(u) \/ Survey!CreateTaken(u) \/ Survey!LockTaken(u)
             \/ Survey!WriteTaken(u) \/ Survey!MarkFails(u) \/ Survey!Leave(u)
      PROVE  SurveyInv'
  <2>1. CASE \/ Survey!Show(u) \/ Survey!Refuse(u) \/ Survey!Save(u) \/ Survey!OpenResult(u)
             \/ Survey!CreateResult(u) \/ Survey!LockResult(u) \/ Survey!WriteResult(u) \/ Survey!WriteFails(u)
    BY <2>1, ShowKeeps, RefuseKeeps, SaveReplyKeeps, OpenResultKeeps, CreateResultKeeps, LockResultKeeps,
       WriteResultKeeps, WriteFailsKeeps
  <2>2. CASE \/ Survey!OpenTaken(u) \/ Survey!CreateTaken(u) \/ Survey!LockTaken(u)
             \/ Survey!WriteTaken(u) \/ Survey!MarkFails(u) \/ Survey!Leave(u)
    BY <2>2, OpenTakenKeeps, CreateTakenKeeps, LockTakenKeeps, WriteTakenKeeps, MarkFailsKeeps, LeaveSurveyKeeps
  <2> QED BY <1>4, <2>1, <2>2
<1> QED BY <1>1, <1>2, <1>3, <1>4 DEF Survey!Next

(* Survey!RepliesKept: a reply that was saved stays and is reported, none  *)
(* counts twice, and the report finds as many users as replies, but where  *)
(* the model says what went wrong (save_survey_result,                     *)
(* mark_survey_as_taken, show_survey_result).                              *)
THEOREM RepliesStay == ASSUME NoneIsNoFile PROVE Survey!Spec => []Survey!RepliesKept
<1>1. Survey!Init => SurveyInv
  BY SurveyBegins
<1>2. SurveyInv /\ [Survey!Next]_(Survey!vars) => SurveyInv'
  BY SurveyStays
<1>3. SurveyInv => Survey!RepliesKept
  <2> SUFFICES ASSUME SurveyInv PROVE Survey!RepliesKept
    OBVIOUS
  <2>1. \A r \in saved \ excused : result # None /\ r \in result
    BY DEF SurveyInv, RepliesSafe, In
  <2>2. result # None => \A r, s \in result : r.user = s.user /\ r # s => r.user \in again
    BY DEF SurveyInv, RepliesSafe, MarksSafe, In
  <2>3. report.pc = "posted" => due \ excused \subseteq report.replies
    BY DEF SurveyInv, ReportSafe
  <2>4. report.warned => uneven
    BY DEF SurveyInv, ReportSafe
  <2> QED BY <2>1, <2>2, <2>3, <2>4 DEF Survey!RepliesKept
<1> QED BY <1>1, <1>2, <1>3, PTL DEF Survey!Spec
=============================================================================
