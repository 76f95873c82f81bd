--------------------------- MODULE SessionsProofs ---------------------------
(***************************************************************************)
(* For every number of processes and users, whoever hangs up, is killed or *)
(* waits too long: a process writes ACTIVE_FILE only while it has it       *)
(* locked and as it has read it, so that the list changes by one entry at  *)
(* a time.                                                                 *)
(***************************************************************************)
EXTENDS Sessions, SequenceTheorems, FiniteSetTheorems, WellFoundedInduction, TLAPS

(* What a process that changes the list has read is still the list.        *)
Current == \A p \in Procs : pc[p] \in Changing => buf[p] = active

(* The question names a process.                                           *)
Asked == \A p \in Procs : pc[p] = "ask" => other[p] \in Procs

(* The inductive invariant.                                                *)
IInv == TypeOK /\ Current /\ Asked

-----------------------------------------------------------------------------
(* remove_active's loop: the entry it stops at is one of the user's.       *)
LEMMA FirstIsAnEntry ==
  ASSUME NEW s \in Seq(Entry), NEW u \in Users, Entries(s, u) # {}
  PROVE  First(s, u) \in Entries(s, u)
<1>1. Entries(s, u) \in SUBSET Nat
  BY DEF Entries
<1>2. \E Less : IsWellFoundedOn(Less, Nat) /\ \A i, j \in Nat : <<i, j>> \in Less <=> i < j
  <2>1. \A i, j \in Nat : <<i, j>> \in OpToRel(<, Nat) <=> i < j
    BY DEF OpToRel
  <2> QED BY <2>1, NatLessThanWellFounded
<1>3. PICK Less : IsWellFoundedOn(Less, Nat) /\ \A i, j \in Nat : <<i, j>> \in Less <=> i < j
  BY <1>2
<1>4. PICK i \in Entries(s, u) : \A j \in Entries(s, u) : <<j, i>> \notin Less
  BY <1>1, <1>3, WFMin
<1>5. ASSUME NEW j \in Entries(s, u)
      PROVE  i <= j
  <2>1. i \in Nat /\ j \in Nat
    BY <1>1
  <2>2. ~(j < i)
    BY <2>1, <1>3, <1>4
  <2> QED BY <2>1, <2>2
<1> QED BY <1>4, <1>5 DEF First

(* Taking an entry out leaves a list of entries.                           *)
LEMMA RemoveAtType ==
  ASSUME NEW s \in Seq(Entry), NEW i \in DOMAIN s
  PROVE  RemoveAt(s, i) \in Seq(Entry)
<1>1. Len(s) \in Nat /\ i \in 1 .. Len(s)
  BY LenProperties
<1>2. SubSeq(s, 1, i - 1) \in Seq(Entry)
  BY <1>1, SubSeqProperties, ElementOfSeq
<1>3. SubSeq(s, i + 1, Len(s)) \in Seq(Entry)
  BY <1>1, SubSeqProperties, ElementOfSeq
<1> QED BY <1>2, <1>3, ConcatProperties DEF RemoveAt

LEMMA WithoutFirstType ==
  ASSUME NEW s \in Seq(Entry), NEW u \in Users
  PROVE  WithoutFirst(s, u) \in Seq(Entry)
<1>1. CASE Entries(s, u) = {}
  BY <1>1 DEF WithoutFirst
<1>2. CASE Entries(s, u) # {}
  BY <1>2, FirstIsAnEntry, RemoveAtType DEF WithoutFirst, Entries
<1> QED BY <1>1, <1>2

(* What is written back is a list of entries.                              *)
LEMMA ChangedType ==
  ASSUME TypeOK, NEW p \in Procs
  PROVE  Changed(p) \in Seq(Entry)
<1>1. buf[p] \in Seq(Entry) /\ uid[p] \in Users
  BY DEF TypeOK
<1>2. [user |-> uid[p], pid |-> p] \in Entry
  BY <1>1 DEF Entry
<1>3. Append(buf[p], [user |-> uid[p], pid |-> p]) \in Seq(Entry)
  BY <1>1, <1>2, AppendProperties
<1> QED BY <1>1, <1>3, WithoutFirstType DEF Changed

-----------------------------------------------------------------------------
(* A process goes on without the file.                                     *)
LEMMA GoesOn ==
  ASSUME IInv, NEW p \in Procs, NEW k, NEW l \in Labels \ Changing, k \notin Changing,
         l # "ask" \/ other'[p] \in Procs,
         Go(p, k, l),
         UNCHANGED << active, holder, buf >>,
         told' \in Procs \cup {None}, quit' \in SUBSET Procs,
         uid' \in [Procs -> Users], again' \in [Procs -> BOOLEAN],
         rest' \in [Procs -> Seq(Entry)], other' \in [Procs -> Procs \cup {None}],
         \A q \in Procs \ {p} : other'[q] = other[q]
  PROVE  IInv'
<1>1. pc \in [Procs -> Labels] /\ pc' \in [Procs -> Labels] /\ pc[p] \notin Changing
  BY DEF IInv, TypeOK, Go
<1>2. \A q \in Procs : pc'[q] \in Changing <=> pc[q] \in Changing
  BY <1>1 DEF Go
<1>3. TypeOK'
  BY <1>1, <1>2 DEF IInv, TypeOK
<1>4. Current'
  BY <1>2 DEF IInv, Current
<1>5. Asked'
  BY <1>1 DEF IInv, Asked, Go
<1> QED BY <1>3, <1>4, <1>5 DEF IInv

(* A process, or nobody, ends, while another one may go on.                *)
LEMMA Ends ==
  ASSUME IInv, NEW p \in Procs, NEW q \in Procs \cup {None}, NEW l \in Labels \ Changing,
         pc[p] \notin Changing, l # "ask",
         pc' = [pc EXCEPT ![p] = IF q = p THEN "dead" ELSE l, ![q] = "dead"],
         Ended(q),
         UNCHANGED << active, local >>, told' \in Procs \cup {None}
  PROVE  IInv'
<1>1. /\ TypeOK /\ Current /\ UNCHANGED << uid, again, rest, buf, other >>
      /\ None \notin Procs
  BY ProcsAssumption DEF IInv, local
<1>2. "dead" \in Labels \ Changing
  BY DEF Labels, Outside, Changing
<1>3. pc \in [Procs -> Labels] /\ pc' \in [Procs -> Labels]
  BY <1>1, <1>2 DEF TypeOK
<1>4. \A r \in Procs : pc'[r] = IF r = q THEN "dead" ELSE IF r = p THEN l ELSE pc[r]
  BY <1>1, <1>3
<1>5. quit' \in SUBSET Procs /\ holder' \in Procs \cup {None}
  BY <1>1 DEF Ended, TypeOK
<1>6. \A r \in Procs : pc'[r] \in Changing <=> holder' = r
  BY <1>1, <1>2, <1>4 DEF Ended, TypeOK
<1>7. TypeOK'
  BY <1>1, <1>3, <1>5, <1>6 DEF TypeOK
<1>8. Current'
  BY <1>1, <1>2, <1>4 DEF Current
<1>9. Asked'
  BY <1>1, <1>4 DEF IInv, Asked
<1> QED BY <1>7, <1>8, <1>9 DEF IInv

(* open_file gives the file to one process only.                           *)
LEMMA OpenKeeps ==
  ASSUME IInv, NEW p \in Procs, Open(p)
  PROVE  IInv'
<1>1. /\ TypeOK /\ Current /\ pc[p] \in Waiting /\ holder = None /\ None \notin Procs
      /\ holder' = p /\ buf' = [buf EXCEPT ![p] = active] /\ pc' = [pc EXCEPT ![p] = Opened[@]]
      /\ UNCHANGED << active, told, quit, uid, again, rest, other >>
  BY ProcsAssumption DEF IInv, Open, Free
<1>2. Opened[pc[p]] \in Changing /\ Changing \subseteq Labels
  BY <1>1 DEF Waiting, Opened, Changing, Labels, Login, Leaving
<1>3. pc \in [Procs -> Labels] /\ pc' \in [Procs -> Labels]
  BY <1>1, <1>2 DEF TypeOK
<1>4. \A q \in Procs : pc'[q] \in Changing <=> q = p
  BY <1>1, <1>2, <1>3 DEF TypeOK
<1>5. buf' \in [Procs -> Seq(Entry)] /\ buf'[p] = active
  BY <1>1 DEF TypeOK
<1>6. TypeOK'
  BY <1>1, <1>3, <1>4, <1>5 DEF TypeOK
<1>7. Current'
  BY <1>1, <1>4, <1>5 DEF Current
<1>8. Asked'
  BY <1>1, <1>3, <1>4 DEF IInv, Asked, Changing
<1> QED BY <1>6, <1>7, <1>8 DEF IInv

(* Nobody else has read the list that a process changes.                   *)
LEMMA WriteKeeps ==
  ASSUME IInv, NEW p \in Procs, Write(p)
  PROVE  IInv'
<1>1. /\ TypeOK /\ Current /\ pc[p] \in Changing /\ holder = p /\ None \notin Procs
      /\ holder' = None /\ buf' = [buf EXCEPT ![p] = <<>>] /\ pc' = [pc EXCEPT ![p] = Closed[@]]
      /\ active' = Changed(p)
      /\ UNCHANGED << told, quit, uid, again, rest, other >>
  BY ProcsAssumption DEF IInv, Write, TypeOK
<1>2. Closed[pc[p]] \in Labels \ Changing /\ Closed[pc[p]] # "ask"
  BY <1>1 DEF Closed, Changing, Labels, Login, Leaving
<1>3. pc \in [Procs -> Labels] /\ pc' \in [Procs -> Labels]
  BY <1>1, <1>2 DEF TypeOK
<1>4. \A q \in Procs : pc'[q] \notin Changing
  BY <1>1, <1>2, <1>3 DEF TypeOK
<1>5. active' \in Seq(Entry)
  BY <1>1, ChangedType
<1>6. buf' \in [Procs -> Seq(Entry)]
  BY <1>1 DEF TypeOK
<1>7. TypeOK'
  BY <1>1, <1>3, <1>4, <1>5, <1>6 DEF TypeOK
<1>8. Current'
  BY <1>4 DEF Current
<1>9. Asked'
  BY <1>1, <1>2, <1>3 DEF IInv, Asked
<1> QED BY <1>7, <1>8, <1>9 DEF IInv

-----------------------------------------------------------------------------
LEMMA InitHolds == Init => IInv
<1> SUFFICES ASSUME Init PROVE IInv
  OBVIOUS
<1>1. \A p \in Procs : pc[p] \notin Changing
  BY DEF Init, Changing
<1>2. TypeOK
  BY <1>1, ProcsAssumption DEF Init, TypeOK, Labels, Outside
<1>3. Current /\ Asked
  BY <1>1 DEF Init, Current, Asked
<1> QED BY <1>2, <1>3 DEF IInv

(* add_active up to the question.                                          *)
LEMMA LoginKeeps ==
  ASSUME IInv, NEW p \in Procs,
         \/ Start(p) \/ Again(p) \/ Purge(p) \/ PurgeEnd(p) \/ Found(p) \/ NotFound(p)
  PROVE  IInv'
<1>0. TypeOK /\ UserOf \in [Procs -> Users]
  BY ProcsAssumption DEF IInv
<1>1. \A l \in {"out", "purge", "clean", "check", "ask", "add", "reset"} : l \in Labels \ Changing
  BY DEF Labels, Outside, Login, Leaving, Changing
<1>2. ASSUME BeginLogin(p), NEW k \in {"out", "reset"}, Go(p, k, "purge")
      PROVE  IInv'
  <2>1. rest' \in [Procs -> Seq(Entry)] /\ uid' \in [Procs -> Users] /\ again' \in [Procs -> BOOLEAN]
    BY <1>0, <1>2 DEF BeginLogin, TypeOK
  <2>2. k \notin Changing /\ "purge" \in Labels \ Changing
    BY <1>1, <1>2
  <2>3. UNCHANGED << active, holder, told, quit, buf, other >>
    BY <1>2 DEF BeginLogin, file
  <2> QED BY <1>0, <1>2, <2>1, <2>2, <2>3, GoesOn DEF TypeOK
<1>3. CASE Purge(p)
  <2>1. rest[p] \in Seq(Entry) /\ rest[p] # <<>>
    BY <1>0, <1>3 DEF Purge, TypeOK
  <2>2. Tail(rest[p]) \in Seq(Entry) /\ Head(rest[p]) \in Entry
    BY <2>1, HeadTailProperties
  <2>3. Head(rest[p]).user \in Users
    BY <2>2 DEF Entry
  <2>4. rest' \in [Procs -> Seq(Entry)] /\ uid' \in [Procs -> Users]
    BY <1>0, <1>3, <2>2, <2>3 DEF Purge, TypeOK
  <2>5. PICK l \in {"purge", "clean"} : Go(p, "purge", l)
    BY <1>3 DEF Purge, Go
  <2>6. UNCHANGED << active, holder, told, quit, again, buf, other >>
    BY <1>3 DEF Purge, file
  <2>7. l \in Labels \ Changing /\ l # "ask" /\ "purge" \notin Changing
    BY <1>1
  <2> QED BY <1>0, <2>4, <2>5, <2>6, <2>7, GoesOn DEF TypeOK
<1>4. CASE PurgeEnd(p)
  <2>1. uid' \in [Procs -> Users]
    BY <1>0, <1>4 DEF PurgeEnd, TypeOK
  <2> QED BY <1>0, <1>1, <1>4, <2>1, GoesOn DEF PurgeEnd, file, TypeOK
<1>5. CASE Found(p)
  <2>1. active \in Seq(Entry) /\ uid[p] \in Users
    BY <1>0 DEF TypeOK
  <2>2. First(active, uid[p]) \in DOMAIN active
    BY <1>5, <2>1, FirstIsAnEntry DEF Found, Entries
  <2>3. active[First(active, uid[p])] \in Entry
    BY <2>1, <2>2
  <2>4. other' \in [Procs -> Procs \cup {None}]
    BY <1>0, <1>5, <2>3 DEF Found, TypeOK, Entry
  <2>5. other'[p] \in Procs /\ \A q \in Procs \ {p} : other'[q] = other[q]
    BY <1>0, <1>5, <2>3 DEF Found, TypeOK, Entry
  <2>6. UNCHANGED << active, holder, told, quit, uid, again, rest, buf >>
    BY <1>5 DEF Found, file
  <2>7. Go(p, "check", "ask")
    BY <1>5 DEF Found
  <2> QED BY <1>0, <1>1, <2>4, <2>5, <2>6, <2>7, GoesOn DEF TypeOK
<1>6. CASE NotFound(p)
  BY <1>0, <1>1, <1>6, GoesOn DEF NotFound, file, local, TypeOK
<1> QED BY <1>2, <1>3, <1>4, <1>5, <1>6 DEF Start, Again

(* The other session of the user is ended, or is not.                      *)
LEMMA AnswerKeeps ==
  ASSUME IInv, NEW p \in Procs,
         \/ AnswerNo(p) \/ AnswerYes(p) \/ StillActive(p) \/ NotActive(p) \/ SigKill(p)
  PROVE  IInv'
<1>0. TypeOK
  BY DEF IInv
<1>1. \A l \in {"ask", "dead", "term", "kill", "add", "evict"} : l \in Labels \ Changing
  BY DEF Labels, Outside, Login, Leaving, Changing
<1>2. CASE AnswerNo(p)
  BY <1>0, <1>1, <1>2, GoesOn DEF AnswerNo, file, local, TypeOK
<1>3. CASE AnswerYes(p)
  <2>1. quit' \in SUBSET Procs
    BY <1>0, <1>3 DEF AnswerYes, Go, IInv, Asked, TypeOK
  <2> QED BY <1>0, <1>1, <1>3, <2>1, GoesOn DEF AnswerYes, file, local, TypeOK
<1>4. CASE StillActive(p)
  BY <1>0, <1>1, <1>4, GoesOn DEF StillActive, file, local, TypeOK
<1>5. CASE NotActive(p)
  BY <1>0, <1>1, <1>5, GoesOn DEF NotActive, file, local, TypeOK
<1>6. CASE SigKill(p)
  <2>1. other[p] \in Procs \cup {None} /\ told \in Procs \cup {None}
    BY <1>0 DEF TypeOK
  <2> QED BY <1>1, <1>6, <2>1, Ends DEF SigKill
<1> QED BY <1>2, <1>3, <1>4, <1>5, <1>6

(* Everything from the prompt to the end of the process.                   *)
LEMMA LogoutKeeps ==
  ASSUME IInv, NEW p \in Procs,
         \/ Logout(p) \/ Restart(p) \/ Hangup(p) \/ Quit(p) \/ Reset(p) \/ Exit(p)
         \/ EndOfInput(p) \/ SetAvail(p) \/ GiveUp(p)
  PROVE  IInv'
<1>0. TypeOK
  BY DEF IInv
<1>1. \A l \in {"on", "bye", "gone", "reset", "dead", "ask", "purge", "add"} :
        l \in Labels \ Changing
  BY DEF Labels, Outside, Login, Leaving, Changing
<1>2. CASE Logout(p)
  BY <1>0, <1>1, <1>2, GoesOn DEF Logout, file, local, TypeOK
<1>3. CASE Restart(p)
  <2>1. again' \in [Procs -> BOOLEAN] /\ Go(p, "on", "bye")
    BY <1>0, <1>3 DEF Restart, TypeOK
  <2>2. UNCHANGED << active, holder, told, quit, uid, rest, buf, other >>
    BY <1>3 DEF Restart, file
  <2> QED BY <1>0, <1>1, <2>1, <2>2, GoesOn DEF TypeOK
<1>4. CASE Hangup(p)
  BY <1>4 DEF Hangup, file, local, IInv, TypeOK, Current, Asked
<1>5. CASE Quit(p)
  <2>1. pc[p] \notin Changing /\ Go(p, pc[p], "bye")
    BY <1>5 DEF Quit, Go
  <2>2. quit' \in SUBSET Procs /\ UNCHANGED << active, holder, told, uid, again, rest, buf, other >>
    BY <1>0, <1>5 DEF Quit, file, local, TypeOK
  <2> QED BY <1>0, <1>1, <2>1, <2>2, GoesOn DEF TypeOK
<1>6. CASE Reset(p)
  BY <1>0, <1>1, <1>6, GoesOn DEF Reset, file, local, TypeOK
<1>7. ASSUME pc[p] \notin Changing, pc' = [pc EXCEPT ![p] = "dead"], Ended(p),
             UNCHANGED << active, told, local >>
      PROVE  IInv'
  <2>1. pc' = [pc EXCEPT ![p] = IF p = p THEN "dead" ELSE "bye", ![p] = "dead"]
    BY <1>0, <1>7 DEF TypeOK
  <2>2. told' \in Procs \cup {None}
    BY <1>0, <1>7 DEF TypeOK
  <2> QED BY <1>1, <1>7, <2>1, <2>2, Ends
<1>8. CASE Exit(p) \/ EndOfInput(p) \/ SetAvail(p)
  <2>1. pc[p] \notin Changing /\ pc' = [pc EXCEPT ![p] = "dead"]
    BY <1>1, <1>8 DEF Exit, EndOfInput, SetAvail, Go
  <2> QED BY <1>7, <1>8, <2>1 DEF Exit, EndOfInput, SetAvail
<1>9. CASE GiveUp(p)
  <2>1. pc[p] \in Waiting
    BY <1>9 DEF GiveUp
  <2> DEFINE l == IF pc[p] = "add" THEN "dead" ELSE Closed[Opened[pc[p]]]
  <2>2. Go(p, pc[p], l)
    BY <1>0, <1>9 DEF GiveUp, Go, TypeOK
  <2>3. l \in {"dead", "purge", "add", "gone"}
    BY <2>1 DEF Waiting, Opened, Closed
  <2> HIDE DEF l
  <2>4. pc[p] \notin Changing /\ l # "ask" /\ l \in Labels \ Changing
    BY <1>1, <2>1, <2>3 DEF Waiting, Changing
  <2> QED BY <1>0, <1>9, <2>2, <2>4, GoesOn DEF GiveUp, file, local, TypeOK
<1> QED BY <1>2, <1>3, <1>4, <1>5, <1>6, <1>8, <1>9

(* Another process signals those it has read.                              *)
LEMMA NotifyKeeps ==
  ASSUME IInv, Notify \/ Tell
  PROVE  IInv'
<1>0. TypeOK /\ None \notin Procs
  BY ProcsAssumption DEF IInv
<1>1. CASE Notify
  <2>1. PICK i \in DOMAIN active : told' = active[i].pid
    BY <1>1 DEF Notify
  <2>2. active[i] \in Entry
    BY <1>0 DEF TypeOK
  <2>3. told' \in Procs
    BY <2>1, <2>2 DEF Entry
  <2> QED BY <1>1, <2>3 DEF Notify, file, local, IInv, TypeOK, Current, Asked
<1>2. CASE Tell /\ pc[told] # "reset"
  BY <1>2 DEF Tell, file, local, IInv, TypeOK, Current, Asked
<1>3. CASE Tell /\ pc[told] = "reset"
  <2>1. told \in Procs /\ told' \in Procs \cup {None}
    BY <1>0, <1>3 DEF Tell, TypeOK
  <2>2. pc' = [pc EXCEPT ![told] = IF told = told THEN "dead" ELSE "bye", ![told] = "dead"]
    BY <1>0, <1>3 DEF Tell, TypeOK
  <2>3. pc[told] \notin Changing /\ "bye" \in Labels \ Changing
    BY <1>3 DEF Changing, Labels, Leaving
  <2> QED BY <1>3, <2>1, <2>2, <2>3, Ends DEF Tell
<1> QED BY <1>1, <1>2, <1>3

LEMMA NextKeeps == IInv /\ [Next]_vars => IInv'
<1> SUFFICES ASSUME IInv, [Next]_vars PROVE IInv'
  OBVIOUS
<1>1. CASE UNCHANGED vars
  BY <1>1 DEF vars, file, local, IInv, TypeOK, Current, Asked
<1>2. CASE Notify \/ Tell
  BY <1>2, NotifyKeeps
<1>3. ASSUME NEW p \in Procs,
             \/ Step(p) \/ Start(p) \/ Again(p)
             \/ AnswerNo(p) \/ AnswerYes(p) \/ Logout(p) \/ Restart(p)
             \/ Hangup(p) \/ Quit(p) \/ EndOfInput(p) \/ SetAvail(p)
      PROVE  IInv'
  BY <1>3, OpenKeeps, WriteKeeps, LoginKeeps, AnswerKeeps, LogoutKeeps DEF Step
<1> QED BY <1>1, <1>2, <1>3 DEF Next

(* ACTIVE_FILE stays a list of entries, and who changes it has it locked,  *)
(* through every kill, hangup and restart (user.c's add_active and         *)
(* remove_active).                                                         *)
THEOREM Typed == Spec => []TypeOK
<1>1. IInv => TypeOK
  BY DEF IInv
<1> QED BY InitHolds, NextKeeps, <1>1, PTL DEF Spec

-----------------------------------------------------------------------------
(* A write adds the process's entry, takes one entry of its Uid away, or   *)
(* changes nothing.                                                        *)
LEMMA WriteRefines ==
  ASSUME IInv, NEW p \in Procs, Write(p)
  PROVE  [Reg!Next]_active
<1>1. /\ pc[p] \in Changing /\ buf[p] = active /\ active' = Changed(p)
      /\ active \in Seq(Entry) /\ uid[p] \in Users
  BY DEF IInv, TypeOK, Current, Write
<1>2. CASE pc[p] = "adding"
  <2>1. [user |-> uid[p], pid |-> p] \in Reg!Entry
    BY <1>1 DEF Reg!Entry
  <2>2. Reg!Add([user |-> uid[p], pid |-> p])
    BY <1>1, <1>2 DEF Changed, Reg!Add
  <2> QED BY <2>1, <2>2 DEF Reg!Next
<1>3. CASE pc[p] # "adding" /\ Entries(active, uid[p]) = {}
  BY <1>1, <1>3 DEF Changed, WithoutFirst
<1>4. CASE pc[p] # "adding" /\ Entries(active, uid[p]) # {}
  <2> DEFINE i == First(active, uid[p])
  <2>1. i \in Entries(active, uid[p])
    BY <1>1, <1>4, FirstIsAnEntry
  <2>2. i \in DOMAIN active /\ active[i].user = uid[p]
    BY <2>1 DEF Entries
  <2>3. active' = RemoveAt(active, i)
    BY <1>1, <1>4 DEF Changed, WithoutFirst
  <2>4. Reg!TakeAway(uid[p])
    BY <2>2, <2>3 DEF Reg!TakeAway, Reg!RemoveAt, RemoveAt
  <2> QED BY <1>1, <2>4 DEF Reg!Next
<1> QED BY <1>2, <1>3, <1>4

LEMMA StepRefines == IInv /\ [Next]_vars => [Reg!Next]_active
<1> SUFFICES ASSUME IInv, [Next]_vars PROVE [Reg!Next]_active
  OBVIOUS
<1>1. CASE UNCHANGED vars \/ Notify \/ Tell
  BY <1>1 DEF vars, file, Notify, Tell
<1>2. ASSUME NEW p \in Procs, Step(p)
      PROVE  [Reg!Next]_active
  BY <1>2, WriteRefines DEF Step, Open, GiveUp, Purge, PurgeEnd, Found, NotFound,
                            StillActive, NotActive, SigKill, Reset, Exit, file
<1>3. ASSUME NEW p \in Procs,
             \/ Start(p) \/ Again(p)
             \/ AnswerNo(p) \/ AnswerYes(p) \/ Logout(p) \/ Restart(p)
             \/ Hangup(p) \/ Quit(p) \/ EndOfInput(p) \/ SetAvail(p)
      PROVE  UNCHANGED active
  BY <1>3 DEF Start, Again, BeginLogin, AnswerNo, AnswerYes, Logout, Restart, Hangup, Quit,
              EndOfInput, SetAvail, file
<1> QED BY <1>1, <1>2, <1>3 DEF Next

(* Whatever the sessions do, each change of ACTIVE_FILE adds one entry or  *)
(* takes one entry away: no login or logout undoes another one that the    *)
(* process did not see (open_file's lock in add_active and remove_active). *)
THEOREM ListChangesByOne == Spec => ImplementsRegistry
<1>1. Init => Reg!Init
  BY DEF Init, Reg!Init
<1> QED BY InitHolds, NextKeeps, StepRefines, <1>1, PTL DEF Spec, ImplementsRegistry, Reg!Spec

-----------------------------------------------------------------------------
(* Logins one after the other, which nothing cuts short: no hangups, nobody*)
(* ends another session, and nobody waits too long for the list.           *)
Serial == IsFiniteSet(Procs) /\ MaxLogins = 1 /\ Hangups = {} /\ ~Kicks /\ ~LongLocks

Staying == {"on", "bye", "leaving"}
Purging == {"purge", "clean", "purging"}

(* Nobody is ended, and one process is in add_active.                      *)
Calm  == quit = {} /\ \A p \in Procs : pc[p] \notin {"term", "kill", "evict", "evicting"}
Alone == \A p, q \in Procs : pc[p] \in Login /\ pc[q] \in Login => p = q

(* An entry is that of a session, or of one that died; there is one for a  *)
(* user, and one for every session.                                        *)
Owned   == \A i \in DOMAIN active :
             /\ active[i].user = UserOf[active[i].pid]
             /\ pc[active[i].pid] \in Staying \cup {"dead"}
Single  == \A i, j \in DOMAIN active : active[i].user = active[j].user => i = j
Present == \A p \in Procs : pc[p] \in Staying => \E i \in DOMAIN active : active[i].pid = p

(* Uid is somebody else's only while entries are purged; then the list has *)
(* only shrunk since it was read, and the entry to be removed is a dead    *)
(* one's.                                                                  *)
OwnUid == \A p \in Procs : pc[p] \notin Purging => uid[p] = UserOf[p]
Known(s) == \A i \in DOMAIN active, j \in DOMAIN s :
              active[i].user = s[j].user => active[i].pid = s[j].pid
Seen   == \A p \in Procs : pc[p] \in Purging => Known(rest[p])
OfDead(u) == \A i \in DOMAIN active : active[i].user = u => pc[active[i].pid] = "dead"
Stale  == \A p \in Procs : pc[p] \in {"clean", "purging"} => OfDead(uid[p])
NotListed(u) == \A i \in DOMAIN active : active[i].user # u
Absent == \A p \in Procs : pc[p] \in {"add", "adding"} => NotListed(UserOf[p])

SInv ==
  /\ Calm /\ Alone
  /\ Owned /\ Single /\ Present
  /\ OwnUid /\ Seen /\ Stale /\ Absent

LEMMA EntryOf ==
  ASSUME TypeOK, NEW i \in DOMAIN active
  PROVE  active[i].user \in Users /\ active[i].pid \in Procs
<1>1. active[i] \in Entry
  BY DEF TypeOK
<1> QED BY <1>1 DEF Entry

(* A process goes on, and the list stays as it is.                         *)
LEMMA SerialGoesOn ==
  ASSUME TypeOK, SInv, NEW p \in Procs, NEW l,
         pc' = [pc EXCEPT ![p] = l], active' = active, quit' = {}, pc[p] # "dead",
         \A q \in Procs \ {p} : uid'[q] = uid[q] /\ rest'[q] = rest[q],
         l \notin {"term", "kill", "evict", "evicting"},
         l \in Login => pc[p] \in Login \/ \A q \in Procs : pc[q] \notin Login,
         pc[p] \in Staying => l \in Staying \cup {"dead"},
         l \in Staying => pc[p] \in Staying,
         l \notin Purging => uid'[p] = UserOf[p],
         l \in Purging => Known(rest'[p]),
         l \in {"clean", "purging"} => OfDead(uid'[p]),
         l \in {"add", "adding"} => NotListed(UserOf[p])
  PROVE  SInv'
<1>1. \A q \in Procs : pc'[q] = IF q = p THEN l ELSE pc[q]
  BY DEF TypeOK
<1>2. Calm' /\ Alone'
  BY <1>1 DEF SInv, Calm, Alone
<1>3. \A i \in DOMAIN active : active[i].pid \in Procs
  BY EntryOf
<1>4. Owned'
  BY <1>1, <1>3 DEF SInv, Owned, Staying
<1>5. Single'
  BY DEF SInv, Single
<1>6. Present'
  BY <1>1 DEF SInv, Present
<1>7. OwnUid'
  BY <1>1 DEF SInv, OwnUid
<1>8. ASSUME NEW q \in Procs, pc'[q] \in Purging
      PROVE  Known(rest'[q])
  BY <1>1, <1>8 DEF SInv, Seen
<1>9. Seen'
  BY <1>8 DEF Seen, Known
<1>10. \A u : OfDead(u) => OfDead(u)'
  BY <1>1, <1>3 DEF OfDead
<1>11. ASSUME NEW q \in Procs, pc'[q] \in {"clean", "purging"}
       PROVE  OfDead(uid'[q])
  BY <1>1, <1>11 DEF SInv, Stale
<1>12. Stale'
  BY <1>10, <1>11 DEF Stale, OfDead
<1>13. Absent'
  BY <1>1 DEF SInv, Absent, NotListed
<1> QED BY <1>2, <1>4, <1>5, <1>6, <1>7, <1>9, <1>12, <1>13 DEF SInv

LEMMA SerialInit == Init => SInv
<1> SUFFICES ASSUME Init PROVE SInv
  OBVIOUS
<1>1. \A p \in Procs : pc[p] = "out"
  BY DEF Init
<1>2. Calm /\ Alone /\ Present /\ OwnUid /\ Seen /\ Stale /\ Absent
  BY <1>1 DEF Init, Calm, Alone, Present, OwnUid, Seen, Stale, Absent, Staying, Purging, Login
<1>3. Owned /\ Single
  BY DEF Init, Owned, Single
<1> QED BY <1>2, <1>3 DEF SInv

(* Nobody is in add_active when a login begins.                            *)
LEMMA NobodyLogsIn ==
  ASSUME Serial, NEW p \in Procs, BeginLogin(p)
  PROVE  \A q \in Procs : pc[q] \notin Login
<1> DEFINE S == {q \in Procs : pc[q] \in Login}
<1>1. IsFiniteSet(S)
  BY FS_Subset DEF Serial
<1>2. Cardinality(S) \in Nat /\ Cardinality(S) < 1
  BY <1>1, FS_CardinalityType DEF Serial, BeginLogin
<1>3. S = {}
  BY <1>1, <1>2, FS_EmptySet
<1> QED BY <1>3

(* add_active up to the question.                                          *)
LEMMA SerialLogin ==
  ASSUME Serial, TypeOK, SInv, NEW p \in Procs,
         \/ Start(p) \/ Again(p) \/ Purge(p) \/ PurgeEnd(p) \/ Found(p) \/ NotFound(p)
  PROVE  SInv'
<1>0. /\ quit = {} /\ None \notin Procs /\ UserOf \in [Procs -> Users]
      /\ uid \in [Procs -> Users] /\ rest \in [Procs -> Seq(Entry)] /\ active \in Seq(Entry)
  BY ProcsAssumption DEF SInv, Calm, TypeOK
<1>1. ASSUME BeginLogin(p), NEW k \in {"out", "reset"}, Go(p, k, "purge")
      PROVE  SInv'
  <2>1. \A q \in Procs : pc[q] \notin Login
    BY <1>1, NobodyLogsIn
  <2>2. rest'[p] = active /\ \A q \in Procs \ {p} : rest'[q] = rest[q] /\ uid'[q] = uid[q]
    BY <1>0, <1>1 DEF BeginLogin
  <2>3. Known(active)
    BY DEF SInv, Single, Known
  <2>4. UNCHANGED << active, quit >>
    BY <1>1 DEF BeginLogin, file
  <2>5. pc[p] \notin Staying \cup {"dead"} /\ pc' = [pc EXCEPT ![p] = "purge"]
    BY <1>1 DEF Go, Staying
  <2>6. Known(rest'[p])
    BY <2>2, <2>3
  <2> QED BY <1>0, <2>1, <2>2, <2>4, <2>5, <2>6, SerialGoesOn DEF Staying, Purging
<1>2. CASE Purge(p)
  <2> DEFINE e == Head(rest[p])
             l == IF Alive(e.pid) THEN "purge" ELSE "clean"
  <2>1. /\ pc[p] = "purge" /\ rest[p] \in Seq(Entry) /\ rest[p] # <<>>
        /\ pc' = [pc EXCEPT ![p] = l] /\ UNCHANGED << active, quit >>
        /\ uid' = [uid EXCEPT ![p] = e.user] /\ rest' = [rest EXCEPT ![p] = Tail(rest[p])]
    BY <1>0, <1>2 DEF Purge, file
  <2>2. /\ uid'[p] = e.user /\ rest'[p] = Tail(rest[p])
        /\ \A q \in Procs \ {p} : rest'[q] = rest[q] /\ uid'[q] = uid[q]
    BY <1>0, <2>1
  <2>3. /\ 1 \in DOMAIN rest[p] /\ e = rest[p][1]
        /\ \A j \in DOMAIN Tail(rest[p]) : j + 1 \in DOMAIN rest[p] /\ Tail(rest[p])[j] = rest[p][j + 1]
    BY <2>1, HeadTailProperties, LenProperties
  <2>4. Known(rest[p])
    BY <2>1 DEF SInv, Seen, Purging
  <2>5. Known(Tail(rest[p]))
    BY <2>3, <2>4 DEF Known
  <2>6. ASSUME ~Alive(e.pid)
        PROVE  OfDead(e.user)
    <3> SUFFICES ASSUME NEW i \in DOMAIN active, active[i].user = e.user
                 PROVE  pc[active[i].pid] = "dead"
      BY DEF OfDead
    <3>1. active[i].pid = e.pid
      BY <2>3, <2>4 DEF Known
    <3>2. pc[active[i].pid] \in Staying \cup {"dead"}
      BY DEF SInv, Owned
    <3> QED BY <2>6, <3>1, <3>2 DEF Alive, Outside, Staying
  <2>7. l \in {"purge", "clean"} /\ (l = "clean" => OfDead(uid'[p])) /\ Known(rest'[p])
    BY <2>2, <2>5, <2>6
  <2> HIDE DEF l, e
  <2> QED BY <1>0, <2>1, <2>2, <2>7, SerialGoesOn DEF Staying, Purging, Login
<1>3. CASE PurgeEnd(p)
  <2>1. /\ pc[p] = "purge" /\ pc' = [pc EXCEPT ![p] = "check"] /\ UNCHANGED << active, quit, rest >>
        /\ uid' = [uid EXCEPT ![p] = UserOf[p]]
    BY <1>3 DEF PurgeEnd, Go, file
  <2>2. uid'[p] = UserOf[p] /\ \A q \in Procs \ {p} : uid'[q] = uid[q]
    BY <1>0, <2>1
  <2> QED BY <1>0, <2>1, <2>2, SerialGoesOn DEF Staying, Purging, Login
<1>4. CASE Found(p)
  <2>1. /\ pc[p] = "check" /\ pc' = [pc EXCEPT ![p] = "ask"] /\ UNCHANGED << active, quit, rest, uid >>
    BY <1>4 DEF Found, Go, file
  <2>2. uid[p] = UserOf[p]
    BY <2>1 DEF SInv, OwnUid, Purging
  <2> QED BY <1>0, <2>1, <2>2, SerialGoesOn DEF Staying, Purging, Login
<1>5. CASE NotFound(p)
  <2>1. /\ pc[p] = "check" /\ pc' = [pc EXCEPT ![p] = "add"] /\ UNCHANGED << active, quit, rest, uid >>
        /\ Entries(active, uid[p]) = {}
    BY <1>5 DEF NotFound, Go, file, local, TimedOut, Serial
  <2>2. uid[p] = UserOf[p]
    BY <2>1 DEF SInv, OwnUid, Purging
  <2>3. NotListed(UserOf[p])
    BY <2>1, <2>2 DEF Entries, NotListed
  <2> QED BY <1>0, <2>1, <2>2, <2>3, SerialGoesOn DEF Staying, Purging, Login
<1> QED BY <1>1, <1>2, <1>3, <1>4, <1>5 DEF Start, Again

(* What cannot happen: a wait that takes too long, a session that is ended *)
(* by somebody else.                                                       *)
LEMMA SerialNever ==
  ASSUME Serial, SInv, NEW p \in Procs
  PROVE  ~(\/ GiveUp(p) \/ AnswerYes(p) \/ StillActive(p) \/ NotActive(p) \/ SigKill(p)
           \/ Hangup(p) \/ Quit(p))
<1>1. quit = {} /\ pc[p] \notin {"term", "kill", "evict", "evicting"}
  BY DEF SInv, Calm
<1> QED BY <1>1 DEF Serial, GiveUp, TimedOut, AnswerYes, StillActive, NotActive, SigKill, Go,
                    Hangup, Quit

(* From the question, and from the prompt to the end of the process.       *)
LEMMA SerialLogout ==
  ASSUME Serial, TypeOK, SInv, NEW p \in Procs,
         \/ Open(p) \/ AnswerNo(p) \/ Logout(p) \/ Restart(p) \/ Reset(p) \/ Exit(p)
         \/ EndOfInput(p) \/ SetAvail(p)
  PROVE  SInv'
<1>0. /\ quit = {} /\ UserOf \in [Procs -> Users]
      /\ (pc[p] \notin Purging => uid[p] = UserOf[p])
  BY ProcsAssumption DEF SInv, Calm, OwnUid
<1>1. CASE Open(p)
  <2> DEFINE l == Opened[pc[p]]
  <2>1. /\ pc[p] \in Waiting /\ pc' = [pc EXCEPT ![p] = l] /\ UNCHANGED << active, quit, rest, uid >>
    BY <1>1 DEF Open, TypeOK
  <2>2. pc[p] # "evict"
    BY DEF SInv, Calm
  <2>3. \/ pc[p] = "clean" /\ l = "purging"
        \/ pc[p] = "add" /\ l = "adding"
        \/ pc[p] = "bye" /\ l = "leaving"
    BY <2>1, <2>2 DEF Waiting, Opened
  <2> HIDE DEF l
  <2>4. pc[p] = "clean" => Known(rest[p]) /\ OfDead(uid[p])
    BY DEF SInv, Seen, Stale, Purging
  <2>5. pc[p] = "add" => NotListed(UserOf[p])
    BY DEF SInv, Absent
  <2>6. l \in Login => pc[p] \in Login
    BY <2>3 DEF Login
  <2> QED BY <1>0, <2>1, <2>3, <2>4, <2>5, <2>6, SerialGoesOn DEF Staying, Purging
<1>2. ASSUME NEW k, NEW l, pc[p] = k, pc' = [pc EXCEPT ![p] = l],
             \/ k = "ask" /\ l = "dead"
             \/ k = "on" /\ l \in {"bye", "dead"}
             \/ k = "gone" /\ l = "reset"
             \/ k = "reset" /\ l = "dead",
             UNCHANGED << active, rest, uid >>, quit' = {}
      PROVE  SInv'
  BY <1>0, <1>2, SerialGoesOn DEF Staying, Purging, Login
<1>3. CASE AnswerNo(p)
  BY <1>0, <1>2, <1>3 DEF AnswerNo, Go, file, local
<1>4. CASE Logout(p)
  BY <1>0, <1>2, <1>4 DEF Logout, Go, file, local
<1>5. CASE Restart(p)
  BY <1>0, <1>2, <1>5 DEF Restart, Go, file
<1>6. CASE Reset(p)
  BY <1>0, <1>2, <1>6 DEF Reset, Go, file, local
<1>7. CASE Exit(p)
  BY <1>0, <1>2, <1>7 DEF Exit, Ended, Go, local
<1>8. CASE EndOfInput(p)
  BY <1>0, <1>2, <1>8 DEF EndOfInput, Ended, local
<1>9. CASE SetAvail(p)
  BY <1>0, <1>2, <1>9 DEF SetAvail, Ended, local
<1> QED BY <1>1, <1>3, <1>4, <1>5, <1>6, <1>7, <1>8, <1>9

LEMMA SerialNotify ==
  ASSUME TypeOK, SInv, Notify \/ Tell
  PROVE  SInv'
<1>1. CASE UNCHANGED << active, quit, pc, local >>
  BY <1>1 DEF local, SInv, Calm, Alone, Owned, Single, Present, OwnUid, Seen, Known, Stale,
              OfDead, Absent, NotListed
<1>2. CASE Tell /\ pc[told] = "reset"
  <2>1. /\ told \in Procs /\ pc' = [pc EXCEPT ![told] = "dead"] /\ quit' = {}
        /\ UNCHANGED << active, rest, uid >>
    BY <1>2, ProcsAssumption DEF Tell, Ended, TypeOK, SInv, Calm, local
  <2>2. uid[told] = UserOf[told]
    BY <1>2, <2>1 DEF SInv, OwnUid, Purging
  <2> QED BY <1>2, <2>1, <2>2, SerialGoesOn DEF Staying, Purging, Login
<1> QED BY <1>1, <1>2 DEF Notify, Tell, file

(* The list without its k-th entry.                                        *)
LEMMA RemoveAtElements ==
  ASSUME NEW s \in Seq(Entry), NEW k \in DOMAIN s
  PROVE  /\ \A i \in DOMAIN RemoveAt(s, k) :
              LET j == IF i < k THEN i ELSE i + 1
              IN  i \in Nat /\ j \in DOMAIN s \ {k} /\ RemoveAt(s, k)[i] = s[j]
         /\ \A j \in DOMAIN s \ {k} : \E i \in DOMAIN RemoveAt(s, k) : RemoveAt(s, k)[i] = s[j]
<1> DEFINE n == Len(s)
           a == SubSeq(s, 1, k - 1)
           b == SubSeq(s, k + 1, n)
<1>1. n \in Nat /\ k \in 1 .. n /\ DOMAIN s = 1 .. n
  BY LenProperties
<1>2. /\ a \in Seq(Entry) /\ Len(a) = k - 1
      /\ \A i \in 1 .. k - 1 : a[i] = s[i]
  <2>1. \A i \in 1 .. k - 1 : s[i] \in Entry
    BY <1>1, ElementOfSeq
  <2>2. a \in Seq(Entry) /\ Len(a) = k - 1 /\ \A i \in 1 .. k - 1 : a[i] = s[1 + i - 1]
    BY <1>1, <2>1, SubSeqProperties
  <2> QED BY <1>1, <2>2
<1>3. /\ b \in Seq(Entry) /\ Len(b) = n - k
      /\ \A i \in 1 .. n - k : b[i] = s[k + i]
  <2>1. \A i \in k + 1 .. n : s[i] \in Entry
    BY <1>1, ElementOfSeq
  <2>2. b \in Seq(Entry) /\ Len(b) = n - k /\ \A i \in 1 .. n - k : b[i] = s[k + 1 + i - 1]
    BY <1>1, <2>1, SubSeqProperties
  <2> QED BY <1>1, <2>2
<1> HIDE DEF a, b
<1>4. /\ Len(a \o b) = n - 1 /\ DOMAIN (a \o b) = 1 .. n - 1
      /\ \A i \in 1 .. n - 1 : (a \o b)[i] = IF i <= k - 1 THEN a[i] ELSE b[i - (k - 1)]
  <2>1. /\ a \o b \in Seq(Entry) /\ Len(a \o b) = Len(a) + Len(b)
        /\ \A i \in 1 .. Len(a) + Len(b) :
             (a \o b)[i] = IF i <= Len(a) THEN a[i] ELSE b[i - Len(a)]
    BY <1>2, <1>3, ConcatProperties
  <2>2. Len(a) + Len(b) = n - 1
    BY <1>1, <1>2, <1>3
  <2>3. DOMAIN (a \o b) = 1 .. Len(a \o b)
    BY <2>1, LenProperties
  <2> QED BY <1>2, <2>1, <2>2, <2>3
<1>5. ASSUME NEW i \in 1 .. n - 1
      PROVE  (a \o b)[i] = s[IF i < k THEN i ELSE i + 1]
  <2>1. CASE i < k
    <3>1. i <= k - 1 /\ i \in 1 .. k - 1
      BY <1>1, <2>1
    <3> QED BY <1>2, <1>4, <2>1, <3>1
  <2>2. CASE ~(i < k)
    <3>1. ~(i <= k - 1) /\ i - (k - 1) \in 1 .. n - k /\ k + (i - (k - 1)) = i + 1
      BY <1>1, <2>2
    <3> QED BY <1>3, <1>4, <2>2, <3>1
  <2> QED BY <2>1, <2>2
<1>6. RemoveAt(s, k) = a \o b
  BY DEF RemoveAt, a, b
<1>7. ASSUME NEW j \in DOMAIN s \ {k}
      PROVE  \E i \in 1 .. n - 1 : (a \o b)[i] = s[j]
  <2> DEFINE i == IF j < k THEN j ELSE j - 1
  <2>1. i \in 1 .. n - 1 /\ (IF i < k THEN i ELSE i + 1) = j
    BY <1>1, <1>7
  <2>2. (a \o b)[i] = s[j]
    BY <1>5, <2>1
  <2> QED BY <2>1, <2>2
<1>8. ASSUME NEW i \in 1 .. n - 1
      PROVE  i \in Nat /\ (IF i < k THEN i ELSE i + 1) \in DOMAIN s \ {k}
  BY <1>1, <1>8
<1> QED BY <1>1, <1>4, <1>5, <1>6, <1>7, <1>8

(* The list has one entry less, and every entry it has, it had before.     *)
LEMMA ListShrinks ==
  ASSUME TypeOK, SInv, NEW k \in DOMAIN active, active' = RemoveAt(active, k)
  PROVE  /\ Single'
         /\ \A i \in DOMAIN active' : \E j \in DOMAIN active \ {k} : active'[i] = active[j]
         /\ \A j \in DOMAIN active \ {k} : \E i \in DOMAIN active' : active'[i] = active[j]
<1> DEFINE at(i) == IF i < k THEN i ELSE i + 1
<1>1. active \in Seq(Entry)
  BY DEF TypeOK
<1>2. /\ \A i \in DOMAIN active' :
           i \in Nat /\ at(i) \in DOMAIN active \ {k} /\ active'[i] = active[at(i)]
      /\ \A j \in DOMAIN active \ {k} : \E i \in DOMAIN active' : active'[i] = active[j]
  BY <1>1, RemoveAtElements
<1>3. k \in Nat
  BY <1>1, LenProperties
<1>4. ASSUME NEW i \in DOMAIN active', NEW j \in DOMAIN active', active'[i].user = active'[j].user
      PROVE  i = j
  <2>1. at(i) = at(j) /\ i \in Nat /\ j \in Nat
    BY <1>2, <1>4 DEF SInv, Single
  <2> QED BY <1>3, <2>1
<1>5. Single'
  BY <1>4 DEF Single
<1> QED BY <1>2, <1>5

(* Its entry is the first one that WithoutFirst finds, or there is none.   *)
LEMMA WithoutFirstTakes ==
  ASSUME TypeOK, NEW u \in Users
  PROVE  \/ NotListed(u) /\ WithoutFirst(active, u) = active
         \/ \E k \in DOMAIN active : active[k].user = u /\ WithoutFirst(active, u) = RemoveAt(active, k)
<1>1. active \in Seq(Entry)
  BY DEF TypeOK
<1>2. CASE Entries(active, u) = {}
  BY <1>2 DEF WithoutFirst, Entries, NotListed
<1>3. CASE Entries(active, u) # {}
  <2>1. First(active, u) \in DOMAIN active /\ active[First(active, u)].user = u
    BY <1>1, <1>3, FirstIsAnEntry DEF Entries
  <2> QED BY <1>3, <2>1 DEF WithoutFirst
<1> QED BY <1>2, <1>3

(* One entry goes, that of a dead process or of the process itself.        *)
LEMMA SerialRemoves ==
  ASSUME TypeOK, SInv, NEW p \in Procs, NEW l,
         pc' = [pc EXCEPT ![p] = l], UNCHANGED << quit, uid, rest >>,
         \/ pc[p] = "purging" /\ l = "purge"
         \/ pc[p] = "leaving" /\ l = "gone",
         active' = WithoutFirst(active, uid[p])
  PROVE  SInv'
<1>0. uid[p] \in Users /\ UserOf \in [Procs -> Users]
  BY ProcsAssumption DEF TypeOK
<1>1. \A q \in Procs : pc'[q] = IF q = p THEN l ELSE pc[q]
  BY DEF TypeOK
<1>2. \A i \in DOMAIN active : active[i].pid \in Procs
  BY EntryOf
<1>3. pc[p] = "leaving" => uid[p] = UserOf[p]
  BY DEF SInv, OwnUid, Purging
<1>4. pc[p] = "purging" => OfDead(uid[p])
  BY DEF SInv, Stale
<1>5. /\ Single'
      /\ \A i \in DOMAIN active' : \E j \in DOMAIN active :
           active'[i] = active[j] /\ active[j].user # uid[p]
      /\ \A j \in DOMAIN active : active[j].user # uid[p] =>
           \E i \in DOMAIN active' : active'[i] = active[j]
  <2>1. CASE NotListed(uid[p]) /\ active' = active
    BY <2>1 DEF NotListed, SInv, Single
  <2>2. ASSUME NEW k \in DOMAIN active, active[k].user = uid[p], active' = RemoveAt(active, k)
        PROVE  <1>5
    <3>1. /\ Single'
          /\ \A i \in DOMAIN active' : \E j \in DOMAIN active \ {k} : active'[i] = active[j]
          /\ \A j \in DOMAIN active \ {k} : \E i \in DOMAIN active' : active'[i] = active[j]
      BY <2>2, ListShrinks
    <3>2. \A j \in DOMAIN active : active[j].user = uid[p] <=> j = k
      BY <2>2 DEF SInv, Single
    <3> QED BY <3>1, <3>2
  <2> QED BY <1>0, <2>1, <2>2, WithoutFirstTakes
<1>6. Calm' /\ Alone'
  BY <1>1 DEF SInv, Calm, Alone, Login
<1>7. Owned'
  <2> SUFFICES ASSUME NEW i \in DOMAIN active'
               PROVE  /\ active'[i].user = UserOf[active'[i].pid]
                      /\ pc'[active'[i].pid] \in Staying \cup {"dead"}
    BY DEF Owned
  <2>1. PICK j \in DOMAIN active : active'[i] = active[j] /\ active[j].user # uid[p]
    BY <1>5
  <2>2. active[j].user = UserOf[active[j].pid] /\ pc[active[j].pid] \in Staying \cup {"dead"}
    BY DEF SInv, Owned
  <2>3. active[j].pid # p
    BY <1>3, <2>1, <2>2 DEF Staying
  <2> QED BY <1>1, <1>2, <2>1, <2>2, <2>3
<1>8. Present'
  <2> SUFFICES ASSUME NEW q \in Procs, pc'[q] \in Staying
               PROVE  \E i \in DOMAIN active' : active'[i].pid = q
    BY DEF Present
  <2>1. pc[q] \in Staying /\ q # p
    BY <1>1 DEF Staying
  <2>2. PICK j \in DOMAIN active : active[j].pid = q
    BY <2>1 DEF SInv, Present
  <2>3. active[j].user # uid[p]
    <3>1. CASE pc[p] = "purging"
      BY <1>4, <2>1, <2>2, <3>1 DEF OfDead, Staying
    <3>2. CASE pc[p] = "leaving"
      <4>1. PICK k \in DOMAIN active : active[k].pid = p
        BY <3>2 DEF SInv, Present, Staying
      <4>2. active[k].user = UserOf[p]
        BY <4>1 DEF SInv, Owned
      <4>3. j # k
        BY <2>1, <2>2, <4>1
      <4> QED BY <1>3, <3>2, <4>2, <4>3 DEF SInv, Single
    <3> QED BY <3>1, <3>2
  <2>4. PICK i \in DOMAIN active' : active'[i] = active[j]
    BY <1>5, <2>3
  <2> QED BY <2>2, <2>4
<1>9. OwnUid'
  BY <1>1, <1>3 DEF SInv, OwnUid, Purging
<1>10. \A s : Known(s) => Known(s)'
  BY <1>5 DEF Known
<1>11. \A u : OfDead(u) => OfDead(u)'
  <2> SUFFICES ASSUME NEW u, OfDead(u), NEW i \in DOMAIN active', active'[i].user = u
               PROVE  pc'[active'[i].pid] = "dead"
    BY DEF OfDead
  <2>1. PICK j \in DOMAIN active : active'[i] = active[j]
    BY <1>5
  <2>2. pc[active[j].pid] = "dead" /\ pc[p] # "dead"
    BY <2>1 DEF OfDead
  <2> QED BY <1>1, <1>2, <2>1, <2>2
<1>12. \A u : NotListed(u) => NotListed(u)'
  BY <1>5 DEF NotListed
<1>13. \A q \in Procs : pc'[q] \in Purging => Known(rest[q])'
  BY <1>1, <1>10 DEF SInv, Seen, Purging
<1>14. Seen'
  BY <1>13 DEF Seen, Known
<1>15. \A q \in Procs : pc'[q] \in {"clean", "purging"} => OfDead(uid[q])'
  BY <1>1, <1>11 DEF SInv, Stale
<1>16. Stale'
  BY <1>15 DEF Stale, OfDead
<1>17. \A q \in Procs : pc'[q] \in {"add", "adding"} => NotListed(UserOf[q])'
  BY <1>1, <1>12 DEF SInv, Absent
<1>18. Absent'
  BY <1>17 DEF Absent, NotListed
<1> QED BY <1>5, <1>6, <1>7, <1>8, <1>9, <1>14, <1>16, <1>18 DEF SInv

(* A process adds its entry.                                               *)
LEMMA SerialAdds ==
  ASSUME TypeOK, SInv, NEW p \in Procs, pc[p] = "adding",
         pc' = [pc EXCEPT ![p] = "on"], UNCHANGED << quit, uid, rest >>,
         active' = Append(active, [user |-> uid[p], pid |-> p])
  PROVE  SInv'
<1> DEFINE n == Len(active) + 1
<1>0. active \in Seq(Entry) /\ uid[p] = UserOf[p] /\ NotListed(UserOf[p])
  BY DEF TypeOK, SInv, OwnUid, Absent, Purging
<1>1. \A q \in Procs : pc'[q] = IF q = p THEN "on" ELSE pc[q]
  BY DEF TypeOK
<1>2. /\ DOMAIN active' = DOMAIN active \cup {n} /\ n \notin DOMAIN active
      /\ active'[n] = [user |-> UserOf[p], pid |-> p]
      /\ \A i \in DOMAIN active : active'[i] = active[i]
  BY <1>0
<1> HIDE DEF n
<1>3. active'[n].user = UserOf[p] /\ active'[n].pid = p
  BY <1>2
<1>4. \A i \in DOMAIN active : active[i].pid \in Procs /\ active[i].pid # p
  BY EntryOf DEF SInv, Owned, Staying
<1>5. \A q \in Procs \ {p} : pc[q] \notin Login
  BY DEF SInv, Alone, Login
<1>6. Calm' /\ Alone'
  BY <1>1 DEF SInv, Calm, Alone, Login
<1>7. Owned'
  BY <1>1, <1>2, <1>3, <1>4 DEF SInv, Owned, Staying
<1>8. Single'
  BY <1>0, <1>2, <1>3 DEF SInv, Single, NotListed
<1>9. Present'
  BY <1>1, <1>2, <1>3 DEF SInv, Present
<1>10. OwnUid'
  BY <1>0, <1>1 DEF SInv, OwnUid, Purging
<1>11. Seen' /\ Stale' /\ Absent'
  BY <1>1, <1>5 DEF Seen, Stale, Absent, Purging, Login
<1> QED BY <1>6, <1>7, <1>8, <1>9, <1>10, <1>11 DEF SInv

LEMMA SerialWrite ==
  ASSUME IInv, SInv, NEW p \in Procs, Write(p)
  PROVE  SInv'
<1>1. /\ TypeOK /\ pc[p] \in Changing /\ buf[p] = active /\ active' = Changed(p)
      /\ pc' = [pc EXCEPT ![p] = Closed[pc[p]]] /\ UNCHANGED << quit, uid, rest >>
  BY DEF IInv, Current, Write, TypeOK
<1>2. pc[p] # "evicting"
  BY DEF SInv, Calm
<1>3. CASE pc[p] = "adding"
  <2>1. pc' = [pc EXCEPT ![p] = "on"] /\ active' = Append(active, [user |-> uid[p], pid |-> p])
    BY <1>1, <1>3 DEF Changed, Closed
  <2> QED BY <1>1, <1>3, <2>1, SerialAdds
<1>4. CASE pc[p] \in {"purging", "leaving"}
  <2>1. active' = WithoutFirst(active, uid[p])
    BY <1>1, <1>4 DEF Changed
  <2>2. CASE pc[p] = "purging"
    <3>1. pc' = [pc EXCEPT ![p] = "purge"]
      BY <1>1, <2>2 DEF Closed
    <3> QED BY <1>1, <2>1, <2>2, <3>1, SerialRemoves
  <2>3. CASE pc[p] = "leaving"
    <3>1. pc' = [pc EXCEPT ![p] = "gone"]
      BY <1>1, <2>3 DEF Closed
    <3> QED BY <1>1, <2>1, <2>3, <3>1, SerialRemoves
  <2> QED BY <1>4, <2>2, <2>3
<1> QED BY <1>1, <1>2, <1>3, <1>4 DEF Changing

LEMMA SerialNext == Serial /\ IInv /\ SInv /\ [Next]_vars => SInv'
<1> SUFFICES ASSUME Serial, IInv, SInv, [Next]_vars PROVE SInv'
  OBVIOUS
<1>0. TypeOK
  BY DEF IInv
<1>1. CASE UNCHANGED vars
  BY <1>1 DEF vars, file, local, SInv, Calm, Alone, Owned, Single, Present, OwnUid, Seen, Known,
              Stale, OfDead, Absent, NotListed
<1>2. CASE Notify \/ Tell
  BY <1>0, <1>2, SerialNotify
<1>3. ASSUME NEW p \in Procs,
             \/ Step(p) \/ Start(p) \/ Again(p)
             \/ AnswerNo(p) \/ AnswerYes(p) \/ Logout(p) \/ Restart(p)
             \/ Hangup(p) \/ Quit(p) \/ EndOfInput(p) \/ SetAvail(p)
      PROVE  SInv'
  BY <1>0, <1>3, SerialNever, SerialLogin, SerialLogout, SerialWrite DEF Step
<1> QED BY <1>1, <1>2, <1>3 DEF Next

(* As long as logins do not overlap and nothing cuts them short, a session *)
(* at its prompt is in the list, however often sessions die in it, end and *)
(* begin again: purging takes away no living entry (add_active,            *)
(* remove_active).                                                         *)
THEOREM SessionsAreListed == Serial /\ Spec => []Listed
<1>1. SInv => Listed
  BY DEF SInv, Present, Listed, Staying
<1>2. CASE Serial
  BY <1>1, <1>2, InitHolds, NextKeeps, SerialInit, SerialNext, PTL DEF Spec
<1> QED BY <1>2

(* ... and a user has one session at a time (check_active).                *)
THEOREM OneSessionEach == Serial /\ Spec => []OneSession
<1>1. SInv => OneSession
  <2> SUFFICES ASSUME SInv, NEW p \in Procs, NEW q \in Procs,
                      pc[p] = "on", pc[q] = "on", UserOf[p] = UserOf[q]
               PROVE  p = q
    BY DEF OneSession
  <2>1. PICK i \in DOMAIN active : active[i].pid = p
    BY DEF SInv, Present, Staying
  <2>2. PICK j \in DOMAIN active : active[j].pid = q
    BY DEF SInv, Present, Staying
  <2> QED BY <2>1, <2>2 DEF SInv, Owned, Single
<1>2. CASE Serial
  BY <1>1, <1>2, InitHolds, NextKeeps, SerialInit, SerialNext, PTL DEF Spec
<1> QED BY <1>2
=============================================================================
