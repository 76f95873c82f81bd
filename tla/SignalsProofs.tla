---------------------------- MODULE SignalsProofs ----------------------------
(***************************************************************************)
(* For every number of messages, notices and nested handlers: while a      *)
(* session has MSG_FILE open the signals are blocked whose handlers        *)
(* display messages, and the warning of SIGALRM, which is not blocked,     *)
(* cannot store its message, so that no message is lost.                   *)
(***************************************************************************)
EXTENDS Signals, SequenceTheorems, FiniteSetTheorems, TLAPS

HasMsgFile == {"open", "take"}
HasLock    == {"take", "store"}

(* While the session reads and empties MSG_FILE both notices are blocked,  *)
(* and are so again when what interrupted it returns.  One frame at most   *)
(* has the lock; when display_msg has it, only the warning is above it.    *)
Guarded ==
  /\ ~Ended /\ Top.pc \in HasMsgFile => Notices \subseteq mask
  /\ \A i \in 1 .. Depth - 1 : stack[i].pc \in HasMsgFile => Notices \subseteq stack[i + 1].saved
  /\ \A i \in 1 .. Depth - 1 : stack[i].pc = "take" =>
       /\ i + 1 = Depth /\ Top.pc \in {"warn", "return"}
       /\ Notices \subseteq mask /\ Warning
  /\ \A i, j \in 1 .. Depth : stack[i].pc \in HasLock /\ stack[j].pc \in HasLock => i = j

(* The inductive invariant.                                                *)
IInv == TypeOK /\ Guarded

-----------------------------------------------------------------------------
LEMMA Running ==
  ASSUME TypeOK, ~Ended
  PROVE  /\ Depth \in Nat \ {0} /\ DOMAIN stack = 1 .. Depth /\ Depth \in 1 .. Depth
         /\ Top \in Frame /\ \A i \in 1 .. Depth : stack[i] \in Frame
<1>1. stack \in Seq(Frame) /\ stack # <<>>
  BY DEF TypeOK, Ended
<1>2. Len(stack) \in Nat /\ Len(stack) # 0 /\ DOMAIN stack = 1 .. Len(stack)
  BY <1>1, EmptySeq, LenProperties
<1> QED BY <1>1, <1>2, ElementOfSeq DEF Top, Depth

(* The frame that runs goes on: where the notices are blocked before it    *)
(* has MSG_FILE, and where it fails when an interrupted one has the lock.  *)
LEMMA TopGoesOn ==
  ASSUME TypeOK, Guarded, ~Ended, NEW f \in Frame,
         stack' = [stack EXCEPT ![Depth] = f], f.saved = Top.saved,
         Top.pc # "return",
         f.pc \in HasMsgFile => Notices \subseteq mask',
         f.pc \in HasLock => Top.pc \in HasLock \/ ~Locked,
         Top.pc = "warn" /\ Locked => f.pc = "return" /\ mask \subseteq mask' /\ Warning' = Warning
  PROVE  stack' \in Seq(Frame) /\ Guarded'
<1>1. /\ Depth \in Nat \ {0} /\ DOMAIN stack = 1 .. Depth /\ Depth \in 1 .. Depth
      /\ \A i \in 1 .. Depth : stack[i] \in Frame
  BY Running
<1>2. stack' \in [1 .. Depth -> Frame]
  BY <1>1
<1>3. stack' \in Seq(Frame) /\ Len(stack') = Depth
  BY <1>1, <1>2, IsASeq, LenProperties
<1>4. stack'[Depth] = f /\ \A i \in 1 .. Depth : i # Depth => stack'[i] = stack[i]
  BY <1>1
<1>5. Depth' = Depth /\ Top' = f
  BY <1>3, <1>4 DEF Depth, Top
<1>6. ~Ended' /\ Top'.pc \in HasMsgFile => Notices \subseteq mask'
  BY <1>5
<1>7. \A i \in 1 .. Depth : stack'[i].saved = stack[i].saved
  BY <1>4 DEF Top
<1>8. ASSUME NEW i \in 1 .. Depth - 1
      PROVE  i \in 1 .. Depth /\ i # Depth /\ i + 1 \in 1 .. Depth /\ stack'[i] = stack[i]
  BY <1>1, <1>4
<1>9. ASSUME NEW i \in 1 .. Depth - 1, stack'[i].pc \in HasMsgFile
      PROVE  Notices \subseteq stack'[i + 1].saved
  BY <1>7, <1>8, <1>9 DEF Guarded
<1>10. ASSUME NEW i \in 1 .. Depth - 1, stack'[i].pc = "take"
       PROVE  /\ i + 1 = Depth /\ f.pc \in {"warn", "return"}
              /\ Notices \subseteq mask' /\ Warning'
  <2>1. /\ i \in 1 .. Depth /\ stack[i].pc = "take" /\ i + 1 = Depth
        /\ Top.pc \in {"warn", "return"} /\ Notices \subseteq mask /\ Warning
    BY <1>8, <1>10 DEF Guarded
  <2>2. Locked
    BY <2>1 DEF Locked
  <2> QED BY <2>1, <2>2
<1>11. ASSUME NEW i \in 1 .. Depth, NEW j \in 1 .. Depth,
              stack'[i].pc \in HasLock, stack'[j].pc \in HasLock
       PROVE  i = j
  <2>1. ASSUME NEW k \in 1 .. Depth, k # Depth, stack'[k].pc \in HasLock, f.pc \in HasLock
        PROVE  FALSE
    <3>1. stack[k].pc \in HasLock
      BY <1>4, <2>1
    <3>2. Locked
      BY <3>1 DEF Locked, HasLock
    <3> QED BY <1>1, <2>1, <3>1, <3>2 DEF Guarded, Top
  <2> QED BY <1>4, <1>11, <2>1 DEF Guarded
<1> QED BY <1>3, <1>5, <1>6, <1>9, <1>10, <1>11 DEF Guarded

(* A handler begins: not of a notice while those are blocked, and of the   *)
(* alarm with the warning noted.                                           *)
LEMMA HandlerBegins ==
  ASSUME TypeOK, Guarded, ~Ended,
         NEW f \in Frame, f.pc \notin HasMsgFile \cup HasLock, f.saved = mask,
         stack' = Append(stack, f),
         \/ Notices \cap Deliverable # {}
         \/ f.pc = "warn" /\ ~Warning /\ Warning' /\ mask' = mask
  PROVE  stack' \in Seq(Frame) /\ Guarded'
<1>1. Depth \in Nat \ {0} /\ DOMAIN stack = 1 .. Depth /\ stack \in Seq(Frame)
  BY Running DEF TypeOK
<1>2. /\ stack' \in Seq(Frame) /\ Len(stack') = Depth + 1
      /\ \A i \in 1 .. Depth : stack'[i] = stack[i]
      /\ stack'[Depth + 1] = f
  BY <1>1, AppendProperties DEF Depth
<1>3. Depth' = Depth + 1 /\ Top' = f
  BY <1>2 DEF Depth, Top
<1>4. \A i \in 1 .. Depth + 1 : i \in 1 .. Depth \/ i = Depth + 1
  BY <1>1
<1>5. \A i \in 1 .. Depth : i \in 1 .. Depth - 1 \/ i = Depth
  BY <1>1
<1>6. \A i \in 1 .. Depth - 1 : stack[i].pc # "take"
  BY DEF Deliverable, Guarded
<1>7. ASSUME NEW i \in 1 .. Depth, stack[i].pc \in HasMsgFile
      PROVE  Notices \subseteq stack'[i + 1].saved
  <2>1. CASE i = Depth
    BY <1>2, <1>7, <2>1 DEF Guarded, Top
  <2>2. CASE i # Depth
    <3>1. i \in 1 .. Depth - 1 /\ i + 1 \in 1 .. Depth
      BY <1>1, <2>2
    <3> QED BY <1>2, <1>7, <3>1 DEF Guarded
  <2> QED BY <2>1, <2>2
<1>8. ASSUME NEW i \in 1 .. Depth, stack[i].pc = "take"
      PROVE  i + 1 = Depth + 1 /\ f.pc = "warn" /\ Notices \subseteq mask' /\ Warning'
  <2>1. i = Depth /\ Notices \subseteq mask
    BY <1>5, <1>6, <1>8 DEF Guarded, Top, HasMsgFile
  <2> QED BY <1>1, <2>1 DEF Deliverable
<1>9. stack'[Depth + 1].pc \notin HasMsgFile \cup HasLock
  BY <1>2
<1>10. Depth' - 1 = Depth
  BY <1>1, <1>3
<1>11. ~Ended' /\ Top'.pc \in HasMsgFile => Notices \subseteq mask'
  BY <1>3
<1>12. \A i, j \in 1 .. Depth' : stack'[i].pc \in HasLock /\ stack'[j].pc \in HasLock => i = j
  BY <1>2, <1>3, <1>4, <1>9 DEF Guarded
<1>13. \A i \in 1 .. Depth' - 1 : stack'[i].pc \in HasMsgFile => Notices \subseteq stack'[i + 1].saved
  BY <1>2, <1>7, <1>10
<1>14. \A i \in 1 .. Depth' - 1 : stack'[i].pc = "take" =>
         /\ i + 1 = Depth' /\ Top'.pc \in {"warn", "return"}
         /\ Notices \subseteq mask' /\ Warning'
  BY <1>2, <1>3, <1>8, <1>10
<1> QED BY <1>2, <1>11, <1>12, <1>13, <1>14 DEF Guarded

(* A handler returns, and gives back the mask that it found.               *)
LEMMA HandlerEnds ==
  ASSUME TypeOK, Guarded, ~Ended, ~InMain, stack' = Front(stack), mask' = Top.saved
  PROVE  stack' \in Seq(Frame) /\ Guarded'
<1>1. Depth \in Nat \ {0, 1} /\ DOMAIN stack = 1 .. Depth /\ stack \in Seq(Frame) /\ stack # <<>>
  BY Running DEF TypeOK, InMain, Ended
<1>2. /\ stack' \in Seq(Frame) /\ Len(stack') = Depth - 1
      /\ \A i \in 1 .. Depth - 1 : stack'[i] = stack[i]
  <2>1. \A i \in 1 .. Depth - 1 : stack[i] \in Frame
    BY <1>1, Running
  <2> QED BY <1>1, <2>1, SubSeqProperties DEF Front, Depth
<1>3. Depth' = Depth - 1 /\ Depth' \in 1 .. Depth - 1 /\ Top' = stack[Depth - 1]
  BY <1>1, <1>2 DEF Depth, Top
<1>4. Top'.pc \in HasMsgFile => Notices \subseteq mask'
  <2>1. Depth - 1 \in 1 .. Depth - 1 /\ (Depth - 1) + 1 = Depth
    BY <1>1
  <2> QED BY <1>3, <2>1 DEF Guarded, Top
<1>5. \A i \in 1 .. Depth' - 1 : /\ i \in 1 .. Depth - 1 /\ i + 1 \in 1 .. Depth - 1
                                 /\ i + 1 # Depth /\ stack'[i] = stack[i] /\ stack'[i + 1] = stack[i + 1]
  BY <1>1, <1>2, <1>3
<1>6. \A i \in 1 .. Depth' : i \in 1 .. Depth /\ stack'[i] = stack[i]
  BY <1>1, <1>2, <1>3
<1> QED BY <1>2, <1>4, <1>5, <1>6 DEF Guarded

(* The session is over.                                                    *)
LEMMA Over ==
  ASSUME stack' = <<>>
  PROVE  stack' \in Seq(Frame) /\ Guarded'
<1>1. stack' \in Seq(Frame) /\ Depth' = 0
  BY EmptySeq DEF Depth
<1> QED BY <1>1 DEF Guarded, Ended

LEMMA GoToKeeps ==
  ASSUME TypeOK, Guarded, ~Ended, NEW l \in Labels \ HasMsgFile, GoTo(l), Top.pc # "return",
         l \in HasLock => ~Locked,
         Top.pc = "warn" /\ Locked => l = "return" /\ mask \subseteq mask' /\ Warning' = Warning
  PROVE  stack' \in Seq(Frame) /\ Guarded'
<1> DEFINE f == [Top EXCEPT !.pc = l]
<1>1. f \in Frame /\ f.pc = l /\ f.saved = Top.saved
  BY Running DEF Frame
<1>2. stack' = [stack EXCEPT ![Depth] = f]
  BY Running DEF GoTo, Top
<1> HIDE DEF f
<1> QED BY <1>1, <1>2, TopGoesOn

-----------------------------------------------------------------------------
LEMMA InitHolds == Init => IInv
<1> SUFFICES ASSUME Init PROVE IInv
  OBVIOUS
<1> DEFINE f == [pc |-> "msg", back |-> "prompt", read |-> <<>>,
                 old |-> {}, found |-> {}, saved |-> {}]
<1>1. f \in Frame /\ f.pc = "msg"
  BY DEF Frame, Labels
<1>2. stack = << f >>
  BY DEF Init
<1> HIDE DEF f
<1>3. stack \in Seq(Frame) /\ Depth = 1 /\ Top = f
  BY <1>1, <1>2 DEF Depth, Top
<1>4. TypeOK
  <2>1. <<>> \in Seq(1 .. MaxMsgs)
    BY EmptySeq
  <2>2. 0 \in 0 .. MaxMsgs /\ 0 \in 0 .. 0 /\ 0 \in 0 .. MaxTexts
    BY BoundsAssumption
  <2>3. /\ mask \in SUBSET Sigs /\ Oldmask \in SUBSET Sigs /\ pending \in SUBSET Sigs
        /\ haffo \in BOOLEAN /\ Change_msg \in BOOLEAN /\ Warning \in BOOLEAN /\ half \in BOOLEAN
        /\ alarm \in BOOLEAN
    BY DEF Init, Sigs
  <2>4. /\ box \in Seq(1 .. MaxMsgs) /\ shown \in Seq(1 .. MaxMsgs) /\ dropped \in Seq(1 .. MaxMsgs)
        /\ sent \in 0 .. MaxMsgs /\ owed \in 0 .. sent /\ texts \in 0 .. MaxTexts
    BY <2>1, <2>2 DEF Init
  <2> QED BY <1>3, <2>3, <2>4 DEF TypeOK
<1>5. Guarded
  BY <1>1, <1>2, <1>3 DEF Guarded, HasMsgFile, HasLock
<1> QED BY <1>4, <1>5 DEF IInv

LEMMA DeliverKeeps == IInv /\ Deliver => IInv'
<1> SUFFICES ASSUME IInv, Deliver PROVE IInv'
  OBVIOUS
<1>0. TypeOK /\ Guarded /\ ~Ended /\ mask \in SUBSET Sigs /\ pending \in SUBSET Sigs
  BY DEF IInv, Deliver, TypeOK
<1>1. CASE Quit
  <2>1. stack' \in Seq(Frame) /\ Guarded'
    BY <1>1, Over DEF Quit, Logout
  <2>2. TypeOK'
    BY <1>0, <1>1, <2>1 DEF Quit, Logout, TypeOK, mail, timer
  <2> QED BY <2>1, <2>2 DEF IInv
<1>2. ASSUME NEW s \in Notices, Haffo(s) \/ Note(s)
      PROVE  IInv'
  <2>1. s \in Notices \cap Deliverable /\ s \in Sigs
    BY <1>2 DEF Haffo, Note, Sigs
  <2>2. PICK l \in {"msg", "return"}, m \in {{}, mask \cup {s}} : stack' = Append(stack, NewFrame(l, m))
    BY <1>2 DEF Haffo, Note
  <2>3. mask' \in SUBSET Sigs
    BY <1>0, <1>2 DEF Haffo, Note, Sigs
  <2> DEFINE f == NewFrame(l, m)
  <2>4. f \in Frame /\ f.pc \notin HasMsgFile \cup HasLock /\ f.saved = mask
    BY <1>0, <2>1, <2>2 DEF NewFrame, Frame, Labels, HasMsgFile, HasLock
  <2> HIDE DEF f
  <2>5. stack' \in Seq(Frame) /\ Guarded'
    <3>1. stack' = Append(stack, f)
      BY <2>2 DEF f
    <3> QED BY <1>0, <2>1, <2>4, <3>1, HandlerBegins
  <2>6. Change_msg' \in BOOLEAN
    BY <1>2 DEF Haffo, Note
  <2>7. pending' \in SUBSET Sigs
    BY <1>0, <1>2 DEF Haffo, Note
  <2>8. UNCHANGED << Oldmask, haffo, alarm, Warning, half, box, shown, dropped, sent, owed, texts >>
    BY <1>2 DEF Haffo, Note, mail, timer
  <2>9. TypeOK'
    BY <1>0, <2>3, <2>5, <2>6, <2>7, <2>8 DEF TypeOK
  <2> QED BY <2>5, <2>9 DEF IInv
<1> QED BY <1>1, <1>2 DEF Deliver

(* display_msg.                                                            *)
LEMMA DisplayKeeps ==
  ASSUME IInv, \/ DisplayMsg \/ ReadMsgs \/ DisplayFails \/ TakeMsgs \/ FreeMsgs \/ ShowMsg
               \/ ClearMsgs \/ More \/ GoOn \/ Stop
  PROVE  IInv'
<1>0. /\ TypeOK /\ Guarded /\ ~Ended /\ mask \in SUBSET Sigs /\ Oldmask \in SUBSET Sigs
      /\ Notices \subseteq Sigs
      /\ box \in Seq(1 .. MaxMsgs) /\ shown \in Seq(1 .. MaxMsgs) /\ dropped \in Seq(1 .. MaxMsgs)
      /\ Top \in Frame /\ Top.read \in Seq(1 .. MaxMsgs)
      /\ Top.pc \in {"msg", "open", "take", "free", "show", "more"}
  BY Running DEF IInv, DisplayMsg, ReadMsgs, DisplayFails, TakeMsgs, FreeMsgs, ShowMsg, ClearMsgs,
                 More, GoOn, Stop, At, TypeOK, Sigs, Frame
<1>1. \A l \in {"free", "show", "more", "prompt"} : l \in Labels \ HasMsgFile /\ l \notin HasLock
  BY DEF Labels, HasMsgFile, HasLock
<1>2. CASE DisplayMsg /\ Change_msg
  <2> DEFINE f == [Top EXCEPT !.pc = "open", !.old = mask]
  <2>1. f \in Frame /\ f.saved = Top.saved /\ f.pc \notin HasLock
    BY <1>0 DEF Frame, Labels, HasLock
  <2>2. stack' = [stack EXCEPT ![Depth] = f]
    BY <1>0, <1>2, Running DEF DisplayMsg, Top
  <2> HIDE DEF f
  <2>3. mask' = mask \cup Notices
    BY <1>2 DEF DisplayMsg
  <2>4. stack' \in Seq(Frame) /\ Guarded'
    BY <1>0, <2>1, <2>2, <2>3, TopGoesOn
  <2>5. mask' \in SUBSET Sigs
    BY <1>0, <2>3
  <2>6. TypeOK'
    BY <1>0, <1>2, <2>4, <2>5 DEF DisplayMsg, TypeOK, mail, timer
  <2> QED BY <2>4, <2>6 DEF IInv
<1>3. CASE DisplayMsg /\ ~Change_msg
  <2>1. GoTo("prompt") /\ UNCHANGED << mask, Oldmask, pending, haffo, Change_msg, alarm, Warning, half,
                                       box, shown, dropped, sent, owed, texts >>
    BY <1>3 DEF DisplayMsg, mail, timer
  <2>2. stack' \in Seq(Frame) /\ Guarded'
    BY <1>0, <1>1, <2>1, GoToKeeps
  <2>3. TypeOK'
    BY <1>0, <2>1, <2>2 DEF TypeOK
  <2> QED BY <2>2, <2>3 DEF IInv
<1>4. CASE ReadMsgs
  <2> DEFINE f == [Top EXCEPT !.pc = "take", !.read = box]
  <2>1. f \in Frame /\ f.saved = Top.saved
    BY <1>0 DEF Frame, Labels
  <2>2. stack' = [stack EXCEPT ![Depth] = f] /\ ~Locked
    BY <1>0, <1>4, Running DEF ReadMsgs, Top
  <2> HIDE DEF f
  <2>3. Notices \subseteq mask'
    BY <1>0, <1>4 DEF ReadMsgs, At, Guarded, HasMsgFile, signals
  <2>4. stack' \in Seq(Frame) /\ Guarded'
    BY <1>0, <2>1, <2>2, <2>3, TopGoesOn
  <2>5. TypeOK'
    BY <1>0, <1>4, <2>4 DEF ReadMsgs, TypeOK, mail, signals, timer
  <2> QED BY <2>4, <2>5 DEF IInv
<1>5. CASE TakeMsgs
  <2>1. stack' \in Seq(Frame) /\ Guarded'
    BY <1>0, <1>1, <1>5, GoToKeeps DEF TakeMsgs
  <2>2. mask' \in SUBSET Sigs /\ Oldmask' \in SUBSET Sigs
    BY <1>0, <1>5 DEF TakeMsgs, Critical, Sigs
  <2>3. box' \in Seq(1 .. MaxMsgs)
    BY <1>5 DEF TakeMsgs
  <2>4. TypeOK'
    BY <1>0, <1>5, <2>1, <2>2, <2>3 DEF TakeMsgs, TypeOK, timer
  <2> QED BY <2>1, <2>4 DEF IInv
<1>6. CASE FreeMsgs
  <2>1. stack' \in Seq(Frame) /\ Guarded'
    BY <1>0, <1>1, <1>6, GoToKeeps DEF FreeMsgs
  <2>2. mask' \in SUBSET Sigs /\ Oldmask' \in SUBSET Sigs
    BY <1>0, <1>6 DEF FreeMsgs, NonCritical
  <2>3. TypeOK'
    BY <1>0, <1>6, <2>1, <2>2 DEF FreeMsgs, TypeOK, mail, timer
  <2> QED BY <2>1, <2>3 DEF IInv
<1>7. CASE ShowMsg
  <2> DEFINE f == [Top EXCEPT !.read = Tail(Top.read)]
  <2>0. Tail(Top.read) \in Seq(1 .. MaxMsgs) /\ Head(Top.read) \in 1 .. MaxMsgs
    BY <1>0, <1>7, HeadTailProperties DEF ShowMsg
  <2>1. f \in Frame /\ f.saved = Top.saved /\ f.pc \notin HasMsgFile \cup HasLock
    BY <1>0, <1>7, <2>0 DEF Frame, Labels, HasMsgFile, HasLock, ShowMsg, At
  <2>2. stack' = [stack EXCEPT ![Depth] = f]
    BY <1>0, <1>7, Running DEF ShowMsg, Top
  <2> HIDE DEF f
  <2>3. stack' \in Seq(Frame) /\ Guarded'
    BY <1>0, <2>1, <2>2, TopGoesOn
  <2>4. shown' \in Seq(1 .. MaxMsgs)
    BY <1>0, <1>7, <2>0, AppendProperties DEF ShowMsg
  <2>5. TypeOK'
    BY <1>0, <1>7, <2>3, <2>4 DEF ShowMsg, TypeOK, signals, timer
  <2> QED BY <2>3, <2>5 DEF IInv
<1>8. CASE DisplayFails \/ ClearMsgs
  <2> DEFINE f == [Top EXCEPT !.pc = "prompt", !.old = {}]
  <2>1. f \in Frame /\ f.saved = Top.saved /\ f.pc \notin HasMsgFile \cup HasLock
    BY <1>0 DEF Frame, Labels, HasMsgFile, HasLock
  <2>2. stack' = [stack EXCEPT ![Depth] = f]
    BY <1>0, <1>8, Running DEF DisplayFails, ClearMsgs, Top
  <2> HIDE DEF f
  <2>3. stack' \in Seq(Frame) /\ Guarded'
    BY <1>0, <2>1, <2>2, TopGoesOn
  <2>4. mask' \in SUBSET Sigs /\ Change_msg' \in BOOLEAN
    BY <1>0, <1>8 DEF DisplayFails, ClearMsgs, TypeOK, signals
  <2>5. TypeOK'
    BY <1>0, <1>8, <2>3, <2>4 DEF DisplayFails, ClearMsgs, TypeOK, mail, timer, signals
  <2> QED BY <2>3, <2>5 DEF IInv
<1>9. CASE More \/ GoOn
  <2>1. PICK l \in {"more", "show"} : GoTo(l)
    BY <1>9 DEF More, GoOn
  <2>2. stack' \in Seq(Frame) /\ Guarded'
    BY <1>0, <1>1, <2>1, GoToKeeps
  <2>3. alarm' \in BOOLEAN /\ Warning' \in BOOLEAN
    BY <1>0, <1>9 DEF More, GoOn, AnyKey, TypeOK
  <2>4. UNCHANGED << mask, Oldmask, pending, haffo, Change_msg, half, box, shown, dropped, sent, owed, texts >>
    BY <1>9 DEF More, GoOn, mail, signals
  <2>5. TypeOK'
    BY <1>0, <2>2, <2>3, <2>4 DEF TypeOK
  <2> QED BY <2>2, <2>5 DEF IInv
<1>10. CASE Stop
  <2> DEFINE f == [Top EXCEPT !.pc = "show", !.read = <<>>]
  <2>0. <<>> \in Seq(1 .. MaxMsgs)
    BY EmptySeq
  <2>1. f \in Frame /\ f.saved = Top.saved /\ f.pc \notin HasMsgFile \cup HasLock
    BY <1>0, <2>0 DEF Frame, Labels, HasMsgFile, HasLock
  <2>2. stack' = [stack EXCEPT ![Depth] = f]
    BY <1>0, <1>10, Running DEF Stop, Top
  <2> HIDE DEF f
  <2>3. stack' \in Seq(Frame) /\ Guarded'
    BY <1>0, <2>1, <2>2, TopGoesOn
  <2>4. dropped' \in Seq(1 .. MaxMsgs) /\ alarm' \in BOOLEAN /\ Warning' \in BOOLEAN
    BY <1>0, <1>10, ConcatProperties DEF Stop, AnyKey
  <2>5. TypeOK'
    BY <1>0, <1>10, <2>3, <2>4 DEF Stop, TypeOK, signals
  <2> QED BY <2>3, <2>5 DEF IInv
<1> QED BY <1>2, <1>3, <1>4, <1>5, <1>6, <1>7, <1>8, <1>9, <1>10

(* The prompt, the commands and the input line.                            *)
LEMMA ProgramKeeps ==
  ASSUME IInv, \/ BeginWrite \/ EndWrite \/ HaffoEnds \/ Input \/ CommandEnds \/ Passwd \/ Key
  PROVE  IInv'
<1>0. /\ TypeOK /\ Guarded /\ ~Ended /\ mask \in SUBSET Sigs /\ Oldmask \in SUBSET Sigs
      /\ Notices \subseteq Sigs
      /\ Top \in Frame /\ Top.pc \in {"prompt", "command", "half", "wait", "typing"}
  BY Running DEF IInv, BeginWrite, EndWrite, HaffoEnds, Input, CommandEnds, Passwd, Key, At,
                 TypeOK, Sigs
<1>1. ASSUME NEW f \in Frame, stack' = [stack EXCEPT ![Depth] = f], f.saved = Top.saved,
             f.pc \notin HasMsgFile \cup HasLock, mask' \in SUBSET Sigs, Oldmask' \in SUBSET Sigs,
             haffo' \in BOOLEAN, alarm' \in BOOLEAN, Warning' \in BOOLEAN, half' \in BOOLEAN,
             UNCHANGED << pending, Change_msg, box, shown, dropped, sent, owed, texts >>
      PROVE  IInv'
  <2>1. stack' \in Seq(Frame) /\ Guarded'
    BY <1>0, <1>1, TopGoesOn
  <2>2. TypeOK'
    BY <1>0, <1>1, <2>1 DEF TypeOK
  <2> QED BY <2>1, <2>2 DEF IInv
<1>2. ASSUME NEW l \in {"prompt", "wait", "return", "msg", "typing", "command"}, GoTo(l),
             mask' \in SUBSET Sigs, Oldmask' \in SUBSET Sigs,
             haffo' \in BOOLEAN, alarm' \in BOOLEAN, Warning' \in BOOLEAN, half' \in BOOLEAN,
             UNCHANGED << pending, Change_msg, box, shown, dropped, sent, owed, texts >>
      PROVE  IInv'
  <2> DEFINE f == [Top EXCEPT !.pc = l]
  <2>1. f \in Frame /\ f.saved = Top.saved /\ f.pc \notin HasMsgFile \cup HasLock
    BY <1>0, <1>2 DEF Frame, Labels, HasMsgFile, HasLock
  <2>2. stack' = [stack EXCEPT ![Depth] = f]
    BY <1>0, <1>2, Running DEF GoTo, Top
  <2> HIDE DEF f
  <2> QED BY <1>1, <1>2, <2>1, <2>2
<1>3. CASE BeginWrite
  <2> DEFINE f == [Top EXCEPT !.pc = "half", !.back = Top.pc]
  <2>1. f \in Frame /\ f.saved = Top.saved /\ f.pc \notin HasMsgFile \cup HasLock
    BY <1>0, <1>3 DEF BeginWrite, At, Frame, Labels, HasMsgFile, HasLock
  <2>2. stack' = [stack EXCEPT ![Depth] = f]
    BY <1>0, <1>3, Running DEF BeginWrite, Top
  <2> HIDE DEF f
  <2>3. mask' \in SUBSET Sigs /\ Oldmask' \in SUBSET Sigs /\ half' \in BOOLEAN
    BY <1>0, <1>3 DEF BeginWrite, Critical, Sigs
  <2> QED BY <1>0, <1>1, <1>3, <2>1, <2>2, <2>3 DEF BeginWrite, TypeOK, mail, timer
<1>4. CASE EndWrite
  <2> DEFINE f == [Top EXCEPT !.pc = Top.back, !.back = "prompt"]
  <2>1. f \in Frame /\ f.saved = Top.saved /\ f.pc \notin HasMsgFile \cup HasLock
    BY <1>0 DEF Frame, Labels, HasMsgFile, HasLock
  <2>2. stack' = [stack EXCEPT ![Depth] = f]
    BY <1>0, <1>4, Running DEF EndWrite, Top
  <2> HIDE DEF f
  <2>3. mask' \in SUBSET Sigs /\ Oldmask' \in SUBSET Sigs /\ half' \in BOOLEAN
    BY <1>0, <1>4 DEF EndWrite, NonCritical
  <2> QED BY <1>0, <1>1, <1>4, <2>1, <2>2, <2>3 DEF EndWrite, TypeOK, mail, timer
<1>5. CASE HaffoEnds \/ Passwd \/ CommandEnds
  <2>1. mask' \in SUBSET Sigs
    BY <1>0, <1>5 DEF HaffoEnds, Passwd, CommandEnds, signals
  <2>2. PICK l \in {"return", "msg"} : GoTo(l)
    BY <1>5 DEF HaffoEnds, Passwd, CommandEnds
  <2>3. UNCHANGED << Oldmask, pending, haffo, Change_msg, alarm, Warning, half, box, shown, dropped,
                     sent, owed, texts >>
    BY <1>5 DEF HaffoEnds, Passwd, CommandEnds, mail, timer, signals
  <2> QED BY <1>0, <1>2, <2>1, <2>2, <2>3 DEF TypeOK
<1>6. CASE Input \/ Key
  <2>1. haffo' \in BOOLEAN /\ Warning' \in BOOLEAN /\ alarm' \in BOOLEAN
    BY <1>0, <1>6 DEF Input, Key, TypeOK
  <2>2. PICK l \in {"wait", "typing", "command"} : GoTo(l)
    BY <1>6 DEF Input, Key
  <2>3. UNCHANGED << mask, Oldmask, pending, Change_msg, half, box, shown, dropped, sent, owed, texts >>
    BY <1>6 DEF Input, Key, mail
  <2> QED BY <1>0, <1>2, <2>1, <2>2, <2>3 DEF TypeOK
<1> QED BY <1>3, <1>4, <1>5, <1>6

LEMMA ReturnKeeps == IInv /\ HandlerReturns => IInv'
<1> SUFFICES ASSUME IInv, HandlerReturns PROVE IInv'
  OBVIOUS
<1>1. TypeOK /\ Guarded /\ ~Ended /\ ~InMain /\ Top \in Frame
  BY Running DEF IInv, HandlerReturns
<1>2. stack' \in Seq(Frame) /\ Guarded'
  BY <1>1, HandlerEnds DEF HandlerReturns, Return
<1>3. mask' \in SUBSET Sigs
  BY <1>1 DEF HandlerReturns, Return, Frame
<1>4. TypeOK'
  BY <1>1, <1>2, <1>3 DEF HandlerReturns, Return, TypeOK, mail, timer
<1> QED BY <1>2, <1>4 DEF IInv

LEMMA PostTyped ==
  ASSUME TypeOK, Post
  PROVE  sent' = sent + 1 /\ sent \in Nat /\ sent' \in 0 .. MaxMsgs /\ box' \in Seq(1 .. MaxMsgs)
<1>1. sent \in Nat /\ MaxMsgs \in Nat /\ sent <= MaxMsgs /\ box \in Seq(1 .. MaxMsgs)
  BY BoundsAssumption DEF TypeOK
<1>2. sent' = sent + 1 /\ sent' \in 1 .. MaxMsgs /\ box' = Append(box, sent')
  BY <1>1 DEF Post
<1>3. Append(box, sent') \in Seq(1 .. MaxMsgs)
  BY <1>1, <1>2, AppendProperties
<1> QED BY <1>1, <1>2, <1>3

(* The alarm and the warning that it sends.                                *)
LEMMA WarningKeeps ==
  ASSUME IInv, \/ Alarm \/ WarnOpens \/ WarnFails \/ WarnStores \/ WarnNotifies
  PROVE  IInv'
<1>0. /\ TypeOK /\ Guarded /\ ~Ended /\ pending \in SUBSET Sigs /\ mask \in SUBSET Sigs
      /\ Oldmask \in SUBSET Sigs /\ owed \in 0 .. sent /\ "MSG" \in Sigs /\ "QUIT" \in Sigs
      /\ {"warn", "store", "notify", "return"} \subseteq Labels \ HasMsgFile
  BY DEF IInv, TypeOK, Alarm, WarnOpens, WarnFails, WarnStores, WarnNotifies, At, Sigs, Notices,
         Labels, HasMsgFile
<1>1. CASE Alarm
  <2> DEFINE f == NewFrame("warn", {})
  <2>1. f \in Frame /\ f.pc = "warn" /\ f.saved = mask
    BY <1>0, EmptySeq DEF NewFrame, Frame, Labels
  <2>2. stack' = Append(stack, f)
    BY <1>1 DEF Alarm
  <2> HIDE DEF f
  <2>3. stack' \in Seq(Frame) /\ Guarded'
    BY <1>0, <1>1, <2>1, <2>2, HandlerBegins DEF Alarm, signals, HasMsgFile, HasLock
  <2>4. TypeOK'
    BY <1>0, <1>1, <2>3 DEF Alarm, TypeOK, signals, mail
  <2> QED BY <2>3, <2>4 DEF IInv
<1>2. CASE WarnOpens
  <2>1. stack' \in Seq(Frame) /\ Guarded'
    BY <1>0, <1>2, GoToKeeps DEF WarnOpens, At
  <2>2. mask' \in SUBSET Sigs /\ Oldmask' \in SUBSET Sigs
    BY <1>0, <1>2 DEF WarnOpens, Critical
  <2>3. TypeOK'
    BY <1>0, <1>2, <2>1, <2>2 DEF WarnOpens, TypeOK, timer, mail
  <2> QED BY <2>1, <2>3 DEF IInv
<1>3. CASE WarnFails
  <2>1. mask' = mask \cup {"QUIT"} /\ Oldmask' = mask
    BY <1>3 DEF WarnFails, Critical
  <2>2. stack' \in Seq(Frame) /\ Guarded'
    BY <1>0, <1>3, <2>1, GoToKeeps DEF WarnFails, At, HasLock
  <2>3. TypeOK'
    BY <1>0, <1>3, <2>1, <2>2 DEF WarnFails, TypeOK, mail
  <2> QED BY <2>2, <2>3 DEF IInv
<1>4. CASE WarnStores
  <2>1. stack' \in Seq(Frame) /\ Guarded'
    BY <1>0, <1>4, GoToKeeps DEF WarnStores, At, HasLock
  <2>2. sent' \in 0 .. MaxMsgs /\ box' \in Seq(1 .. MaxMsgs) /\ owed' \in 0 .. sent'
    <3>1. sent' = sent + 1 /\ sent \in Nat /\ sent' \in 0 .. MaxMsgs /\ box' \in Seq(1 .. MaxMsgs)
      BY <1>0, <1>4, PostTyped DEF WarnStores
    <3> QED BY <1>0, <1>4, <3>1 DEF WarnStores
  <2>3. mask' \in SUBSET Sigs /\ Oldmask' \in SUBSET Sigs
    BY <1>0, <1>4 DEF WarnStores, NonCritical
  <2>4. TypeOK'
    BY <1>0, <1>4, <2>1, <2>2, <2>3 DEF WarnStores, TypeOK, timer
  <2> QED BY <2>1, <2>4 DEF IInv
<1>5. CASE WarnNotifies
  <2>1. stack' \in Seq(Frame) /\ Guarded'
    BY <1>0, <1>5, GoToKeeps DEF WarnNotifies, At, HasLock
  <2>2. TypeOK'
    BY <1>0, <1>5, <2>1 DEF WarnNotifies, TypeOK, mail
  <2> QED BY <2>1, <2>2 DEF IInv
<1> QED BY <1>1, <1>2, <1>3, <1>4, <1>5

(* What others send, and the time limit.                                   *)
LEMMA OthersKeep ==
  ASSUME IInv, Send \/ TimeOut \/ SignalMsg \/ SignalText \/ Hangup
  PROVE  IInv'
<1>0. TypeOK /\ Guarded /\ pending \in SUBSET Sigs /\ mask \in SUBSET Sigs
      /\ sent \in Nat /\ owed \in Nat /\ texts \in Nat /\ MaxMsgs \in Nat /\ MaxTexts \in Nat
      /\ sent <= MaxMsgs /\ owed <= sent /\ texts <= MaxTexts
      /\ stack \in Seq(Frame) /\ box \in Seq(1 .. MaxMsgs)
  BY BoundsAssumption DEF IInv, TypeOK
<1>1. UNCHANGED << stack, mask, Warning >> => Guarded'
  BY <1>0 DEF Guarded, Ended, Top, Depth
<1>3. CASE Send
  <2>1. sent' = sent + 1 /\ sent' \in 0 .. MaxMsgs /\ box' \in Seq(1 .. MaxMsgs)
    BY <1>0, <1>3, PostTyped DEF Send
  <2>2. owed' \in 0 .. sent'
    BY <1>0, <1>3, <2>1 DEF Send
  <2>3. TypeOK' /\ UNCHANGED << stack, mask, Warning >>
    BY <1>0, <1>3, <2>1, <2>2 DEF Send, TypeOK, signals, timer
  <2> QED BY <1>1, <2>3 DEF IInv
<1>5. CASE TimeOut
  <2>1. stack' \in Seq(Frame) /\ Guarded'
    BY <1>5, Over DEF TimeOut, Logout
  <2>2. TypeOK'
    BY <1>0, <1>5, <2>1 DEF TimeOut, Logout, TypeOK, mail, timer
  <2> QED BY <2>1, <2>2 DEF IInv
<1>6. CASE SignalMsg
  <2>1. pending' \in SUBSET Sigs /\ owed' \in 0 .. sent
    BY <1>0, <1>6 DEF SignalMsg, Sigs, Notices
  <2>2. TypeOK' /\ UNCHANGED << stack, mask, Warning >>
    BY <1>0, <1>6, <2>1 DEF SignalMsg, TypeOK, timer
  <2> QED BY <1>1, <2>2 DEF IInv
<1>7. CASE SignalText
  <2>1. pending' \in SUBSET Sigs /\ texts' \in 0 .. MaxTexts
    BY <1>0, <1>7 DEF SignalText, Sigs, Notices
  <2>2. TypeOK' /\ UNCHANGED << stack, mask, Warning >>
    BY <1>0, <1>7, <2>1 DEF SignalText, TypeOK, mail, timer
  <2> QED BY <1>1, <2>2 DEF IInv
<1>8. CASE Hangup
  <2>1. pending' \in SUBSET Sigs
    BY <1>0, <1>8 DEF Hangup, Sigs
  <2>2. TypeOK' /\ UNCHANGED << stack, mask, Warning >>
    BY <1>0, <1>8, <2>1 DEF Hangup, TypeOK, mail, timer
  <2> QED BY <1>1, <2>2 DEF IInv
<1> QED BY <1>3, <1>5, <1>6, <1>7, <1>8

LEMMA NextKeeps == IInv /\ [Next]_vars => IInv'
<1> SUFFICES ASSUME IInv, [Next]_vars PROVE IInv'
  OBVIOUS
<1>1. CASE UNCHANGED vars
  BY <1>1 DEF vars, signals, timer, mail, IInv, TypeOK, Guarded, Ended, Top, Depth
<1>2. CASE Next
  BY <1>2, DeliverKeeps, DisplayKeeps, ProgramKeeps, ReturnKeeps, WarningKeeps, OthersKeep
     DEF Next, Program
<1> QED BY <1>1, <1>2

(* Whatever signals arrive, the handlers nest as frames, and no message    *)
(* is signalled that was not stored (send_msg of src/msg.c).               *)
THEOREM Typed == Spec => []TypeOK
<1>1. IInv => TypeOK
  BY DEF IInv
<1> QED BY InitHolds, NextKeeps, <1>1, PTL DEF Spec

(* display_msg blocks SIGNAL_NEW_MSG and SIGNAL_NEW_TEXT before it locks   *)
(* MSG_FILE, so no handler of these runs, and none waits for the lock, in  *)
(* a program that has it.  Only timeout, on SIGALRM, interrupts it then.   *)
THEOREM NeverLockedOut == Spec => []NoSelfLock
<1>1. IInv => NoSelfLock
  BY DEF IInv, Guarded, NoSelfLock
<1> QED BY InitHolds, NextKeeps, <1>1, PTL DEF Spec

-----------------------------------------------------------------------------
(* One frame at most is in a write.  While it runs SIGHUP and SIGTERM are  *)
(* blocked, and the handler that interrupts it will block them again when  *)
(* it returns.                                                             *)
Writes(i) == stack[i].pc = "half"

Covered ==
  /\ \A i, j \in 1 .. Depth : Writes(i) /\ Writes(j) => i = j
  /\ ~Ended => (half <=> \E i \in 1 .. Depth : Writes(i))
  /\ \A i \in 1 .. Depth : Writes(i) => "QUIT" \in IF i = Depth THEN mask ELSE stack[i + 1].saved

LEMMA CoveredTop ==
  ASSUME TypeOK, Covered, ~Ended, NEW f \in Frame, stack' = [stack EXCEPT ![Depth] = f],
         f.saved = Top.saved, f.pc # "half", Top.pc # "half", half' = half
  PROVE  Covered'
<1>1. Depth \in Nat \ {0} /\ DOMAIN stack = 1 .. Depth /\ Depth \in 1 .. Depth
      /\ \A i \in 1 .. Depth : stack[i] \in Frame
  BY Running
<1>2. Depth' = Depth /\ ~Ended'
  <2>1. stack' \in [1 .. Depth -> Frame]
    BY <1>1
  <2>2. stack' \in Seq(Frame) /\ Len(stack') = Depth
    BY <1>1, <2>1, IsASeq, LenProperties
  <2> QED BY <1>1, <2>2, EmptySeq DEF Depth, Ended
<1>3. stack'[Depth] = f /\ \A i \in 1 .. Depth : i # Depth => stack'[i] = stack[i]
  BY <1>1
<1>4. \A i \in 1 .. Depth : Writes(i)' <=> Writes(i)
  BY <1>1, <1>2, <1>3 DEF Writes, Top
<1>5. \A i \in 1 .. Depth : Writes(i) => i # Depth /\ i + 1 \in 1 .. Depth
  BY <1>1 DEF Writes, Top
<1>6. \A i \in 1 .. Depth : stack'[i].saved = stack[i].saved
  BY <1>3 DEF Top
<1> QED BY <1>1, <1>2, <1>4, <1>5, <1>6 DEF Covered

(* A handler takes the mask along.                                         *)
LEMMA CoveredPush ==
  ASSUME TypeOK, Covered, ~Ended, NEW f \in Frame, stack' = Append(stack, f),
         f.saved = mask, f.pc # "half", half' = half
  PROVE  Covered'
<1>1. Depth \in Nat \ {0} /\ DOMAIN stack = 1 .. Depth /\ stack \in Seq(Frame)
  BY Running DEF TypeOK
<1>2. /\ stack' \in Seq(Frame) /\ Len(stack') = Depth + 1
      /\ \A i \in 1 .. Depth : stack'[i] = stack[i]
      /\ stack'[Depth + 1] = f
  BY <1>1, AppendProperties DEF Depth
<1>3. Depth' = Depth + 1 /\ ~Ended'
  BY <1>1, <1>2, EmptySeq DEF Depth, Ended
<1>4. \A i \in 1 .. Depth' : i \in 1 .. Depth \/ i = Depth'
  BY <1>1, <1>3
<1>5. /\ \A i \in 1 .. Depth' : i = Depth' => ~Writes(i)'
      /\ \A i \in 1 .. Depth : Writes(i)' <=> Writes(i)
  <2>1. stack'[Depth + 1].pc # "half"
    BY <1>2
  <2>2. stack'[Depth'].pc # "half"
    BY <1>3, <2>1
  <2> QED BY <1>2, <2>2 DEF Writes
<1>6. \A i \in 1 .. Depth : i # Depth' /\ i \in 1 .. Depth' /\ i + 1 \in 1 .. Depth'
                            /\ (i # Depth => i + 1 \in 1 .. Depth)
  BY <1>1, <1>3
<1>7. \A i \in 1 .. Depth : Writes(i) => "QUIT" \in stack'[i + 1].saved
  BY <1>1, <1>2, <1>3, <1>6 DEF Covered
<1>8. \A i \in 1 .. Depth' : Writes(i)' => i \in 1 .. Depth /\ i # Depth' /\ Writes(i)
  BY <1>4, <1>5
<1>9. \A i, j \in 1 .. Depth' : Writes(i)' /\ Writes(j)' => i = j
  BY <1>8 DEF Covered
<1>10. half' <=> \E i \in 1 .. Depth' : Writes(i)'
  BY <1>5, <1>6, <1>8 DEF Covered
<1>11. \A i \in 1 .. Depth' : Writes(i)' => "QUIT" \in IF i = Depth' THEN mask' ELSE stack'[i + 1].saved
  BY <1>7, <1>8
<1> QED BY <1>9, <1>10, <1>11 DEF Covered

(* And its return gives it back.                                           *)
LEMMA CoveredPop ==
  ASSUME TypeOK, Covered, ~Ended, ~InMain, stack' = Front(stack), Top.pc # "half",
         mask' = Top.saved, half' = half
  PROVE  Covered'
<1>1. Depth \in Nat \ {0, 1} /\ DOMAIN stack = 1 .. Depth /\ stack \in Seq(Frame) /\ stack # <<>>
  BY Running DEF TypeOK, InMain, Ended
<1>2. /\ stack' \in Seq(Frame) /\ Len(stack') = Depth - 1
      /\ \A i \in 1 .. Depth - 1 : stack'[i] = stack[i]
  <2>1. \A i \in 1 .. Depth - 1 : stack[i] \in Frame
    BY <1>1, Running
  <2> QED BY <1>1, <2>1, SubSeqProperties DEF Front, Depth
<1>3. Depth' = Depth - 1 /\ ~Ended' /\ ~Ended
  BY <1>1, <1>2, EmptySeq DEF Depth, Ended
<1>4. \A i \in 1 .. Depth' : /\ i \in 1 .. Depth /\ i # Depth /\ (Writes(i)' <=> Writes(i))
                             /\ (i # Depth' => i + 1 \in 1 .. Depth') /\ (i = Depth' => i + 1 = Depth)
  BY <1>1, <1>2, <1>3 DEF Writes
<1>5. \A i \in 1 .. Depth : Writes(i) => i \in 1 .. Depth'
  BY <1>1, <1>3 DEF Writes, Top
<1>6. \A i \in 1 .. Depth' : stack'[i] = stack[i]
  BY <1>2, <1>3
<1>7. \A i \in 1 .. Depth' : Writes(i)' => "QUIT" \in IF i = Depth' THEN mask' ELSE stack'[i + 1].saved
  BY <1>4, <1>6 DEF Covered, Top
<1> QED BY <1>3, <1>4, <1>5, <1>7 DEF Covered

LEMMA CoveredGoTo ==
  ASSUME TypeOK, Covered, ~Ended, NEW l \in Labels \ {"half"}, GoTo(l), Top.pc # "half", half' = half
  PROVE  Covered'
<1> DEFINE f == [Top EXCEPT !.pc = l]
<1>1. f \in Frame /\ f.pc = l /\ f.saved = Top.saved
  BY Running DEF Frame
<1>2. stack' = [stack EXCEPT ![Depth] = f]
  BY Running DEF GoTo, Top
<1> HIDE DEF f
<1> QED BY <1>1, <1>2, CoveredTop

LEMMA CoveredStays ==
  ASSUME Covered, UNCHANGED << stack, mask, half >>
  PROVE  Covered'
BY DEF Covered, Writes, Depth, Ended

LEMMA CoveredOver ==
  ASSUME stack' = <<>>
  PROVE  Covered'
<1>1. Depth' = 0 /\ Ended'
  BY EmptySeq DEF Depth, Ended
<1> QED BY <1>1 DEF Covered

-----------------------------------------------------------------------------
LEMMA CoveredFirst == Init => Covered
<1> SUFFICES ASSUME Init PROVE Covered
  OBVIOUS
<1> DEFINE f == [pc |-> "msg", back |-> "prompt", read |-> <<>>,
                 old |-> {}, found |-> {}, saved |-> {}]
<1>1. f.pc = "msg" /\ stack = << f >> /\ ~half
  BY DEF Init
<1> HIDE DEF f
<1>2. Depth = 1 /\ stack[1] = f
  BY <1>1 DEF Depth
<1> QED BY <1>1, <1>2 DEF Covered, Writes

LEMMA CoveredDeliver ==
  ASSUME IInv, Covered, Deliver
  PROVE  Covered'
<1>0. TypeOK /\ ~Ended /\ mask \in SUBSET Sigs
  BY DEF IInv, Deliver, TypeOK
<1>1. CASE Quit
  BY <1>1, CoveredOver DEF Quit, Logout
<1>2. ASSUME NEW s \in Notices, Haffo(s) \/ Note(s)
      PROVE  Covered'
  <2>1. s \in Sigs /\ half' = half
    BY <1>2 DEF Haffo, Note, Sigs
  <2>2. PICK l \in {"msg", "return"}, m \in {{}, mask \cup {s}} : stack' = Append(stack, NewFrame(l, m))
    BY <1>2 DEF Haffo, Note
  <2> DEFINE f == NewFrame(l, m)
  <2>3. f \in Frame /\ f.pc # "half" /\ f.saved = mask
    BY <1>0, <2>1, <2>2 DEF NewFrame, Frame, Labels
  <2> HIDE DEF f
  <2>4. stack' = Append(stack, f)
    BY <2>2 DEF f
  <2> QED BY <1>0, <2>1, <2>3, <2>4, CoveredPush
<1> QED BY <1>1, <1>2 DEF Deliver

LEMMA CoveredDisplay ==
  ASSUME IInv, Covered, \/ DisplayMsg \/ ReadMsgs \/ DisplayFails \/ TakeMsgs \/ FreeMsgs \/ ShowMsg
                        \/ ClearMsgs \/ More \/ GoOn \/ Stop
  PROVE  Covered'
<1>0. /\ TypeOK /\ ~Ended /\ Top \in Frame /\ box \in Seq(1 .. MaxMsgs) /\ mask \in SUBSET Sigs
      /\ Top.pc \in {"msg", "open", "take", "free", "show", "more"}
  BY Running DEF IInv, DisplayMsg, ReadMsgs, DisplayFails, TakeMsgs, FreeMsgs, ShowMsg, ClearMsgs,
                 More, GoOn, Stop, At, TypeOK
<1>1. half' = half
  BY DEF DisplayMsg, ReadMsgs, DisplayFails, TakeMsgs, FreeMsgs, ShowMsg, ClearMsgs, More, GoOn, Stop
<1>2. CASE \E l \in {"free", "show", "more", "prompt"} : GoTo(l)
  BY <1>0, <1>1, <1>2, CoveredGoTo DEF Labels
<1>3. ASSUME NEW f \in Frame, stack' = [stack EXCEPT ![Depth] = f], f.saved = Top.saved, f.pc # "half"
      PROVE  Covered'
  BY <1>0, <1>1, <1>3, CoveredTop
<1>4. CASE DisplayMsg /\ Change_msg
  <2> DEFINE f == [Top EXCEPT !.pc = "open", !.old = mask]
  <2>1. f \in Frame /\ f.saved = Top.saved /\ f.pc # "half"
    BY <1>0 DEF Frame, Labels
  <2>2. stack' = [stack EXCEPT ![Depth] = f]
    BY <1>0, <1>4, Running DEF DisplayMsg, Top
  <2> HIDE DEF f
  <2> QED BY <1>3, <2>1, <2>2
<1>5. CASE ReadMsgs
  <2> DEFINE f == [Top EXCEPT !.pc = "take", !.read = box]
  <2>1. f \in Frame /\ f.saved = Top.saved /\ f.pc # "half"
    BY <1>0 DEF Frame, Labels
  <2>2. stack' = [stack EXCEPT ![Depth] = f]
    BY <1>0, <1>5, Running DEF ReadMsgs, Top
  <2> HIDE DEF f
  <2> QED BY <1>3, <2>1, <2>2
<1>6. CASE ShowMsg
  <2> DEFINE f == [Top EXCEPT !.read = Tail(Top.read)]
  <2>1. Top.read \in Seq(1 .. MaxMsgs) /\ Tail(Top.read) \in Seq(1 .. MaxMsgs)
    BY <1>0, <1>6, HeadTailProperties DEF ShowMsg, Frame
  <2>2. f \in Frame /\ f.saved = Top.saved /\ f.pc # "half"
    BY <1>0, <2>1 DEF Frame, Labels
  <2>3. stack' = [stack EXCEPT ![Depth] = f]
    BY <1>0, <1>6, Running DEF ShowMsg, Top
  <2> HIDE DEF f
  <2> QED BY <1>3, <2>2, <2>3
<1>7. CASE (DisplayMsg /\ ~Change_msg) \/ TakeMsgs \/ FreeMsgs \/ More \/ GoOn
  BY <1>2, <1>7 DEF DisplayMsg, TakeMsgs, FreeMsgs, More, GoOn
<1>8. CASE DisplayFails \/ ClearMsgs
  <2> DEFINE f == [Top EXCEPT !.pc = "prompt", !.old = {}]
  <2>1. f \in Frame /\ f.saved = Top.saved /\ f.pc # "half"
    BY <1>0 DEF Frame, Labels
  <2>2. stack' = [stack EXCEPT ![Depth] = f]
    BY <1>0, <1>8, Running DEF DisplayFails, ClearMsgs, Top
  <2> HIDE DEF f
  <2> QED BY <1>3, <2>1, <2>2
<1>9. CASE Stop
  <2> DEFINE f == [Top EXCEPT !.pc = "show", !.read = <<>>]
  <2>1. <<>> \in Seq(1 .. MaxMsgs)
    BY EmptySeq
  <2>2. f \in Frame /\ f.saved = Top.saved /\ f.pc # "half"
    BY <1>0, <2>1 DEF Frame, Labels
  <2>3. stack' = [stack EXCEPT ![Depth] = f]
    BY <1>0, <1>9, Running DEF Stop, Top
  <2> HIDE DEF f
  <2> QED BY <1>3, <2>2, <2>3
<1> QED BY <1>4, <1>5, <1>6, <1>7, <1>8, <1>9

(* The write itself.                                                       *)
LEMMA CoveredWrite ==
  ASSUME IInv, Covered, BeginWrite \/ EndWrite
  PROVE  Covered'
<1>1. /\ TypeOK /\ ~Ended /\ Depth \in Nat \ {0} /\ DOMAIN stack = 1 .. Depth /\ Depth \in 1 .. Depth
      /\ Top \in Frame /\ \A i \in 1 .. Depth : stack[i] \in Frame
  BY Running DEF IInv, BeginWrite, EndWrite, At
<1>2. ASSUME NEW f \in Frame, stack' = [stack EXCEPT ![Depth] = f]
      PROVE  /\ Depth' = Depth /\ ~Ended' /\ stack'[Depth] = f
             /\ \A i \in 1 .. Depth : i # Depth => stack'[i] = stack[i]
  <2>1. stack' \in [1 .. Depth -> Frame]
    BY <1>1, <1>2
  <2>2. stack' \in Seq(Frame) /\ Len(stack') = Depth
    BY <1>1, <2>1, IsASeq, LenProperties
  <2> QED BY <1>1, <1>2, <2>2, EmptySeq DEF Depth, Ended
<1>3. CASE BeginWrite
  <2> DEFINE f == [Top EXCEPT !.pc = "half", !.back = Top.pc]
  <2>1. f \in Frame /\ f.pc = "half"
    BY <1>1, <1>3 DEF BeginWrite, At, Frame, Labels
  <2>2. stack' = [stack EXCEPT ![Depth] = f] /\ ~half /\ half' /\ "QUIT" \in mask'
    BY <1>1, <1>3 DEF BeginWrite, Critical, Top
  <2> HIDE DEF f
  <2>3. \A i \in 1 .. Depth : ~Writes(i)
    BY <1>1, <2>2 DEF Covered
  <2>4. \A i \in 1 .. Depth : Writes(i)' <=> i = Depth
    BY <1>2, <2>1, <2>2, <2>3 DEF Writes
  <2> QED BY <1>1, <1>2, <2>1, <2>2, <2>4 DEF Covered
<1>4. CASE EndWrite
  <2> DEFINE f == [Top EXCEPT !.pc = Top.back, !.back = "prompt"]
  <2>1. f \in Frame /\ f.pc # "half"
    BY <1>1 DEF Frame, Labels
  <2>2. stack' = [stack EXCEPT ![Depth] = f] /\ ~half' /\ Top.pc = "half"
    BY <1>1, <1>4 DEF EndWrite, At, Top
  <2> HIDE DEF f
  <2>3. \A i \in 1 .. Depth : Writes(i) => i = Depth
    BY <1>1, <2>2 DEF Covered, Writes, Top
  <2>4. \A i \in 1 .. Depth : ~Writes(i)'
    BY <1>2, <2>1, <2>2, <2>3 DEF Writes
  <2> QED BY <1>1, <1>2, <2>1, <2>2, <2>4 DEF Covered
<1> QED BY <1>3, <1>4

LEMMA CoveredProgram ==
  ASSUME IInv, Covered, \/ HaffoEnds \/ Input \/ CommandEnds \/ Passwd \/ Key
                        \/ WarnOpens \/ WarnFails \/ WarnStores \/ WarnNotifies
  PROVE  Covered'
<1>1. /\ TypeOK /\ ~Ended /\ half' = half
      /\ Top.pc \in {"prompt", "command", "wait", "typing", "warn", "store", "notify"}
  BY DEF IInv, HaffoEnds, Input, CommandEnds, Passwd, Key, WarnOpens, WarnFails, WarnStores,
         WarnNotifies, At, mail
<1>2. PICK l \in {"return", "wait", "msg", "typing", "command", "store", "notify"} : GoTo(l)
  BY DEF HaffoEnds, Input, CommandEnds, Passwd, Key, WarnOpens, WarnFails, WarnStores, WarnNotifies
<1> QED BY <1>1, <1>2, CoveredGoTo DEF Labels

LEMMA CoveredAlarm ==
  ASSUME IInv, Covered, Alarm
  PROVE  Covered'
<1> DEFINE f == NewFrame("warn", {})
<1>1. f \in Frame /\ f.pc # "half" /\ f.saved = mask
  BY EmptySeq DEF NewFrame, Frame, Labels, IInv, TypeOK
<1>2. stack' = Append(stack, f) /\ half' = half
  BY DEF Alarm
<1> HIDE DEF f
<1> QED BY <1>1, <1>2, CoveredPush DEF IInv, Alarm

LEMMA CoveredKeeps == ASSUME IInv, Covered, [Next]_vars PROVE Covered'
<1>1. CASE UNCHANGED vars
  BY <1>1, CoveredStays DEF vars, signals
<1>2. CASE HandlerReturns
  <2>1. TypeOK /\ ~Ended /\ ~InMain /\ stack' = Front(stack) /\ mask' = Top.saved /\ half' = half
    BY <1>2 DEF IInv, HandlerReturns, Return
  <2>2. Top.pc # "half"
    BY <1>2 DEF HandlerReturns, Return
  <2> QED BY <2>1, <2>2, CoveredPop
<1>3. CASE Send \/ SignalMsg \/ SignalText \/ Hangup
  BY <1>3, CoveredStays DEF Send, SignalMsg, SignalText, Hangup, signals
<1>4. CASE TimeOut
  BY <1>4, CoveredOver DEF TimeOut, Logout
<1>5. CASE Deliver
  BY <1>5, CoveredDeliver
<1>6. CASE \/ DisplayMsg \/ ReadMsgs \/ DisplayFails \/ TakeMsgs \/ FreeMsgs \/ ShowMsg \/ ClearMsgs
           \/ More \/ GoOn \/ Stop
  BY <1>6, CoveredDisplay
<1>7. CASE BeginWrite \/ EndWrite
  BY <1>7, CoveredWrite
<1>8. CASE \/ HaffoEnds \/ Input \/ CommandEnds \/ Passwd \/ Key
           \/ WarnOpens \/ WarnFails \/ WarnStores \/ WarnNotifies
  BY <1>8, CoveredProgram
<1>9. CASE Alarm
  BY <1>9, CoveredAlarm
<1> QED BY <1>1, <1>2, <1>3, <1>4, <1>5, <1>6, <1>7, <1>8, <1>9 DEF Next, Program

-----------------------------------------------------------------------------
(* The alarm is set while the main program waits for a key, and no handler *)
(* that does not return at once runs on top of anything else.              *)
Waiting == {"wait", "typing", "more"}

Waits ==
  ~Ended =>
    /\ stack[1].pc \notin {"warn", "store", "notify"}
    /\ haffo => stack[1].pc = "wait"
    /\ alarm => stack[1].pc \in Waiting
    /\ \A i \in 2 .. Depth : /\ stack[i].pc \notin {"wait", "typing", "command"}
                             /\ stack[i].back = "prompt"
                             /\ stack[i].pc # "return" => stack[1].pc \in Waiting

LEMMA WaitsTop ==
  ASSUME TypeOK, Waits, ~Ended, NEW f \in Frame, stack' = [stack EXCEPT ![Depth] = f],
         Depth = 1 => /\ (haffo' => f.pc = "wait") /\ (alarm' => f.pc \in Waiting)
                      /\ f.pc \notin {"warn", "store", "notify"},
         Depth # 1 => /\ haffo' = haffo /\ Top.pc # "return" /\ f.back = "prompt"
                      /\ f.pc \notin {"wait", "typing", "command"}
  PROVE  Waits'
<1>1. /\ Depth \in Nat \ {0} /\ DOMAIN stack = 1 .. Depth /\ Depth \in 1 .. Depth
      /\ \A i \in 1 .. Depth : stack[i] \in Frame
  BY Running
<1>2. Depth' = Depth
  <2>1. stack' \in [1 .. Depth -> Frame]
    BY <1>1
  <2>2. Len(stack') = Depth
    BY <1>1, <2>1, IsASeq, LenProperties
  <2> QED BY <2>2 DEF Depth
<1>3. stack'[Depth] = f /\ \A i \in 1 .. Depth : i # Depth => stack'[i] = stack[i]
  BY <1>1
<1>4. CASE Depth = 1
  BY <1>2, <1>3, <1>4 DEF Waits
<1>5. CASE Depth # 1
  <2>1. 1 \in 1 .. Depth /\ Depth \in 2 .. Depth /\ \A i \in 2 .. Depth : i \in 1 .. Depth
    BY <1>1, <1>5
  <2>2. stack'[1] = stack[1] /\ stack[1].pc \in Waiting
    BY <1>3, <1>5, <2>1 DEF Waits, Top
  <2> QED BY <1>2, <1>3, <1>5, <2>1, <2>2 DEF Waits
<1> QED BY <1>4, <1>5

LEMMA WaitsPush ==
  ASSUME TypeOK, Waits, ~Ended, NEW f \in Frame, stack' = Append(stack, f), haffo' = haffo,
         f.back = "prompt", f.pc \notin {"wait", "typing", "command"},
         f.pc # "return" => haffo \/ alarm, alarm' => alarm
  PROVE  Waits'
<1>1. Depth \in Nat \ {0} /\ stack \in Seq(Frame) /\ 1 \in 1 .. Depth
  BY Running DEF TypeOK
<1>2. /\ Depth' = Depth + 1 /\ stack'[Depth + 1] = f
      /\ \A i \in 1 .. Depth : stack'[i] = stack[i]
  BY <1>1, AppendProperties DEF Depth
<1>3. \A i \in 2 .. Depth + 1 : (i \in 2 .. Depth /\ i \in 1 .. Depth) \/ i = Depth + 1
  BY <1>1
<1> QED BY <1>1, <1>2, <1>3 DEF Waits, Waiting

LEMMA WaitsPop ==
  ASSUME TypeOK, Waits, ~Ended, ~InMain, stack' = Front(stack), UNCHANGED << haffo, alarm >>
  PROVE  Waits'
<1>1. Depth \in Nat \ {0, 1} /\ DOMAIN stack = 1 .. Depth /\ stack \in Seq(Frame) /\ stack # <<>>
  BY Running DEF TypeOK, InMain, Ended
<1>2. Depth' = Depth - 1 /\ \A i \in 1 .. Depth - 1 : stack'[i] = stack[i]
  <2>1. \A i \in 1 .. Depth - 1 : stack[i] \in Frame
    BY <1>1, Running
  <2> QED BY <1>1, <2>1, SubSeqProperties DEF Front, Depth
<1>3. 1 \in 1 .. Depth - 1 /\ \A i \in 2 .. Depth - 1 : i \in 1 .. Depth - 1 /\ i \in 2 .. Depth
  BY <1>1
<1> QED BY <1>2, <1>3 DEF Waits

LEMMA WaitsStays ==
  ASSUME Waits, UNCHANGED << stack, haffo, alarm >>
  PROVE  Waits'
BY DEF Waits, Depth, Ended

LEMMA WaitsGoTo ==
  ASSUME TypeOK, Waits, ~Ended, NEW l \in Labels, GoTo(l),
         Depth = 1 => /\ (haffo' => l = "wait") /\ (alarm' => l \in Waiting)
                      /\ l \notin {"warn", "store", "notify"},
         Depth # 1 => haffo' = haffo /\ Top.pc # "return" /\ l \notin {"wait", "typing", "command"}
  PROVE  Waits'
<1> DEFINE f == [Top EXCEPT !.pc = l]
<1>1. f \in Frame /\ f.pc = l /\ f.back = Top.back
  BY Running DEF Frame
<1>2. stack' = [stack EXCEPT ![Depth] = f]
  BY Running DEF GoTo, Top
<1>3. Depth # 1 => Top.back = "prompt"
  <2>1. Depth \in Nat \ {0}
    BY Running
  <2>2. Depth # 1 => Depth \in 2 .. Depth
    BY <2>1
  <2> QED BY <2>2 DEF Waits, Top
<1> HIDE DEF f
<1> QED BY <1>1, <1>2, <1>3, WaitsTop

LEMMA WaitsFirst == Init => Waits
<1> SUFFICES ASSUME Init PROVE Waits
  OBVIOUS
<1>1. Depth = 1 /\ ~haffo /\ ~alarm /\ stack[1].pc = "msg"
  BY DEF Init, Depth
<1> QED BY <1>1 DEF Waits

(* What the top frame may do in a handler, and in the main program.        *)
LEMMA WaitsProgram ==
  ASSUME IInv, Waits,
         \/ DisplayMsg \/ ReadMsgs \/ DisplayFails \/ TakeMsgs \/ FreeMsgs \/ ShowMsg \/ ClearMsgs
         \/ More \/ GoOn \/ Stop \/ BeginWrite \/ EndWrite \/ HaffoEnds \/ CommandEnds \/ Passwd
         \/ WarnOpens \/ WarnFails \/ WarnStores \/ WarnNotifies
  PROVE  Waits'
<1>0. /\ TypeOK /\ ~Ended /\ Top \in Frame /\ mask \in SUBSET Sigs /\ box \in Seq(1 .. MaxMsgs)
      /\ Top.read \in Seq(1 .. MaxMsgs) /\ haffo' = haffo
      /\ Top.pc \in {"msg", "open", "take", "free", "show", "more", "prompt", "command", "half",
                     "warn", "store", "notify"}
  BY Running DEF IInv, TypeOK, Frame, At, signals, DisplayMsg, ReadMsgs, DisplayFails, TakeMsgs,
     FreeMsgs, ShowMsg, ClearMsgs, More, GoOn, Stop, BeginWrite, EndWrite, HaffoEnds, CommandEnds,
     Passwd, WarnOpens, WarnFails, WarnStores, WarnNotifies
<1>1. Depth \in Nat \ {0} /\ Depth \in 1 .. Depth /\ (Depth # 1 => Depth \in 2 .. Depth)
  BY <1>0, Running
<1>2. Depth # 1 => Top.back = "prompt" /\ Top.pc # "command"
  BY <1>0, <1>1 DEF Waits, Top
<1>3. Depth = 1 => ~haffo' /\ (Top.pc # "more" => ~alarm) /\ Top.pc \notin {"warn", "store", "notify"}
  BY <1>0, <1>1 DEF Waits, Waiting, Top
<1>4. ASSUME NEW l \in {"prompt", "free", "show", "more", "return", "msg", "store", "notify"}, GoTo(l),
             alarm' => Depth # 1 \/ l = "more", l \in {"store", "notify"} => Depth # 1
      PROVE  Waits'
  BY <1>0, <1>3, <1>4, WaitsGoTo DEF Labels, Waiting
<1>5. ASSUME NEW f \in Frame, stack' = [stack EXCEPT ![Depth] = f], alarm' => Depth # 1,
             f.pc \notin {"wait", "typing", "warn", "store", "notify"}, f.back = Top.back \/ f.back = "prompt" \/ f.pc = "half",
             f.pc = "command" => Depth = 1, f.pc = "half" => Depth = 1 \/ f.back = "prompt"
      PROVE  Waits'
  BY <1>0, <1>2, <1>3, <1>5, WaitsTop
<1>6. CASE \/ (DisplayMsg /\ ~Change_msg) \/ TakeMsgs \/ FreeMsgs \/ More \/ GoOn \/ HaffoEnds
           \/ CommandEnds \/ Passwd \/ WarnOpens \/ WarnStores
  <2>1. PICK l \in {"prompt", "free", "show", "more", "return", "msg", "store", "notify"} :
           /\ GoTo(l) /\ (alarm' => alarm \/ l = "more") /\ (Top.pc = "more" => ~alarm')
           /\ (l \in {"store", "notify"} => Top.pc \in {"warn", "store"})
    BY <1>6 DEF DisplayMsg, TakeMsgs, FreeMsgs, More, GoOn, HaffoEnds, CommandEnds, Passwd,
                WarnOpens, WarnStores, AnyKey, timer, At
  <2> QED BY <1>3, <1>4, <2>1
<1>7. CASE WarnFails \/ WarnNotifies
  <2>1. GoTo("return") /\ Top.pc \in {"warn", "notify"}
    BY <1>7 DEF WarnFails, WarnNotifies, At
  <2>2. Depth # 1
    BY <1>3, <2>1
  <2> QED BY <1>4, <2>1, <2>2
<1>8. CASE DisplayMsg /\ Change_msg
  <2> DEFINE f == [Top EXCEPT !.pc = "open", !.old = mask]
  <2>1. f \in Frame /\ f.pc = "open" /\ f.back = Top.back
    BY <1>0 DEF Frame, Labels
  <2>2. stack' = [stack EXCEPT ![Depth] = f] /\ alarm' = alarm /\ Top.pc # "more"
    BY <1>0, <1>8, Running DEF DisplayMsg, Top, timer, At
  <2> HIDE DEF f
  <2> QED BY <1>3, <1>5, <2>1, <2>2
<1>9. CASE ReadMsgs
  <2> DEFINE f == [Top EXCEPT !.pc = "take", !.read = box]
  <2>1. f \in Frame /\ f.pc = "take" /\ f.back = Top.back
    BY <1>0 DEF Frame, Labels
  <2>2. stack' = [stack EXCEPT ![Depth] = f] /\ alarm' = alarm /\ Top.pc # "more"
    BY <1>0, <1>9, Running DEF ReadMsgs, Top, timer, At
  <2> HIDE DEF f
  <2> QED BY <1>3, <1>5, <2>1, <2>2
<1>10. CASE ShowMsg
  <2> DEFINE f == [Top EXCEPT !.read = Tail(Top.read)]
  <2>1. Tail(Top.read) \in Seq(1 .. MaxMsgs)
    BY <1>0, <1>10, HeadTailProperties DEF ShowMsg
  <2>2. f \in Frame /\ f.pc = "show" /\ f.back = Top.back
    BY <1>0, <1>10, <2>1 DEF Frame, Labels, ShowMsg, At
  <2>3. stack' = [stack EXCEPT ![Depth] = f] /\ alarm' = alarm /\ Top.pc # "more"
    BY <1>0, <1>10, Running DEF ShowMsg, Top, timer, At
  <2> HIDE DEF f
  <2> QED BY <1>3, <1>5, <2>2, <2>3
<1>11. CASE DisplayFails \/ ClearMsgs
  <2> DEFINE f == [Top EXCEPT !.pc = "prompt", !.old = {}]
  <2>1. f \in Frame /\ f.pc = "prompt" /\ f.back = Top.back
    BY <1>0 DEF Frame, Labels
  <2>2. stack' = [stack EXCEPT ![Depth] = f] /\ alarm' = alarm /\ Top.pc # "more"
    BY <1>0, <1>11, Running DEF DisplayFails, ClearMsgs, Top, timer, At
  <2> HIDE DEF f
  <2> QED BY <1>3, <1>5, <2>1, <2>2
<1>12. CASE Stop
  <2> DEFINE f == [Top EXCEPT !.pc = "show", !.read = <<>>]
  <2>0. <<>> \in Seq(1 .. MaxMsgs)
    BY EmptySeq
  <2>1. f \in Frame /\ f.pc = "show" /\ f.back = Top.back
    BY <1>0, <2>0 DEF Frame, Labels
  <2>2. stack' = [stack EXCEPT ![Depth] = f] /\ ~alarm'
    BY <1>0, <1>12, Running DEF Stop, Top, AnyKey
  <2> HIDE DEF f
  <2> QED BY <1>5, <2>1, <2>2
<1>13. CASE BeginWrite
  <2> DEFINE f == [Top EXCEPT !.pc = "half", !.back = Top.pc]
  <2>1. f \in Frame /\ f.pc = "half" /\ f.back = Top.pc
    BY <1>0, <1>13 DEF Frame, Labels, BeginWrite, At
  <2>2. /\ stack' = [stack EXCEPT ![Depth] = f] /\ alarm' = alarm /\ Top.pc # "more"
        /\ Top.pc \in {"prompt", "command"}
    BY <1>0, <1>13, Running DEF BeginWrite, Top, timer, At
  <2> HIDE DEF f
  <2> QED BY <1>2, <1>3, <1>5, <2>1, <2>2
<1>14. CASE EndWrite
  <2> DEFINE f == [Top EXCEPT !.pc = Top.back, !.back = "prompt"]
  <2>1. f \in Frame /\ f.pc = Top.back /\ f.back = "prompt" /\ f.pc \in {"prompt", "command"}
    BY <1>0 DEF Frame, Labels
  <2>2. stack' = [stack EXCEPT ![Depth] = f] /\ alarm' = alarm /\ Top.pc # "more"
    BY <1>0, <1>14, Running DEF EndWrite, Top, timer, At
  <2> HIDE DEF f
  <2> QED BY <1>2, <1>3, <1>5, <2>1, <2>2
<1> QED BY <1>6, <1>7, <1>8, <1>9, <1>10, <1>11, <1>12, <1>13, <1>14

LEMMA WaitsKeeps == ASSUME IInv, Waits, [Next]_vars PROVE Waits'
<1>0. TypeOK /\ mask \in SUBSET Sigs
  BY DEF IInv, TypeOK
<1>1. CASE UNCHANGED vars \/ Send \/ SignalMsg \/ SignalText \/ Hangup
  BY <1>1, WaitsStays DEF vars, signals, timer, Send, SignalMsg, SignalText, Hangup
<1>2. CASE HandlerReturns
  BY <1>0, <1>2, WaitsPop DEF HandlerReturns, Return, timer
<1>3. CASE Quit \/ TimeOut
  BY <1>3 DEF Quit, TimeOut, Logout, Waits, Ended
<1>4. CASE Deliver /\ ~Quit
  <2>1. PICK s \in Notices : Haffo(s) \/ Note(s)
    BY <1>4 DEF Deliver
  <2>2. PICK l \in {"msg", "return"}, m \in {{}, mask \cup {s}} : stack' = Append(stack, NewFrame(l, m))
                                                               /\ (l = "msg" => haffo)
    BY <2>1 DEF Haffo, Note
  <2> DEFINE f == NewFrame(l, m)
  <2>3. f \in Frame /\ f.pc = l /\ f.back = "prompt" /\ s \in Sigs
    BY <1>0, <2>1, <2>2 DEF NewFrame, Frame, Labels, Sigs
  <2>4. stack' = Append(stack, f)
    BY <2>2
  <2> HIDE DEF f
  <2>5. haffo' = haffo /\ alarm' = alarm
    BY <2>1 DEF Haffo, Note, timer
  <2> QED BY <1>0, <1>4, <2>2, <2>3, <2>4, <2>5, WaitsPush DEF Deliver
<1>5. CASE Alarm
  <2> DEFINE f == NewFrame("warn", {})
  <2>1. f \in Frame /\ f.pc = "warn" /\ f.back = "prompt"
    BY <1>0, EmptySeq DEF NewFrame, Frame, Labels
  <2>2. stack' = Append(stack, f) /\ haffo' = haffo /\ alarm /\ ~Ended /\ ~alarm'
    BY <1>5 DEF Alarm, signals
  <2> HIDE DEF f
  <2> QED BY <1>0, <2>1, <2>2, WaitsPush
<1>6. CASE Input
  <2>1. GoTo("wait") /\ Depth = 1 /\ ~Ended
    BY <1>6 DEF Input, InMain, At
  <2> QED BY <1>0, <2>1, WaitsGoTo DEF Labels, Waiting
<1>7. CASE Key
  <2>1. ~Ended /\ Top.pc \in {"wait", "typing"}
    BY <1>7 DEF Key, At
  <2>2. Depth = 1
    <3>1. Depth \in Nat \ {0}
      BY <1>0, <2>1, Running
    <3>2. Depth # 1 => Depth \in 2 .. Depth
      BY <3>1
    <3> QED BY <2>1, <3>2 DEF Waits, Top
  <2>3. PICK l \in {"wait", "typing", "command"} : /\ GoTo(l) /\ (haffo' => l = "wait")
                                                   /\ (alarm' => l # "command")
    BY <1>7 DEF Key
  <2> QED BY <1>0, <2>1, <2>2, <2>3, WaitsGoTo DEF Labels, Waiting
<1> QED BY <1>1, <1>2, <1>3, <1>4, <1>5, <1>6, <1>7, WaitsProgram DEF Next, Program

-----------------------------------------------------------------------------
LEMMA SeqEmpty == ASSUME NEW s, s = <<>> PROVE DOMAIN s = {} /\ Len(s) = 0
BY EmptySeq

(* A session ends by a signal to quit or by its timeout; that a handler    *)
(* returns does not end the main program.                                  *)
LEMMA EndsBy ==
  ASSUME IInv, ~Ended, Ended', [Next]_vars
  PROVE  Quit \/ TimeOut \/ HandlerReturns
<1>1. /\ stack \in Seq(Frame) /\ stack # <<>> /\ Depth \in Nat \ {0} /\ DOMAIN stack = 1 .. Depth
      /\ stack' = <<>> /\ DOMAIN stack' = {} /\ Len(stack') = 0
  BY Running, SeqEmpty DEF IInv, TypeOK, Ended
<1>2. DOMAIN stack # {}
  <2>1. 1 \in 1 .. Depth
    BY <1>1
  <2> QED BY <1>1, <2>1
<1>3. stack' # stack
  BY <1>1
<1>4. ASSUME NEW s \in Notices, Haffo(s) \/ Note(s)
      PROVE  FALSE
  <2>1. PICK l \in {"msg", "return"}, m \in {{}, mask \cup {s}} : stack' = Append(stack, NewFrame(l, m))
    BY <1>4 DEF Haffo, Note
  <2> DEFINE f == NewFrame(l, m)
  <2>2. f \in Frame
    <3>1. mask \in SUBSET Sigs /\ s \in Sigs
      BY DEF IInv, TypeOK, Sigs
    <3> QED BY <3>1, EmptySeq DEF NewFrame, Frame, Labels
  <2> HIDE DEF f
  <2>3. stack' = Append(stack, f)
    BY <2>1 DEF f
  <2> QED BY <1>1, <2>2, <2>3, AppendProperties DEF Depth
<1>5. ASSUME NEW i, NEW f, stack' = [stack EXCEPT ![i] = f]
      PROVE  FALSE
  BY <1>1, <1>2, <1>5
<1>6. ASSUME NEW l, GoTo(l)
      PROVE  FALSE
  BY <1>5, <1>6 DEF GoTo
<1>7. CASE \/ DisplayMsg \/ ReadMsgs \/ DisplayFails \/ TakeMsgs \/ FreeMsgs \/ ShowMsg \/ ClearMsgs
           \/ More \/ GoOn \/ Stop
  BY <1>1, <1>2, <1>7 DEF DisplayMsg, ReadMsgs, DisplayFails, TakeMsgs, FreeMsgs, ShowMsg, ClearMsgs,
                          More, GoOn, Stop, GoTo
<1>8. CASE BeginWrite \/ EndWrite
  BY <1>1, <1>2, <1>8 DEF BeginWrite, EndWrite
<1>9. CASE HaffoEnds \/ Input \/ CommandEnds \/ Passwd \/ Key
  BY <1>6, <1>9 DEF HaffoEnds, Input, CommandEnds, Passwd, Key
<1>10. CASE Send \/ SignalMsg \/ SignalText \/ Hangup \/ UNCHANGED vars
  BY <1>3, <1>10 DEF Send, SignalMsg, SignalText, Hangup, vars
<1>11. CASE WarnOpens \/ WarnFails \/ WarnStores \/ WarnNotifies
  BY <1>6, <1>11 DEF WarnOpens, WarnFails, WarnStores, WarnNotifies
<1>12. CASE Alarm
  <2> DEFINE f == NewFrame("warn", {})
  <2>1. f \in Frame
    BY EmptySeq DEF NewFrame, Frame, Labels, IInv, TypeOK
  <2>2. stack' = Append(stack, f)
    BY <1>12 DEF Alarm
  <2> HIDE DEF f
  <2> QED BY <1>1, <2>1, <2>2, AppendProperties DEF Depth
<1> QED BY <1>4, <1>7, <1>8, <1>9, <1>10, <1>11, <1>12 DEF Next, Program, Deliver

(* critical (src/lib/critical.c): the main program is not logged out in    *)
(* the middle of a write; if a session is, then in a handler, which gave   *)
(* SIGHUP and SIGTERM free.                                                *)
THEOREM CutOnlyInHandler == Spec => CutInHandler
<1>1. ASSUME IInv, Covered, Waits, [Next]_vars PROVE ~Ended /\ Ended' /\ half => Depth > 1
  <2> SUFFICES ASSUME ~Ended, Ended', half, ~(Depth > 1) PROVE FALSE
    OBVIOUS
  <2>1. Depth = 1 /\ InMain
    <3>1. Depth \in Nat \ {0}
      BY <1>1, Running DEF IInv
    <3> QED BY <3>1 DEF InMain
  <2>2. \E i \in 1 .. Depth : Writes(i)
    BY <1>1 DEF Covered
  <2>3. Writes(1) /\ "QUIT" \in mask
    <3>1. 1 .. Depth = {1}
      BY <2>1
    <3>2. Writes(1)
      BY <2>2, <3>1
    <3> QED BY <1>1, <2>1, <3>1, <3>2 DEF Covered
  <2>4. ~Quit /\ ~TimeOut /\ ~HandlerReturns
    BY <1>1, <2>1, <2>3 DEF Quit, Deliverable, TimeOut, Waits, Waiting, Writes, HandlerReturns
  <2> QED BY <1>1, <2>4, EndsBy
<1>2. [Next]_vars /\ IInv /\ Covered /\ Waits => [~Ended /\ Ended' /\ half => Depth > 1]_vars
  BY <1>1
<1> QED BY <1>2, InitHolds, NextKeeps, CoveredFirst, CoveredKeeps, WaitsFirst, WaitsKeeps, PTL DEF Spec, CutInHandler

-----------------------------------------------------------------------------
(* No message is at two places or twice at one, those sent are the ones    *)
(* that are somewhere, and a frame has messages only between reading       *)
(* MSG_FILE and showing them: while it empties the file, those of the file.*)
Once(places, n) ==
  /\ \A i, k \in DOMAIN places : \A j \in DOMAIN places[i], l \in DOMAIN places[k] :
       places[i][j] = places[k][l] => i = k /\ j = l
  /\ \A i \in DOMAIN places : \A j \in DOMAIN places[i] : places[i][j] \in 1 .. n
  /\ \A m \in 1 .. n : \E i \in DOMAIN places : \E j \in DOMAIN places[i] : places[i][j] = m

ReadsOf(f, file) ==
  /\ f.pc \notin {"take", "free", "show", "more"} => f.read = <<>>
  /\ f.pc = "take" => f.read = file

Sorted == ~Ended => Once(Places, sent) /\ \A i \in 1 .. Depth : ReadsOf(stack[i], box)

Msgs == Seq(1 .. MaxMsgs)

LEMMA PlacesOf ==
  ASSUME NEW st \in Seq(Frame), NEW b \in Msgs, NEW s \in Msgs, NEW d \in Msgs, NEW places,
         places = << b, s, d >> \o [i \in 1 .. Len(st) |-> Taken(st[i])]
  PROVE  /\ Len(st) \in Nat /\ DOMAIN places = 1 .. Len(st) + 3
         /\ places[1] = b /\ places[2] = s /\ places[3] = d
         /\ \A i \in 1 .. Len(st) : places[i + 3] = Taken(st[i])
         /\ \A i \in DOMAIN places : places[i] \in Msgs
<1> DEFINE n == Len(st)
<1>1. n \in Nat /\ \A i \in 1 .. n : st[i] \in Frame
  BY LenProperties, ElementOfSeq
<1>2. places = << b, s, d >> \o [i \in 1 .. n |-> Taken(st[i])]
  OBVIOUS
<1>3. n = Len(st)
  OBVIOUS
<1> HIDE DEF n
<1>4. \A i \in 1 .. n : Taken(st[i]) \in Msgs
  BY <1>1, EmptySeq DEF Taken, Frame, Msgs
<1> DEFINE held == [i \in 1 .. n |-> Taken(st[i])]
           first == << b, s, d >>
<1>5. held \in Seq(Msgs) /\ Len(held) = n /\ \A i \in 1 .. n : held[i] = Taken(st[i])
  <2>1. held \in [1 .. n -> Msgs]
    BY <1>4
  <2> QED BY <1>1, <2>1
<1>6. first \in Seq(Msgs) /\ Len(first) = 3 /\ first[1] = b /\ first[2] = s /\ first[3] = d
  OBVIOUS
<1>7. places = first \o held
  BY <1>2
<1> HIDE DEF held, first
<1>8. /\ places \in Seq(Msgs) /\ Len(places) = 3 + n
      /\ \A i \in 1 .. 3 + n : places[i] = IF i <= 3 THEN first[i] ELSE held[i - 3]
  <2>1. Len(first) + Len(held) = 3 + n
    BY <1>1, <1>5, <1>6
  <2>2. /\ first \o held \in Seq(Msgs) /\ Len(first \o held) = Len(first) + Len(held)
        /\ \A i \in 1 .. Len(first) + Len(held) :
             (first \o held)[i] = IF i <= Len(first) THEN first[i] ELSE held[i - Len(first)]
    BY <1>5, <1>6, ConcatProperties
  <2> QED BY <1>6, <1>7, <2>1, <2>2
<1>9. DOMAIN places = 1 .. n + 3
  BY <1>1, <1>8
<1>10. \A i \in 1 .. n : i + 3 \in 1 .. 3 + n /\ ~(i + 3 <= 3) /\ (i + 3) - 3 = i
  BY <1>1
<1>11. 1 \in 1 .. 3 + n /\ 2 \in 1 .. 3 + n /\ 3 \in 1 .. 3 + n
  BY <1>1
<1>12. places[1] = b /\ places[2] = s /\ places[3] = d
  BY <1>6, <1>8, <1>11
<1>13. \A i \in 1 .. n : places[i + 3] = Taken(st[i])
  BY <1>5, <1>8, <1>10
<1>14. \A i \in DOMAIN places : places[i] \in Msgs
  BY <1>8, <1>9, ElementOfSeq
<1> QED BY <1>1, <1>3, <1>9, <1>12, <1>13, <1>14

LEMMA PlacesAre ==
  ASSUME TypeOK
  PROVE  /\ Depth \in Nat /\ DOMAIN Places = 1 .. Depth + 3
         /\ Places[1] = box /\ Places[2] = shown /\ Places[3] = dropped
         /\ \A i \in 1 .. Depth : Places[i + 3] = Taken(stack[i])
         /\ \A i \in DOMAIN Places : Places[i] \in Msgs
BY PlacesOf DEF TypeOK, Places, Depth, Msgs

LEMMA PlacesThen ==
  ASSUME TypeOK'
  PROVE  /\ Depth' \in Nat /\ DOMAIN Places' = 1 .. Depth' + 3
         /\ Places'[1] = box' /\ Places'[2] = shown' /\ Places'[3] = dropped'
         /\ \A i \in 1 .. Depth' : Places'[i + 3] = Taken(stack'[i])
BY PlacesOf DEF TypeOK, Places, Depth, Msgs

(* The invariant says that there is one copy of each message: a sequence   *)
(* of different messages is no longer than there are messages.             *)
LEMMA OneCopy ==
  ASSUME TypeOK, Once(Places, sent), NEW m \in 1 .. sent
  PROVE  Cardinality(Copies(m)) = 1
<1>1. DOMAIN Places = 1 .. Depth + 3 /\ \A i \in DOMAIN Places : Places[i] \in Msgs
  BY PlacesAre
<1>2. PICK i \in DOMAIN Places : \E j \in DOMAIN Places[i] : Places[i][j] = m
  BY DEF Once
<1>3. PICK j \in DOMAIN Places[i] : Places[i][j] = m
  BY <1>2
<1>4. j \in 1 .. MaxMsgs
  <2> DEFINE s == Places[i]
  <2>1. s \in Seq(1 .. MaxMsgs)
    BY <1>1 DEF Msgs
  <2>2. \A k, l \in DOMAIN s : s[k] = s[l] => k = l
    BY DEF Once
  <2> HIDE DEF s
  <2>3. Len(s) \in Nat /\ DOMAIN s = 1 .. Len(s) /\ s \in [1 .. Len(s) -> 1 .. MaxMsgs]
    BY <2>1, LenProperties
  <2>4. s \in Injection(1 .. Len(s), 1 .. MaxMsgs)
    BY <2>2, <2>3 DEF Injection, IsInjective
  <2>5. IsFiniteSet(1 .. MaxMsgs) /\ Cardinality(1 .. MaxMsgs) = IF 1 > MaxMsgs THEN 0 ELSE MaxMsgs
    BY FS_Interval, BoundsAssumption
  <2>6. Cardinality(1 .. Len(s)) <= Cardinality(1 .. MaxMsgs)
    BY <2>4, <2>5, FS_Injection
  <2>7. Cardinality(1 .. Len(s)) = IF 1 > Len(s) THEN 0 ELSE Len(s)
    <3>1. 1 \in Int /\ Len(s) \in Int
      BY <2>3
    <3> QED BY <3>1, FS_Interval
  <2>8. Len(s) <= MaxMsgs
    BY <2>3, <2>5, <2>6, <2>7, BoundsAssumption
  <2>9. j \in 1 .. Len(s)
    BY <2>3 DEF s
  <2> QED BY <2>3, <2>8, <2>9, BoundsAssumption
<1>5. Copies(m) = {<< i, j >>}
  <2>1. << i, j >> \in Copies(m)
    BY <1>3, <1>4 DEF Copies
  <2>2. ASSUME NEW c \in Copies(m) PROVE c = << i, j >>
    <3>1. c \in (DOMAIN Places) \X (1 .. MaxMsgs) /\ c[2] \in DOMAIN Places[c[1]] /\ Places[c[1]][c[2]] = m
      BY <2>2 DEF Copies
    <3>2. c[1] = i /\ c[2] = j
      BY <1>3, <3>1 DEF Once
    <3> QED BY <3>1, <3>2
  <2> QED BY <2>1, <2>2
<1> QED BY <1>5, FS_Singleton

-----------------------------------------------------------------------------
LEMMA OnceIs ==
  ASSUME NEW p, NEW n, Once(p, n), NEW i \in DOMAIN p, NEW k \in DOMAIN p,
         NEW j \in DOMAIN p[i], NEW l \in DOMAIN p[k], p[i][j] = p[k][l]
  PROVE  i = k /\ j = l
BY DEF Once

(* The ways in which messages move.                                        *)
LEMMA NoneMoves ==
  ASSUME NEW p, NEW q, NEW n, Once(p, n),
         \A i \in DOMAIN p : (i \in DOMAIN q /\ q[i] = p[i]) \/ p[i] = <<>>,
         \A i \in DOMAIN q : (i \in DOMAIN p /\ q[i] = p[i]) \/ q[i] = <<>>
  PROVE  Once(q, n)
<1>1. \A i : i \in DOMAIN p /\ p[i] # <<>> => i \in DOMAIN q /\ q[i] = p[i]
  OBVIOUS
<1>2. DOMAIN <<>> = {}
  OBVIOUS
<1>3. \A i \in DOMAIN q : \A j \in DOMAIN q[i] : i \in DOMAIN p /\ q[i] = p[i]
  BY <1>2
<1>4. \A i \in DOMAIN p : \A j \in DOMAIN p[i] : i \in DOMAIN q /\ q[i] = p[i]
  BY <1>2
<1> QED BY <1>3, <1>4 DEF Once

(* All of one place go to another that is empty.                           *)
LEMMA AllMove ==
  ASSUME NEW p, NEW q, NEW n, Once(p, n), DOMAIN q = DOMAIN p,
         NEW a \in DOMAIN p, NEW b \in DOMAIN p, a # b, p[b] = <<>>, q[a] = <<>>, q[b] = p[a],
         \A i \in DOMAIN p \ {a, b} : q[i] = p[i]
  PROVE  Once(q, n)
<1>1. DOMAIN <<>> = {}
  OBVIOUS
<1> DEFINE from(i) == IF i = b THEN a ELSE i
<1>2. \A i \in DOMAIN q : \A j \in DOMAIN q[i] : i # a /\ from(i) \in DOMAIN p /\ q[i] = p[from(i)]
  BY <1>1
<1>3. \A i \in DOMAIN p : \A j \in DOMAIN p[i] : \E k \in DOMAIN q : q[k] = p[i]
  <2> SUFFICES ASSUME NEW i \in DOMAIN p, NEW j \in DOMAIN p[i] PROVE \E k \in DOMAIN q : q[k] = p[i]
    OBVIOUS
  <2>1. i # b
    BY <1>1
  <2> QED BY <2>1
<1>4. \A i, k : i # a /\ k # a /\ from(i) = from(k) => i = k
  OBVIOUS
<1>5. \A i, k \in DOMAIN q : \A j \in DOMAIN q[i], l \in DOMAIN q[k] :
        q[i][j] = q[k][l] => i = k /\ j = l
  <2> SUFFICES ASSUME NEW i \in DOMAIN q, NEW k \in DOMAIN q, NEW j \in DOMAIN q[i],
                      NEW l \in DOMAIN q[k], q[i][j] = q[k][l]
               PROVE  i = k /\ j = l
    OBVIOUS
  <2>1. /\ i # a /\ k # a /\ from(i) \in DOMAIN p /\ from(k) \in DOMAIN p
        /\ q[i] = p[from(i)] /\ q[k] = p[from(k)]
    BY <1>2
  <2> HIDE DEF from
  <2>2. from(i) = from(k) /\ j = l
    BY <2>1 DEF Once
  <2> QED BY <1>4, <2>1, <2>2
<1>6. \A i \in DOMAIN q : \A j \in DOMAIN q[i] : q[i][j] \in 1 .. n
  <2> HIDE DEF from
  <2> QED BY <1>2 DEF Once
<1>7. \A m \in 1 .. n : \E i \in DOMAIN q : \E j \in DOMAIN q[i] : q[i][j] = m
  <2> SUFFICES ASSUME NEW m \in 1 .. n PROVE \E i \in DOMAIN q : \E j \in DOMAIN q[i] : q[i][j] = m
    OBVIOUS
  <2>1. PICK i \in DOMAIN p : \E j \in DOMAIN p[i] : p[i][j] = m
    BY DEF Once
  <2> QED BY <1>3, <2>1
<1> QED BY <1>5, <1>6, <1>7 DEF Once

(* All of one place are put behind those of another.                       *)
LEMMA AllJoin ==
  ASSUME NEW S, NEW p, NEW q, NEW n, Once(p, n), DOMAIN q = DOMAIN p,
         NEW a \in DOMAIN p, NEW b \in DOMAIN p, a # b, p[a] \in Seq(S), p[b] \in Seq(S),
         q[a] = <<>>, q[b] = p[b] \o p[a],
         \A i \in DOMAIN p \ {a, b} : q[i] = p[i]
  PROVE  Once(q, n)
<1>1. DOMAIN <<>> = {}
  OBVIOUS
<1> DEFINE u == p[b]
           v == p[a]
           old(i, j) == IF i = b /\ j > Len(u) THEN a ELSE i
           pos(i, j) == IF i = b /\ j > Len(u) THEN j - Len(u) ELSE j
<1>2. /\ Len(u) \in Nat /\ Len(v) \in Nat /\ DOMAIN u = 1 .. Len(u) /\ DOMAIN v = 1 .. Len(v)
      /\ DOMAIN q[b] = 1 .. Len(u) + Len(v)
      /\ \A j \in 1 .. Len(u) + Len(v) : q[b][j] = IF j <= Len(u) THEN u[j] ELSE v[j - Len(u)]
  BY ConcatProperties, LenProperties
<1>3. ASSUME NEW i \in DOMAIN q, NEW j \in DOMAIN q[i]
      PROVE  /\ i # a /\ old(i, j) \in DOMAIN p /\ pos(i, j) \in DOMAIN p[old(i, j)]
             /\ q[i][j] = p[old(i, j)][pos(i, j)]
  <2>1. i # a
    BY <1>1
  <2>2. CASE i # b
    BY <2>1, <2>2
  <2>3. CASE i = b
    <3>1. j \in 1 .. Len(u) + Len(v)
      BY <1>2, <2>3
    <3>2. CASE j <= Len(u)
      BY <1>2, <2>1, <2>3, <3>1, <3>2
    <3>3. CASE j > Len(u)
      <4>1. j - Len(u) \in 1 .. Len(v) /\ ~(j <= Len(u))
        BY <1>2, <3>1, <3>3
      <4> QED BY <1>2, <2>1, <2>3, <3>1, <3>3, <4>1
    <3> QED BY <1>2, <3>1, <3>2, <3>3
  <2> QED BY <2>2, <2>3
<1>4. \A i, k \in DOMAIN q : \A j \in DOMAIN q[i], l \in DOMAIN q[k] :
        q[i][j] = q[k][l] => i = k /\ j = l
  <2> SUFFICES ASSUME NEW i \in DOMAIN q, NEW k \in DOMAIN q, NEW j \in DOMAIN q[i],
                      NEW l \in DOMAIN q[k], q[i][j] = q[k][l]
               PROVE  i = k /\ j = l
    OBVIOUS
  <2>1. old(i, j) = old(k, l) /\ pos(i, j) = pos(k, l) /\ i # a /\ k # a
    <3>1. /\ i # a /\ old(i, j) \in DOMAIN p /\ pos(i, j) \in DOMAIN p[old(i, j)]
          /\ q[i][j] = p[old(i, j)][pos(i, j)]
      BY <1>3
    <3>2. /\ k # a /\ old(k, l) \in DOMAIN p /\ pos(k, l) \in DOMAIN p[old(k, l)]
          /\ q[k][l] = p[old(k, l)][pos(k, l)]
      BY <1>3
    <3>3. old(i, j) = old(k, l) /\ pos(i, j) = pos(k, l)
      <4> DEFINE x == old(i, j)
                 y == pos(i, j)
                 z == old(k, l)
                 w == pos(k, l)
      <4>1. /\ x \in DOMAIN p /\ y \in DOMAIN p[x] /\ z \in DOMAIN p /\ w \in DOMAIN p[z]
            /\ p[x][y] = p[z][w]
        BY <3>1, <3>2
      <4> HIDE DEF x, y, z, w
      <4>2. x = z /\ y = w
        BY <4>1, OnceIs
      <4> QED BY <4>2 DEF x, y, z, w
    <3> QED BY <3>1, <3>2, <3>3
  <2>2. i = k
    BY <2>1
  <2>3. CASE i # b
    BY <2>1, <2>2, <2>3
  <2>4. CASE i = b
    <3>1. j \in 1 .. Len(u) + Len(v) /\ l \in 1 .. Len(u) + Len(v)
      BY <1>2, <2>2, <2>4
    <3> HIDE DEF u, v
    <3> QED BY <1>2, <2>1, <2>2, <2>4, <3>1
  <2> QED BY <2>2, <2>3, <2>4
<1>5. \A i \in DOMAIN q : \A j \in DOMAIN q[i] : q[i][j] \in 1 .. n
  <2> SUFFICES ASSUME NEW i \in DOMAIN q, NEW j \in DOMAIN q[i] PROVE q[i][j] \in 1 .. n
    OBVIOUS
  <2>1. /\ old(i, j) \in DOMAIN p /\ pos(i, j) \in DOMAIN p[old(i, j)]
        /\ q[i][j] = p[old(i, j)][pos(i, j)]
    BY <1>3
  <2> HIDE DEF old, pos
  <2> QED BY <2>1 DEF Once
<1>6. \A m \in 1 .. n : \E i \in DOMAIN q : \E j \in DOMAIN q[i] : q[i][j] = m
  <2> SUFFICES ASSUME NEW m \in 1 .. n PROVE \E i \in DOMAIN q : \E j \in DOMAIN q[i] : q[i][j] = m
    OBVIOUS
  <2>1. PICK i \in DOMAIN p : \E j \in DOMAIN p[i] : p[i][j] = m
    BY DEF Once
  <2>2. PICK j \in DOMAIN p[i] : p[i][j] = m
    BY <2>1
  <2>3. CASE i = a
    <3>1. j \in 1 .. Len(v) /\ v[j] = m
      BY <1>2, <2>2, <2>3
    <3>2. j + Len(u) \in 1 .. Len(u) + Len(v) /\ ~(j + Len(u) <= Len(u)) /\ (j + Len(u)) - Len(u) = j
      BY <1>2, <3>1
    <3>3. j + Len(u) \in DOMAIN q[b] /\ q[b][j + Len(u)] = m
      BY <1>2, <3>1, <3>2
    <3> QED BY <3>3
  <2>4. CASE i = b
    <3>1. j \in 1 .. Len(u) /\ u[j] = m
      BY <1>2, <2>2, <2>4
    <3>2. j \in 1 .. Len(u) + Len(v) /\ j <= Len(u)
      BY <1>2, <3>1
    <3>3. j \in DOMAIN q[b] /\ q[b][j] = m
      BY <1>2, <3>1, <3>2
    <3> QED BY <3>3
  <2>5. CASE i \notin {a, b}
    BY <2>2, <2>5
  <2> QED BY <2>3, <2>4, <2>5
<1> QED BY <1>4, <1>5, <1>6 DEF Once

(* The first of one place is put behind those of another.                  *)
LEMMA FirstMoves ==
  ASSUME NEW S, NEW p, NEW q, NEW n, Once(p, n), DOMAIN q = DOMAIN p,
         NEW a \in DOMAIN p, NEW b \in DOMAIN p, a # b, p[a] \in Seq(S), p[b] \in Seq(S),
         p[a] # <<>>, q[a] = Tail(p[a]), q[b] = Append(p[b], Head(p[a])),
         \A i \in DOMAIN p \ {a, b} : q[i] = p[i]
  PROVE  Once(q, n)
<1> DEFINE u == p[b]
           v == p[a]
           moved(i, j) == i = b /\ j = Len(u) + 1
           old(i, j) == IF moved(i, j) THEN a ELSE i
           pos(i, j) == IF moved(i, j) THEN 1 ELSE IF i = a THEN j + 1 ELSE j
<1>1. /\ Len(u) \in Nat /\ Len(v) \in Nat \ {0} /\ DOMAIN u = 1 .. Len(u) /\ DOMAIN v = 1 .. Len(v)
      /\ DOMAIN q[b] = 1 .. Len(u) + 1 /\ DOMAIN q[a] = 1 .. Len(v) - 1
  BY EmptySeq, LenProperties, AppendProperties, HeadTailProperties
<1>2. /\ \A j \in 1 .. Len(u) : q[b][j] = u[j]
      /\ q[b][Len(u) + 1] = v[1]
      /\ \A j \in 1 .. Len(v) - 1 : q[a][j] = v[j + 1]
  <2>1. Head(v) \in S /\ Head(v) = v[1] /\ \A j \in 1 .. Len(v) - 1 : Tail(v)[j] = v[j + 1]
    BY HeadTailProperties
  <2> QED BY <2>1, AppendProperties
<1>3. ASSUME NEW i \in DOMAIN q, NEW j \in DOMAIN q[i]
      PROVE  /\ old(i, j) \in DOMAIN p /\ pos(i, j) \in DOMAIN p[old(i, j)]
             /\ q[i][j] = p[old(i, j)][pos(i, j)]
  <2>1. CASE i = b
    <3>1. j \in 1 .. Len(u) + 1
      BY <1>1, <2>1
    <3>2. CASE j = Len(u) + 1
      BY <1>1, <1>2, <2>1, <3>2
    <3>3. CASE j # Len(u) + 1
      <4>1. j \in 1 .. Len(u)
        BY <1>1, <3>1, <3>3
      <4> QED BY <1>1, <1>2, <2>1, <3>3, <4>1
    <3> QED BY <3>2, <3>3
  <2>2. CASE i = a
    <3>1. j \in 1 .. Len(v) - 1 /\ j + 1 \in 1 .. Len(v)
      BY <1>1, <2>2
    <3> QED BY <1>1, <1>2, <2>2, <3>1
  <2>3. CASE i \notin {a, b}
    BY <2>3
  <2> QED BY <2>1, <2>2, <2>3
<1>4. ASSUME NEW i \in DOMAIN q, NEW k \in DOMAIN q, NEW j \in DOMAIN q[i], NEW l \in DOMAIN q[k],
             old(i, j) = old(k, l), pos(i, j) = pos(k, l)
      PROVE  i = k /\ j = l
  <2>1. i = a => j \in 1 .. Len(v) - 1
    BY <1>1
  <2>2. k = a => l \in 1 .. Len(v) - 1
    BY <1>1
  <2>3. i # a /\ i # b /\ k = i => j = l
    BY <1>4
  <2> HIDE DEF u, v
  <2> QED BY <1>1, <1>4, <2>1, <2>2, <2>3
<1>5. \A i, k \in DOMAIN q : \A j \in DOMAIN q[i], l \in DOMAIN q[k] :
        q[i][j] = q[k][l] => i = k /\ j = l
  <2> SUFFICES ASSUME NEW i \in DOMAIN q, NEW k \in DOMAIN q, NEW j \in DOMAIN q[i],
                      NEW l \in DOMAIN q[k], q[i][j] = q[k][l]
               PROVE  i = k /\ j = l
    OBVIOUS
  <2> DEFINE x == old(i, j)
             y == pos(i, j)
             z == old(k, l)
             w == pos(k, l)
  <2>1. x \in DOMAIN p /\ y \in DOMAIN p[x] /\ q[i][j] = p[x][y]
    BY <1>3
  <2>2. z \in DOMAIN p /\ w \in DOMAIN p[z] /\ q[k][l] = p[z][w]
    BY <1>3
  <2> HIDE DEF x, y, z, w
  <2>3. p[x][y] = p[z][w]
    BY <2>1, <2>2
  <2>4. x = z /\ y = w
    BY <2>1, <2>2, <2>3 DEF Once
  <2>5. old(i, j) = old(k, l) /\ pos(i, j) = pos(k, l)
    BY <2>4 DEF x, y, z, w
  <2> HIDE DEF old, pos
  <2> QED BY <1>4, <2>5
<1>6. \A i \in DOMAIN q : \A j \in DOMAIN q[i] : q[i][j] \in 1 .. n
  <2> SUFFICES ASSUME NEW i \in DOMAIN q, NEW j \in DOMAIN q[i] PROVE q[i][j] \in 1 .. n
    OBVIOUS
  <2>1. /\ old(i, j) \in DOMAIN p /\ pos(i, j) \in DOMAIN p[old(i, j)]
        /\ q[i][j] = p[old(i, j)][pos(i, j)]
    BY <1>3
  <2> HIDE DEF old, pos
  <2> QED BY <2>1 DEF Once
<1>7. \A m \in 1 .. n : \E i \in DOMAIN q : \E j \in DOMAIN q[i] : q[i][j] = m
  <2> SUFFICES ASSUME NEW m \in 1 .. n PROVE \E i \in DOMAIN q : \E j \in DOMAIN q[i] : q[i][j] = m
    OBVIOUS
  <2>1. PICK i \in DOMAIN p : \E j \in DOMAIN p[i] : p[i][j] = m
    BY DEF Once
  <2>2. PICK j \in DOMAIN p[i] : p[i][j] = m
    BY <2>1
  <2>3. CASE i = a /\ j = 1
    <3>1. Len(u) + 1 \in DOMAIN q[b] /\ q[b][Len(u) + 1] = m
      BY <1>1, <1>2, <2>2, <2>3
    <3> QED BY <3>1
  <2>4. CASE i = a /\ j # 1
    <3>1. j \in 1 .. Len(v) /\ v[j] = m
      BY <1>1, <2>2, <2>4
    <3>2. j - 1 \in 1 .. Len(v) - 1 /\ (j - 1) + 1 = j
      BY <1>1, <2>4, <3>1
    <3>3. j - 1 \in DOMAIN q[a] /\ q[a][j - 1] = m
      BY <1>1, <1>2, <3>1, <3>2
    <3> QED BY <3>3
  <2>5. CASE i = b
    <3>1. j \in 1 .. Len(u) /\ u[j] = m /\ j \in 1 .. Len(u) + 1
      BY <1>1, <2>2, <2>5
    <3>2. j \in DOMAIN q[b] /\ q[b][j] = m
      BY <1>1, <1>2, <3>1
    <3> QED BY <3>2
  <2>6. CASE i \notin {a, b}
    BY <2>2, <2>6
  <2> QED BY <2>3, <2>4, <2>5, <2>6
<1> QED BY <1>5, <1>6, <1>7 DEF Once

(* One more.                                                               *)
LEMMA OneMore ==
  ASSUME NEW S, NEW p, NEW q, NEW n \in Nat, Once(p, n), DOMAIN q = DOMAIN p,
         NEW a \in DOMAIN p, p[a] \in Seq(S), n + 1 \in S, q[a] = Append(p[a], n + 1),
         \A i \in DOMAIN p \ {a} : q[i] = p[i]
  PROVE  Once(q, n + 1)
<1> DEFINE u == p[a]
           new(i, j) == i = a /\ j = Len(u) + 1
<1>1. /\ Len(u) \in Nat /\ DOMAIN u = 1 .. Len(u) /\ DOMAIN q[a] = 1 .. Len(u) + 1
      /\ \A j \in 1 .. Len(u) : q[a][j] = u[j]
      /\ q[a][Len(u) + 1] = n + 1
  BY AppendProperties, LenProperties
<1>2. ASSUME NEW i \in DOMAIN q, NEW j \in DOMAIN q[i], ~new(i, j)
      PROVE  i \in DOMAIN p /\ j \in DOMAIN p[i] /\ q[i][j] = p[i][j]
  <2>1. CASE i # a
    BY <2>1
  <2>2. CASE i = a
    <3>1. j \in 1 .. Len(u) + 1 /\ j # Len(u) + 1
      BY <1>1, <1>2, <2>2
    <3>2. j \in 1 .. Len(u)
      BY <1>1, <3>1
    <3> QED BY <1>1, <2>2, <3>2
  <2> QED BY <2>1, <2>2
<1>3. n + 1 \notin 1 .. n /\ 1 .. n + 1 = (1 .. n) \cup {n + 1}
  OBVIOUS
<1>4. \A i \in DOMAIN q : \A j \in DOMAIN q[i] : new(i, j) \/ q[i][j] \in 1 .. n
  BY <1>2 DEF Once
<1>5. \A i \in DOMAIN q : \A j \in DOMAIN q[i] : new(i, j) => q[i][j] = n + 1
  BY <1>1
<1>6. \A i, k, j, l : new(i, j) /\ new(k, l) => i = k /\ j = l
  OBVIOUS
<1>7. a \in DOMAIN q /\ Len(u) + 1 \in DOMAIN q[a]
  BY <1>1
<1>8. \A i \in DOMAIN p : \A j \in DOMAIN p[i] : j \in DOMAIN q[i] /\ q[i][j] = p[i][j]
  <2> SUFFICES ASSUME NEW i \in DOMAIN p, NEW j \in DOMAIN p[i]
               PROVE  j \in DOMAIN q[i] /\ q[i][j] = p[i][j]
    OBVIOUS
  <2>1. CASE i = a
    <3>1. j \in 1 .. Len(u) /\ j \in 1 .. Len(u) + 1
      BY <1>1, <2>1
    <3> QED BY <1>1, <2>1, <3>1
  <2> QED BY <2>1
<1> HIDE DEF new
<1>9. \A i, k \in DOMAIN q : \A j \in DOMAIN q[i], l \in DOMAIN q[k] :
        q[i][j] = q[k][l] => i = k /\ j = l
  <2> SUFFICES ASSUME NEW i \in DOMAIN q, NEW k \in DOMAIN q, NEW j \in DOMAIN q[i],
                      NEW l \in DOMAIN q[k], q[i][j] = q[k][l]
               PROVE  i = k /\ j = l
    OBVIOUS
  <2>1. new(i, j) <=> new(k, l)
    BY <1>3, <1>4, <1>5
  <2>2. CASE new(i, j)
    BY <1>6, <2>1, <2>2
  <2>3. CASE ~new(i, j)
    BY <1>2, <2>1, <2>3 DEF Once
  <2> QED BY <2>2, <2>3
<1>10. \A i \in DOMAIN q : \A j \in DOMAIN q[i] : q[i][j] \in 1 .. n + 1
  BY <1>3, <1>4, <1>5
<1>11. \A m \in 1 .. n + 1 : \E i \in DOMAIN q : \E j \in DOMAIN q[i] : q[i][j] = m
  <2> SUFFICES ASSUME NEW m \in 1 .. n + 1 PROVE \E i \in DOMAIN q : \E j \in DOMAIN q[i] : q[i][j] = m
    OBVIOUS
  <2>1. CASE m = n + 1
    BY <1>1, <1>7, <2>1
  <2>2. CASE m \in 1 .. n
    <3>1. PICK i \in DOMAIN p : \E j \in DOMAIN p[i] : p[i][j] = m
      BY <2>2 DEF Once
    <3> QED BY <1>8, <3>1
  <2> QED BY <1>3, <2>1, <2>2
<1> QED BY <1>9, <1>10, <1>11 DEF Once

-----------------------------------------------------------------------------
(* The frame that runs becomes f.                                          *)
LEMMA TopThen ==
  ASSUME IInv, IInv', ~Ended, NEW f \in Frame, stack' = [stack EXCEPT ![Depth] = f]
  PROVE  /\ Depth' = Depth /\ DOMAIN Places' = DOMAIN Places
         /\ Places'[Depth + 3] = Taken(f)
         /\ \A i \in DOMAIN Places \ {1, 2, 3, Depth + 3} : Places'[i] = Places[i]
         /\ stack'[Depth] = f /\ \A i \in 1 .. Depth : i # Depth => stack'[i] = stack[i]
<1>1. Depth \in Nat \ {0} /\ DOMAIN stack = 1 .. Depth /\ Depth \in 1 .. Depth
      /\ \A i \in 1 .. Depth : stack[i] \in Frame
  BY Running DEF IInv
<1>2. Depth' = Depth
  <2>1. stack' \in [1 .. Depth -> Frame]
    BY <1>1
  <2>2. Len(stack') = Depth
    BY <1>1, <2>1, IsASeq, LenProperties
  <2> QED BY <2>2 DEF Depth
<1>3. stack'[Depth] = f /\ \A i \in 1 .. Depth : i # Depth => stack'[i] = stack[i]
  BY <1>1
<1>4. /\ DOMAIN Places = 1 .. Depth + 3
      /\ \A i \in 1 .. Depth : Places[i + 3] = Taken(stack[i])
  BY PlacesAre DEF IInv
<1>5. /\ DOMAIN Places' = 1 .. Depth + 3
      /\ \A i \in 1 .. Depth : Places'[i + 3] = Taken(stack'[i])
  BY <1>2, PlacesThen DEF IInv
<1>6. Places'[Depth + 3] = Taken(f)
  BY <1>1, <1>3, <1>5
<1>7. ASSUME NEW i \in DOMAIN Places \ {1, 2, 3, Depth + 3} PROVE Places'[i] = Places[i]
  <2>1. i - 3 \in 1 .. Depth /\ i - 3 # Depth /\ i = (i - 3) + 3
    BY <1>1, <1>4, <1>7
  <2>2. Places'[i] = Taken(stack'[i - 3]) /\ Places[i] = Taken(stack[i - 3])
    BY <1>4, <1>5, <2>1
  <2> QED BY <1>3, <2>1, <2>2
<1> QED BY <1>2, <1>3, <1>4, <1>5, <1>6, <1>7

(* It goes on with what it has.                                            *)
LEMMA TopSorted ==
  ASSUME IInv, IInv', Sorted, ~Ended, NEW f \in Frame, stack' = [stack EXCEPT ![Depth] = f],
         UNCHANGED << box, shown, dropped, sent >>, Taken(f) = Taken(Top), ReadsOf(f, box)
  PROVE  Sorted'
<1>1. /\ Depth' = Depth /\ DOMAIN Places' = DOMAIN Places
      /\ Places'[Depth + 3] = Taken(f)
      /\ \A i \in DOMAIN Places \ {1, 2, 3, Depth + 3} : Places'[i] = Places[i]
      /\ stack'[Depth] = f /\ \A i \in 1 .. Depth : i # Depth => stack'[i] = stack[i]
  BY TopThen
<1>2. /\ Places[1] = box /\ Places[2] = shown /\ Places[3] = dropped /\ Places[Depth + 3] = Taken(Top)
  BY PlacesAre, Running DEF IInv, Top
<1>3. Places'[1] = box /\ Places'[2] = shown /\ Places'[3] = dropped
  BY PlacesThen DEF IInv
<1>4. \A i \in DOMAIN Places : Places'[i] = Places[i]
  BY <1>1, <1>2, <1>3
<1>5. Once(Places', sent)
  BY <1>1, <1>4, NoneMoves DEF Sorted
<1>6. \A i \in 1 .. Depth : ReadsOf(stack'[i], box)
  BY <1>1 DEF Sorted
<1> QED BY <1>1, <1>5, <1>6 DEF Sorted

LEMMA GoToSorted ==
  ASSUME IInv, IInv', Sorted, ~Ended, NEW l \in Labels \ {"take", "free", "show", "more"},
         GoTo(l), Top.pc # "take", Top.read = <<>>, UNCHANGED << box, shown, dropped, sent >>
  PROVE  Sorted'
<1> DEFINE f == [Top EXCEPT !.pc = l]
<1>1. f \in Frame /\ f.pc = l /\ f.read = <<>>
  BY Running DEF Frame, IInv
<1>2. stack' = [stack EXCEPT ![Depth] = f]
  BY Running DEF GoTo, Top, IInv
<1> HIDE DEF f
<1>3. Taken(f) = Taken(Top) /\ ReadsOf(f, box)
  BY <1>1 DEF Taken, ReadsOf
<1> QED BY <1>1, <1>2, <1>3, TopSorted

LEMMA ReadingSorted ==
  ASSUME IInv, IInv', Sorted, ~Ended, NEW l \in {"show", "more"},
         GoTo(l), Top.pc # "take", UNCHANGED << box, shown, dropped, sent >>
  PROVE  Sorted'
<1> DEFINE f == [Top EXCEPT !.pc = l]
<1>1. f \in Frame /\ f.pc = l /\ f.read = Top.read
  BY Running DEF Frame, IInv, Labels
<1>2. stack' = [stack EXCEPT ![Depth] = f]
  BY Running DEF GoTo, Top, IInv
<1> HIDE DEF f
<1>3. Taken(f) = Taken(Top) /\ ReadsOf(f, box)
  BY <1>1 DEF Taken, ReadsOf
<1> QED BY <1>1, <1>2, <1>3, TopSorted

LEMMA FrontIs ==
  ASSUME NEW S, NEW s \in Seq(S), s # <<>>
  PROVE  Len(Front(s)) = Len(s) - 1 /\ \A i \in 1 .. Len(s) - 1 : Front(s)[i] = s[i]
<1> DEFINE n == Len(s)
<1>1. n \in Nat \ {0} /\ \A i \in 1 .. n - 1 : s[i] \in S
  BY EmptySeq, LenProperties, ElementOfSeq
<1> HIDE DEF n
<1> DEFINE k == n - 1
<1>2. k \in Int /\ 1 \in Int /\ k - 1 + 1 = k /\ \A i \in 1 .. k : s[i] \in S
  BY <1>1
<1>3. \A i \in 1 .. k : 1 + i - 1 = i
  OBVIOUS
<1>4. (IF 1 <= k THEN k - 1 + 1 ELSE 0) = k
  BY <1>1
<1> HIDE DEF k
<1>5. /\ Len(SubSeq(s, 1, k)) = IF 1 <= k THEN k - 1 + 1 ELSE 0
      /\ \A i \in 1 .. k - 1 + 1 : SubSeq(s, 1, k)[i] = s[1 + i - 1]
  BY <1>2, SubSeqProperties
<1>6. Front(s) = SubSeq(s, 1, k)
  BY DEF Front, k, n
<1>7. Len(Front(s)) = k /\ \A i \in 1 .. k : Front(s)[i] = s[i]
  BY <1>2, <1>3, <1>4, <1>5, <1>6
<1> QED BY <1>7 DEF k, n

(* A handler begins with nothing, or ends.                                 *)
LEMMA HandlerSorted ==
  ASSUME IInv, IInv', Sorted, ~Ended, UNCHANGED << box, shown, dropped, sent >>,
         \/ \E f \in Frame : /\ stack' = Append(stack, f)
                             /\ f.pc \notin {"take", "free", "show", "more"} /\ f.read = <<>>
         \/ stack' = Front(stack) /\ Top.pc = "return" /\ ~InMain
  PROVE  Sorted'
<1>0. /\ Depth \in Nat \ {0} /\ DOMAIN stack = 1 .. Depth /\ stack \in Seq(Frame)
      /\ \A i \in 1 .. Depth : stack[i] \in Frame /\ ReadsOf(stack[i], box)
  BY Running DEF IInv, TypeOK, Sorted
<1>1. /\ DOMAIN Places = 1 .. Depth + 3
      /\ Places[1] = box /\ Places[2] = shown /\ Places[3] = dropped
      /\ \A i \in 1 .. Depth : Places[i + 3] = Taken(stack[i])
  BY PlacesAre DEF IInv
<1>2. /\ DOMAIN Places' = 1 .. Depth' + 3
      /\ Places'[1] = box /\ Places'[2] = shown /\ Places'[3] = dropped
      /\ \A i \in 1 .. Depth' : Places'[i + 3] = Taken(stack'[i])
  BY PlacesThen DEF IInv
<1>4. CASE \E f \in Frame : /\ stack' = Append(stack, f)
                            /\ f.pc \notin {"take", "free", "show", "more"} /\ f.read = <<>>
  <2>1. PICK f \in Frame : /\ stack' = Append(stack, f)
                           /\ f.pc \notin {"take", "free", "show", "more"} /\ f.read = <<>>
    BY <1>4
  <2>2. /\ Depth' = Depth + 1 /\ stack'[Depth + 1] = f
        /\ \A i \in 1 .. Depth : stack'[i] = stack[i]
    BY <1>0, <2>1, AppendProperties DEF Depth
  <2>3. Taken(f) = <<>> /\ ReadsOf(f, box)
    BY <2>1 DEF Taken, ReadsOf
  <2>4. \A i \in 1 .. Depth' : ReadsOf(stack'[i], box)
    <3>1. \A i \in 1 .. Depth + 1 : i \in 1 .. Depth \/ i = Depth + 1
      BY <1>0
    <3> QED BY <1>0, <2>2, <2>3, <3>1
  <2>5. \A i \in DOMAIN Places : i \in DOMAIN Places' /\ Places'[i] = Places[i]
    <3> SUFFICES ASSUME NEW i \in 1 .. Depth + 3 PROVE i \in DOMAIN Places' /\ Places'[i] = Places[i]
      BY <1>1
    <3>1. i \in DOMAIN Places'
      BY <1>0, <1>2, <2>2
    <3>2. CASE i \in {1, 2, 3}
      BY <1>1, <1>2, <3>1, <3>2
    <3>3. CASE i \notin {1, 2, 3}
      <4>1. i - 3 \in 1 .. Depth /\ i - 3 \in 1 .. Depth' /\ i = (i - 3) + 3
        BY <1>0, <2>2, <3>3
      <4> QED BY <1>1, <1>2, <2>2, <3>1, <4>1
    <3> QED BY <3>2, <3>3
  <2>6. \A i \in DOMAIN Places' : i \in DOMAIN Places \/ Places'[i] = <<>>
    <3> SUFFICES ASSUME NEW i \in 1 .. (Depth + 1) + 3, i \notin DOMAIN Places PROVE Places'[i] = <<>>
      BY <1>2, <2>2
    <3>1. i = (Depth + 1) + 3 /\ Depth + 1 \in 1 .. Depth'
      BY <1>0, <1>1, <2>2
    <3> QED BY <1>2, <2>2, <2>3, <3>1
  <2>7. Once(Places', sent)
    BY <2>5, <2>6, NoneMoves DEF Sorted
  <2> QED BY <2>4, <2>7 DEF Sorted
<1>5. CASE stack' = Front(stack) /\ Top.pc = "return" /\ ~InMain
  <2>1. Depth \in Nat \ {0, 1} /\ stack # <<>>
    BY <1>0, <1>5 DEF InMain, Ended
  <2>2. Depth' = Depth - 1 /\ \A i \in 1 .. Depth - 1 : stack'[i] = stack[i]
    <3>1. Len(stack') = Depth - 1 /\ \A i \in 1 .. Depth - 1 : stack'[i] = stack[i]
      BY <1>0, <1>5, <2>1, FrontIs DEF Depth
    <3> QED BY <3>1 DEF Depth
  <2>3. Places[Depth + 3] = <<>>
    <3>1. Depth \in 1 .. Depth /\ Top = stack[Depth]
      BY <1>0 DEF Top
    <3>2. Taken(Top) = <<>>
      BY <1>0, <1>5, <3>1 DEF Taken, ReadsOf
    <3> QED BY <1>1, <3>1, <3>2
  <2>4. \A i \in 1 .. Depth' : i \in 1 .. Depth - 1 /\ i \in 1 .. Depth
    BY <1>0, <2>1, <2>2
  <2>5. \A i \in DOMAIN Places' : i \in DOMAIN Places /\ Places'[i] = Places[i]
    <3> SUFFICES ASSUME NEW i \in 1 .. Depth' + 3 PROVE i \in DOMAIN Places /\ Places'[i] = Places[i]
      BY <1>2
    <3>1. i \in DOMAIN Places /\ i \in DOMAIN Places'
      BY <1>1, <1>2, <2>1, <2>2
    <3>2. CASE i \in {1, 2, 3}
      BY <1>1, <1>2, <3>1, <3>2
    <3>3. CASE i \notin {1, 2, 3}
      <4>1. i - 3 \in 1 .. Depth' /\ i = (i - 3) + 3
        BY <2>1, <2>2, <3>3
      <4> QED BY <1>1, <1>2, <2>2, <2>4, <3>1, <4>1
    <3> QED BY <3>2, <3>3
  <2>6. \A i \in DOMAIN Places : i \in DOMAIN Places' \/ Places[i] = <<>>
    <3> SUFFICES ASSUME NEW i \in 1 .. Depth + 3, i \notin 1 .. Depth' + 3 PROVE Places[i] = <<>>
      BY <1>1, <1>2
    <3>1. i = Depth + 3
      BY <2>1, <2>2
    <3> QED BY <2>3, <3>1
  <2>7. Once(Places', sent)
    BY <2>5, <2>6, NoneMoves DEF Sorted
  <2>8. \A i \in 1 .. Depth' : ReadsOf(stack'[i], box)
    BY <1>0, <2>2, <2>4
  <2> QED BY <2>7, <2>8 DEF Sorted
<1> QED BY <1>4, <1>5

(* Another message is stored while nobody empties the file, by another     *)
(* session or by the frame that runs.                                      *)
LEMMA PostSorted ==
  ASSUME IInv, IInv', Sorted, ~Ended, Post, UNCHANGED << shown, dropped >>, Depth' = Depth,
         \A i \in 1 .. Depth : /\ Taken(stack'[i]) = Taken(stack[i]) /\ ReadsOf(stack'[i], box)
                               /\ stack'[i].pc # "take"
  PROVE  Sorted'
<1>1. sent \in Nat /\ sent' = sent + 1 /\ sent + 1 \in 1 .. MaxMsgs
      /\ box' = Append(box, sent + 1) /\ box \in Seq(1 .. MaxMsgs)
  BY BoundsAssumption DEF Post, IInv, TypeOK
<1>2. /\ Depth \in Nat /\ DOMAIN Places = 1 .. Depth + 3
      /\ Places[1] = box /\ Places[2] = shown /\ Places[3] = dropped
      /\ \A i \in 1 .. Depth : Places[i + 3] = Taken(stack[i])
  BY PlacesAre DEF IInv
<1>3. /\ DOMAIN Places' = 1 .. Depth + 3
      /\ Places'[1] = box' /\ Places'[2] = shown /\ Places'[3] = dropped
      /\ \A i \in 1 .. Depth : Places'[i + 3] = Taken(stack[i])
  BY PlacesThen DEF IInv
<1>4. ASSUME NEW i \in DOMAIN Places \ {1} PROVE Places'[i] = Places[i]
  <2>1. CASE i \in {2, 3}
    BY <1>2, <1>3, <2>1
  <2>2. CASE i \notin {2, 3}
    <3>1. i - 3 \in 1 .. Depth /\ i = (i - 3) + 3
      BY <1>2, <1>4, <2>2
    <3> QED BY <1>2, <1>3, <3>1
  <2> QED BY <2>1, <2>2
<1>5. 1 \in DOMAIN Places
  BY <1>2
<1>6. Once(Places', sent')
  <2>1. Once(Places, sent) /\ DOMAIN Places' = DOMAIN Places
    BY <1>2, <1>3 DEF Sorted
  <2>2. Places[1] \in Seq(1 .. MaxMsgs) /\ Places'[1] = Append(Places[1], sent + 1)
    BY <1>1, <1>2, <1>3
  <2> QED BY <1>1, <1>4, <1>5, <2>1, <2>2, OneMore
<1>7. \A i \in 1 .. Depth : ReadsOf(stack'[i], box')
  BY DEF ReadsOf
<1> QED BY <1>6, <1>7 DEF Sorted

-----------------------------------------------------------------------------
LEMMA SortedFirst == Init => Sorted
<1> SUFFICES ASSUME Init PROVE Sorted
  OBVIOUS
<1> DEFINE f == [pc |-> "msg", back |-> "prompt", read |-> <<>>,
                 old |-> {}, found |-> {}, saved |-> {}]
<1>1. f.pc = "msg" /\ f.read = <<>> /\ stack = << f >> /\ box = <<>> /\ shown = <<>>
      /\ dropped = <<>> /\ sent = 0
  BY DEF Init
<1> HIDE DEF f
<1>2. Depth = 1 /\ stack[1] = f
  BY <1>1 DEF Depth
<1>3. TypeOK
  BY InitHolds DEF IInv
<1>4. DOMAIN Places = 1 .. 4 /\ \A i \in 1 .. 4 : Places[i] = <<>>
  <2>1. /\ DOMAIN Places = 1 .. Depth + 3
      /\ Places[1] = box /\ Places[2] = shown /\ Places[3] = dropped
        /\ \A i \in 1 .. Depth : Places[i + 3] = Taken(stack[i])
    BY <1>3, PlacesAre
  <2>2. Taken(f) = <<>> /\ 1 \in 1 .. Depth /\ 1 + 3 = 4 /\ Depth + 3 = 4
    BY <1>1, <1>2 DEF Taken
  <2> QED BY <1>1, <1>2, <2>1, <2>2
<1>5. \A i \in DOMAIN Places : Places[i] = <<>>
  BY <1>4
<1>6. Once(Places, 0)
  <2>1. DOMAIN <<>> = {} /\ 1 .. 0 = {}
    OBVIOUS
  <2> QED BY <1>5, <2>1 DEF Once
<1>7. \A i \in 1 .. Depth : ReadsOf(stack[i], box)
  <2>1. \A i \in 1 .. Depth : stack[i] = f
    BY <1>2
  <2> QED BY <1>1, <2>1 DEF ReadsOf
<1> QED BY <1>1, <1>6, <1>7 DEF Sorted

(* display_msg moves messages to its frame, and on to what was shown.      *)
LEMMA DisplaySorted ==
  ASSUME IInv, IInv', Sorted,
         \/ DisplayMsg \/ ReadMsgs \/ DisplayFails \/ TakeMsgs \/ FreeMsgs \/ ShowMsg \/ ClearMsgs
         \/ More \/ GoOn \/ Stop
  PROVE  Sorted'
<1>0. /\ ~Ended /\ Top \in Frame /\ Depth \in Nat \ {0} /\ Depth \in 1 .. Depth
      /\ box \in Msgs /\ shown \in Msgs /\ dropped \in Msgs /\ mask \in SUBSET Sigs /\ Top = stack[Depth]
      /\ \A i \in 1 .. Depth : ReadsOf(stack[i], box)
      /\ ReadsOf(Top, box) /\ Once(Places, sent)
  <2>1. ~Ended
    BY DEF DisplayMsg, ReadMsgs, DisplayFails, TakeMsgs, FreeMsgs, ShowMsg, ClearMsgs, More, GoOn, Stop, At
  <2> QED BY <2>1, Running DEF IInv, TypeOK, Msgs, Sorted, Top
<1>1. /\ DOMAIN Places = 1 .. Depth + 3
      /\ Places[1] = box /\ Places[2] = shown /\ Places[3] = dropped
      /\ Places[Depth + 3] = Taken(Top) /\ \A i \in DOMAIN Places : Places[i] \in Msgs
  BY <1>0, PlacesAre DEF IInv
<1>2. Places'[1] = box' /\ Places'[2] = shown' /\ Places'[3] = dropped'
  BY PlacesThen DEF IInv
<1>3. CASE DisplayMsg /\ Change_msg
  <2> DEFINE f == [Top EXCEPT !.pc = "open", !.old = mask]
  <2>1. f \in Frame /\ f.pc = "open" /\ f.read = Top.read
    BY <1>0 DEF Frame, Labels
  <2>2. stack' = [stack EXCEPT ![Depth] = f]
    BY <1>0, <1>3, Running DEF DisplayMsg, Top, IInv
  <2> HIDE DEF f
  <2>3. Taken(f) = Taken(Top) /\ ReadsOf(f, box) /\ UNCHANGED << box, shown, dropped, sent >>
    BY <1>0, <1>3, <2>1 DEF DisplayMsg, At, Taken, ReadsOf, mail
  <2> QED BY <1>0, <2>1, <2>2, <2>3, TopSorted
<1>4. CASE DisplayMsg /\ ~Change_msg
  <2>1. GoTo("prompt") /\ Top.pc = "msg" /\ Top.read = <<>> /\ UNCHANGED << box, shown, dropped, sent >>
    BY <1>0, <1>4 DEF DisplayMsg, At, ReadsOf, mail
  <2> QED BY <1>0, <2>1, GoToSorted DEF Labels
<1>5. CASE ReadMsgs
  <2> DEFINE f == [Top EXCEPT !.pc = "take", !.read = box]
  <2>1. f \in Frame /\ f.pc = "take" /\ f.read = box
    BY <1>0 DEF Frame, Labels, Msgs
  <2>2. stack' = [stack EXCEPT ![Depth] = f]
    BY <1>0, <1>5, Running DEF ReadMsgs, Top, IInv
  <2> HIDE DEF f
  <2>3. Taken(f) = Taken(Top) /\ ReadsOf(f, box) /\ UNCHANGED << box, shown, dropped, sent >>
    BY <1>0, <1>5, <2>1 DEF ReadMsgs, At, Taken, ReadsOf, mail
  <2> QED BY <1>0, <2>1, <2>2, <2>3, TopSorted
<1>6. CASE TakeMsgs
  <2> DEFINE f == [Top EXCEPT !.pc = "free"]
  <2>1. f \in Frame /\ f.pc = "free" /\ f.read = Top.read
    BY <1>0 DEF Frame, Labels
  <2>2. stack' = [stack EXCEPT ![Depth] = f]
    BY <1>0, <1>6, Running DEF TakeMsgs, GoTo, Top, IInv
  <2> HIDE DEF f
  <2>3. /\ Top.pc = "take" /\ Top.read = box /\ Taken(Top) = <<>> /\ Taken(f) = box
        /\ box' = <<>> /\ UNCHANGED << shown, dropped, sent >>
    BY <1>0, <1>6, <2>1 DEF TakeMsgs, At, Taken, ReadsOf
  <2>4. /\ Depth' = Depth /\ DOMAIN Places' = DOMAIN Places
        /\ Places'[Depth + 3] = Taken(f)
        /\ \A i \in DOMAIN Places \ {1, 2, 3, Depth + 3} : Places'[i] = Places[i]
        /\ stack'[Depth] = f /\ \A i \in 1 .. Depth : i # Depth => stack'[i] = stack[i]
    BY <1>0, <2>1, <2>2, TopThen
  <2>5. Once(Places', sent)
    <3>1. 1 \in DOMAIN Places /\ Depth + 3 \in DOMAIN Places /\ 1 # Depth + 3
      BY <1>0, <1>1
    <3>2. \A i \in DOMAIN Places \ {1, Depth + 3} : Places'[i] = Places[i]
      BY <1>1, <1>2, <2>3, <2>4
    <3>3. /\ Places[Depth + 3] = <<>> /\ Places'[1] = <<>> /\ Places'[Depth + 3] = Places[1]
          /\ DOMAIN Places' = DOMAIN Places
      BY <1>1, <1>2, <2>3, <2>4
    <3> QED BY <1>0, <3>1, <3>2, <3>3, AllMove
  <2>6. \A i \in 1 .. Depth : ReadsOf(stack'[i], box')
    <3>1. ReadsOf(f, box')
      BY <2>1 DEF ReadsOf
    <3>2. ASSUME NEW i \in 1 .. Depth, i # Depth PROVE ReadsOf(stack[i], box')
      <4>1. stack[i].pc # "take"
        BY <1>0, <2>3, <3>2 DEF IInv, Guarded, HasLock
      <4> QED BY <1>0, <4>1 DEF ReadsOf
    <3> QED BY <2>4, <3>1, <3>2
  <2> QED BY <2>3, <2>4, <2>5, <2>6 DEF Sorted
<1>7. CASE FreeMsgs
  <2> DEFINE f == [Top EXCEPT !.pc = "show"]
  <2>1. f \in Frame /\ f.pc = "show" /\ f.read = Top.read
    BY <1>0 DEF Frame, Labels
  <2>2. stack' = [stack EXCEPT ![Depth] = f]
    BY <1>0, <1>7, Running DEF FreeMsgs, GoTo, Top, IInv
  <2> HIDE DEF f
  <2>3. Taken(f) = Taken(Top) /\ ReadsOf(f, box) /\ UNCHANGED << box, shown, dropped, sent >>
    BY <1>0, <1>7, <2>1 DEF FreeMsgs, At, Taken, ReadsOf, mail
  <2> QED BY <1>0, <2>1, <2>2, <2>3, TopSorted
<1>8. CASE ShowMsg
  <2> DEFINE f == [Top EXCEPT !.read = Tail(Top.read)]
  <2>0. Top.read \in Msgs /\ Top.read # <<>> /\ Tail(Top.read) \in Msgs
    BY <1>0, <1>8, HeadTailProperties DEF ShowMsg, Frame, Msgs
  <2>1. f \in Frame /\ f.pc = "show" /\ f.read = Tail(Top.read)
    BY <1>0, <1>8, <2>0 DEF Frame, Labels, Msgs, ShowMsg, At
  <2>2. stack' = [stack EXCEPT ![Depth] = f]
    BY <1>0, <1>8, Running DEF ShowMsg, Top, IInv
  <2> HIDE DEF f
  <2>3. /\ Taken(Top) = Top.read /\ Taken(f) = Tail(Top.read)
        /\ shown' = Append(shown, Head(Top.read)) /\ UNCHANGED << box, dropped, sent >>
    BY <1>0, <1>8, <2>1 DEF ShowMsg, At, Taken
  <2>4. /\ Depth' = Depth /\ DOMAIN Places' = DOMAIN Places
        /\ Places'[Depth + 3] = Taken(f)
        /\ \A i \in DOMAIN Places \ {1, 2, 3, Depth + 3} : Places'[i] = Places[i]
        /\ stack'[Depth] = f /\ \A i \in 1 .. Depth : i # Depth => stack'[i] = stack[i]
    BY <1>0, <2>1, <2>2, TopThen
  <2>5. Once(Places', sent)
    <3>1. 2 \in DOMAIN Places /\ Depth + 3 \in DOMAIN Places /\ Depth + 3 # 2
      BY <1>0, <1>1
    <3>2. \A i \in DOMAIN Places \ {Depth + 3, 2} : Places'[i] = Places[i]
      BY <1>1, <1>2, <2>3, <2>4
    <3>3. /\ Places'[Depth + 3] = Tail(Places[Depth + 3])
          /\ Places'[2] = Append(Places[2], Head(Places[Depth + 3]))
          /\ DOMAIN Places' = DOMAIN Places /\ Places[Depth + 3] # <<>>
      BY <1>1, <1>2, <2>0, <2>3, <2>4
    <3>4. Places[2] \in Seq(1 .. MaxMsgs) /\ Places[Depth + 3] \in Seq(1 .. MaxMsgs)
      BY <1>1, <3>1 DEF Msgs
    <3> QED BY <1>0, <3>1, <3>2, <3>3, <3>4, FirstMoves
  <2>6. \A i \in 1 .. Depth : ReadsOf(stack'[i], box')
    <3>1. ReadsOf(f, box')
      BY <2>1 DEF ReadsOf
    <3> QED BY <1>0, <2>3, <2>4, <3>1
  <2> QED BY <2>3, <2>4, <2>5, <2>6 DEF Sorted
<1>9. CASE DisplayFails \/ ClearMsgs
  <2> DEFINE f == [Top EXCEPT !.pc = "prompt", !.old = {}]
  <2>1. f \in Frame /\ f.pc = "prompt" /\ f.read = Top.read
    BY <1>0 DEF Frame, Labels
  <2>2. stack' = [stack EXCEPT ![Depth] = f]
    BY <1>0, <1>9, Running DEF DisplayFails, ClearMsgs, Top, IInv
  <2> HIDE DEF f
  <2>3. /\ Top.read = <<>> /\ Top.pc # "take" /\ UNCHANGED << box, shown, dropped, sent >>
    BY <1>0, <1>9 DEF DisplayFails, ClearMsgs, At, ReadsOf, mail
  <2>4. Taken(f) = Taken(Top) /\ ReadsOf(f, box)
    BY <2>1, <2>3 DEF Taken, ReadsOf
  <2> QED BY <1>0, <2>1, <2>2, <2>3, <2>4, TopSorted
<1>10. CASE More \/ GoOn
  <2>1. PICK l \in {"show", "more"} : GoTo(l)
    BY <1>10 DEF More, GoOn
  <2>2. Top.pc # "take" /\ UNCHANGED << box, shown, dropped, sent >>
    BY <1>10 DEF More, GoOn, At, mail
  <2> QED BY <1>0, <2>1, <2>2, ReadingSorted
<1>11. CASE Stop
  <2> DEFINE f == [Top EXCEPT !.pc = "show", !.read = <<>>]
  <2>0. <<>> \in Seq(1 .. MaxMsgs)
    BY EmptySeq
  <2>1. f \in Frame /\ f.pc = "show" /\ f.read = <<>>
    BY <1>0, <2>0 DEF Frame, Labels
  <2>2. stack' = [stack EXCEPT ![Depth] = f]
    BY <1>0, <1>11, Running DEF Stop, Top, IInv
  <2> HIDE DEF f
  <2>3. /\ Taken(Top) = Top.read /\ Taken(f) = <<>>
        /\ dropped' = dropped \o Top.read /\ UNCHANGED << box, shown, sent >>
    BY <1>0, <1>11, <2>1 DEF Stop, At, Taken
  <2>4. /\ Depth' = Depth /\ DOMAIN Places' = DOMAIN Places
        /\ Places'[Depth + 3] = Taken(f)
        /\ \A i \in DOMAIN Places \ {1, 2, 3, Depth + 3} : Places'[i] = Places[i]
        /\ stack'[Depth] = f /\ \A i \in 1 .. Depth : i # Depth => stack'[i] = stack[i]
    BY <1>0, <2>1, <2>2, TopThen
  <2>5. Once(Places', sent)
    <3>1. 3 \in DOMAIN Places /\ Depth + 3 \in DOMAIN Places /\ Depth + 3 # 3
      BY <1>0, <1>1
    <3>2. \A i \in DOMAIN Places \ {Depth + 3, 3} : Places'[i] = Places[i]
      BY <1>1, <1>2, <2>3, <2>4
    <3>3. /\ Places'[Depth + 3] = <<>> /\ Places'[3] = Places[3] \o Places[Depth + 3]
          /\ DOMAIN Places' = DOMAIN Places
      BY <1>1, <1>2, <2>3, <2>4
    <3>4. Places[3] \in Seq(1 .. MaxMsgs) /\ Places[Depth + 3] \in Seq(1 .. MaxMsgs)
      BY <1>1, <3>1 DEF Msgs
    <3> QED BY <1>0, <3>1, <3>2, <3>3, <3>4, AllJoin
  <2>6. \A i \in 1 .. Depth : ReadsOf(stack'[i], box')
    <3>1. ReadsOf(f, box')
      BY <2>1 DEF ReadsOf
    <3> QED BY <1>0, <2>3, <2>4, <3>1
  <2> QED BY <2>3, <2>4, <2>5, <2>6 DEF Sorted
<1> QED BY <1>3, <1>4, <1>5, <1>6, <1>7, <1>8, <1>9, <1>10, <1>11

(* The prompt, the commands, the writes and the input line.                *)
LEMMA ProgramSorted ==
  ASSUME IInv, IInv', Sorted,
         \/ BeginWrite \/ EndWrite \/ HaffoEnds \/ Input \/ CommandEnds \/ Passwd \/ Key
         \/ WarnOpens \/ WarnFails \/ WarnNotifies
  PROVE  Sorted'
<1>1. ~Ended /\ Top.pc \in {"prompt", "command", "half", "wait", "typing", "warn", "notify"}
      /\ UNCHANGED << box, shown, dropped, sent >>
  BY DEF BeginWrite, EndWrite, HaffoEnds, Input, CommandEnds, Passwd, Key, WarnOpens, WarnFails,
         WarnNotifies, At, mail
<1>2. Top \in Frame /\ Top.read = <<>>
  BY <1>1, Running DEF Sorted, ReadsOf, IInv, Top
<1>3. CASE BeginWrite
  <2> DEFINE f == [Top EXCEPT !.pc = "half", !.back = Top.pc]
  <2>1. f \in Frame /\ f.pc = "half" /\ f.read = <<>>
    BY <1>2, <1>3 DEF BeginWrite, At, Frame, Labels
  <2>2. stack' = [stack EXCEPT ![Depth] = f]
    BY <1>1, <1>3, Running DEF BeginWrite, Top, IInv
  <2> HIDE DEF f
  <2>3. Taken(f) = Taken(Top) /\ ReadsOf(f, box)
    BY <1>1, <1>2, <2>1 DEF Taken, ReadsOf
  <2> QED BY <1>1, <2>1, <2>2, <2>3, TopSorted
<1>4. CASE EndWrite
  <2> DEFINE f == [Top EXCEPT !.pc = Top.back, !.back = "prompt"]
  <2>1. f \in Frame /\ f.pc \in {"prompt", "command"} /\ f.read = <<>>
    BY <1>2 DEF Frame, Labels
  <2>2. stack' = [stack EXCEPT ![Depth] = f]
    BY <1>1, <1>4, Running DEF EndWrite, Top, IInv
  <2> HIDE DEF f
  <2>3. Taken(f) = Taken(Top) /\ ReadsOf(f, box)
    BY <1>1, <1>2, <2>1 DEF Taken, ReadsOf
  <2> QED BY <1>1, <2>1, <2>2, <2>3, TopSorted
<1>5. CASE \/ HaffoEnds \/ Input \/ CommandEnds \/ Passwd \/ Key
           \/ WarnOpens \/ WarnFails \/ WarnNotifies
  <2>1. PICK l \in {"return", "wait", "msg", "typing", "command", "store"} : GoTo(l)
    BY <1>5 DEF HaffoEnds, Input, CommandEnds, Passwd, Key, WarnOpens, WarnFails, WarnNotifies
  <2> QED BY <1>1, <1>2, <2>1, GoToSorted DEF Labels
<1> QED BY <1>3, <1>4, <1>5

LEMMA DeliverSorted ==
  ASSUME IInv, IInv', Sorted, Deliver \/ HandlerReturns
  PROVE  Sorted'
<1>0. ~Ended
  BY DEF Deliver, HandlerReturns
<1>1. CASE Deliver /\ Quit
  BY <1>1 DEF Quit, Logout, Sorted, Ended
<1>2. ASSUME NEW s \in Notices, Haffo(s) \/ Note(s)
      PROVE  Sorted'
  <2>1. PICK l \in {"msg", "return"}, m \in {{}, mask \cup {s}} : stack' = Append(stack, NewFrame(l, m))
    BY <1>2 DEF Haffo, Note
  <2> DEFINE f == NewFrame(l, m)
  <2>2. f \in Frame /\ f.pc \notin {"take", "free", "show", "more"} /\ f.read = <<>>
    <3>1. mask \in SUBSET Sigs /\ s \in Sigs /\ <<>> \in Seq(1 .. MaxMsgs)
      BY <1>2, EmptySeq DEF IInv, TypeOK, Sigs
    <3> QED BY <3>1 DEF NewFrame, Frame, Labels
  <2>3. stack' = Append(stack, f)
    BY <2>1
  <2> HIDE DEF f
  <2>4. UNCHANGED << box, shown, dropped, sent >>
    BY <1>2 DEF Haffo, Note, mail
  <2> QED BY <1>0, <2>2, <2>3, <2>4, HandlerSorted
<1>3. CASE HandlerReturns
  BY <1>0, <1>3, HandlerSorted DEF HandlerReturns, Return, mail
<1> QED BY <1>1, <1>2, <1>3 DEF Deliver

LEMMA SortedStays ==
  ASSUME Sorted, UNCHANGED << stack, box, shown, dropped, sent >>
  PROVE  Sorted'
BY DEF Sorted, Ended, Depth, Places, ReadsOf

(* The warning is stored by the one frame that has the lock.               *)
LEMMA WarningSorted ==
  ASSUME IInv, IInv', Sorted, WarnStores
  PROVE  Sorted'
<1>1. /\ ~Ended /\ Post /\ Top.pc = "store" /\ GoTo("notify") /\ UNCHANGED << shown, dropped >>
  BY DEF WarnStores, At
<1>2. /\ Depth \in Nat \ {0} /\ DOMAIN stack = 1 .. Depth /\ Depth \in 1 .. Depth /\ Top \in Frame
      /\ Top = stack[Depth]
  BY <1>1, Running DEF IInv, Top
<1> DEFINE f == [Top EXCEPT !.pc = "notify"]
<1>3. f \in Frame /\ f.pc = "notify" /\ f.read = Top.read /\ Top.read = <<>>
  BY <1>1, <1>2 DEF Frame, Labels, Sorted, ReadsOf
<1>4. stack' = [stack EXCEPT ![Depth] = f]
  BY <1>1, <1>2 DEF GoTo, Top
<1> HIDE DEF f
<1>5. Depth' = Depth /\ stack'[Depth] = f /\ \A i \in 1 .. Depth : i # Depth => stack'[i] = stack[i]
  BY <1>1, <1>3, <1>4, TopThen
<1>6. ASSUME NEW i \in 1 .. Depth
      PROVE  /\ Taken(stack'[i]) = Taken(stack[i]) /\ ReadsOf(stack'[i], box)
             /\ stack'[i].pc # "take"
  <2>1. CASE i = Depth
    BY <1>1, <1>2, <1>3, <1>5, <2>1 DEF Taken, ReadsOf
  <2>2. CASE i # Depth
    <3>1. stack[i].pc # "take"
      BY <1>1, <1>2, <2>2 DEF IInv, Guarded, HasLock
    <3> QED BY <1>1, <1>5, <2>2, <3>1 DEF Sorted
  <2> QED BY <2>1, <2>2
<1> QED BY <1>1, <1>5, <1>6, PostSorted

LEMMA SortedKeeps == ASSUME IInv, IInv', Sorted, [Next]_vars PROVE Sorted'
<1>1. CASE SignalMsg \/ SignalText \/ Hangup \/ UNCHANGED vars
  BY <1>1, SortedStays DEF SignalMsg, SignalText, Hangup, vars, mail
<1>2. CASE Send
  <2>1. Depth' = Depth /\ \A i \in 1 .. Depth : stack'[i].pc # "take"
    BY <1>2 DEF Send, Depth, Locked
  <2> QED BY <1>2, <2>1, PostSorted DEF Send, Sorted
<1>3. CASE Alarm
  <2> DEFINE f == NewFrame("warn", {})
  <2>1. f \in Frame /\ f.pc = "warn" /\ f.read = <<>>
    BY EmptySeq DEF NewFrame, Frame, Labels, IInv, TypeOK
  <2>2. stack' = Append(stack, f) /\ ~Ended /\ UNCHANGED << box, shown, dropped, sent >>
    BY <1>3 DEF Alarm, mail
  <2> HIDE DEF f
  <2> QED BY <2>1, <2>2, HandlerSorted
<1>4. CASE TimeOut
  BY <1>4 DEF TimeOut, Logout, Sorted, Ended
<1>5. CASE WarnStores
  BY <1>5, WarningSorted
<1> QED BY <1>1, <1>2, <1>3, <1>4, <1>5, DisplaySorted, ProgramSorted, DeliverSorted DEF Next, Program

(* display_msg and send_msg (src/msg.c): no message is lost or displayed   *)
(* twice, whatever handlers interrupt the reading and emptying of MSG_FILE,*)
(* but for those that a user does not want to see at --more--.             *)
THEOREM NoneIsLost == Spec => []MessagesKept
<1>1. IInv /\ Sorted => MessagesKept
  BY OneCopy DEF IInv, Sorted, MessagesKept
<1>2. IInv /\ Sorted /\ [Next]_vars => (IInv /\ Sorted)'
  BY NextKeeps, SortedKeeps
<1> QED BY InitHolds, SortedFirst, <1>1, <1>2, PTL DEF Spec
=============================================================================
