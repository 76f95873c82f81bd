--------------------------- MODULE PostingProofs ---------------------------
(***************************************************************************)
(* No text is lost while everybody locks CONF_FILE and nobody changes a    *)
(* conference that texts are posted in: for every number of sessions,      *)
(* moderators and conferences, whoever dies, fails or gives up.  And the   *)
(* letters that one user writes go where they are meant to, once, for any  *)
(* conferences and systems.                                                *)
(***************************************************************************)
EXTENDS Posting, SequenceTheorems, FiniteSetTheorems, TLAPS

(* Letters.  Its News are called Groups here.                              *)
CONSTANTS Bad, Uid, Friend, Local, Ftn, Groups, Worlds, MaxLetters
VARIABLES world, box, jobs, echo, sent, edit, draft, dead, hup, hangups, meant, astray, cut

Letters == INSTANCE Letters WITH News <- Groups

(* CONF_FILE is never renamed over, so that one lock protects it.          *)
OneInode == conf_file = 1 /\ Len(inode) = 1

(* What the two kinds of processes do.  A moderator's copy is not stale.   *)
Roles ==
  /\ \A s \in Sessions :
       /\ pc[s] \in {"ready", "lock", "wait", "create", "write", "publish", "done"}
       /\ pc[s] # "ready" => conf[s] \in Posted
  /\ \A m \in Moderators :
       /\ pc[m] \in {"ready", "ask", "lock", "wait", "store"}
       /\ pc[m] # "ready" => conf[m] \in Edited /\ copy[m] = inode[1][conf[m]]

(* Whoever is about to write CONF_FILE back has it locked, and what he has *)
(* in his buffer is CONF_FILE but for one line.                            *)
Busy(p) == pc[p] \in {"create", "write", "publish", "store"}
Locked == \A p \in Procs : Busy(p) => holder[1] = p /\ buf[p] = Replaced(p)

(* The text is written before it counts, and every text that counts was.   *)
Written ==
  /\ \A s \in Sessions : pc[s] = "publish" =>
       Number(s) \in DOMAIN text[conf[s]] /\ text[conf[s]][Number(s)] = mine[s]
  /\ \A c \in Confs : \A n \in DOMAIN text[c] : n <= inode[1][c] => text[c][n] # Empty

(* A text that is being saved is not in any log yet, nor is another        *)
(* session saving it.                                                      *)
Saving(s) == pc[s] \in {"lock", "wait", "create", "write", "publish"}
Fresh ==
  /\ \A s \in Sessions : Saving(s) => mine[s] \in 1 .. posts
  /\ \A s, r \in Sessions : Saving(s) /\ Saving(r) /\ s # r => mine[s] # mine[r]
  /\ \A c \in Confs : \A n \in DOMAIN text[c] :
       /\ text[c][n] <= posts
       /\ \A s \in Sessions : n <= inode[1][c] /\ Saving(s) => text[c][n] # mine[s]

(* The inductive invariant.                                                *)
IInv == TypeOK /\ OneInode /\ Roles /\ Locked /\ Written /\ Fresh /\ Announced

(* All that CONF_FILE is when nobody tosses.                               *)
LEMMA OneFile ==
  ASSUME TypeOK, OneInode
  PROVE  /\ Last = inode[1] /\ inode[1] \in [Confs -> Nat]
         /\ \A p \in Procs : fd[p] = 1
         /\ holder \in Seq(Procs \cup {None}) /\ Len(holder) = 1 /\ DOMAIN holder = {1}
<1>1. inode \in Seq([Confs -> Nat]) /\ Len(inode) = 1
  BY DEF TypeOK, OneInode
<1>2. DOMAIN inode = {1}
  BY <1>1
<1>3. holder \in Seq(Procs \cup {None}) /\ Len(holder) = 1
  BY <1>1 DEF TypeOK
<1>4. DOMAIN holder = {1}
  BY <1>3
<1>5. \A p \in Procs : fd[p] = 1
  BY <1>2 DEF TypeOK
<1> QED BY <1>1, <1>3, <1>4, <1>5 DEF Last, OneInode

(* A process that returns, or waits, keeps everything as it is.            *)
LEMMA PcOnly ==
  ASSUME IInv, NEW p \in Procs, NEW l,
         pc' = [pc EXCEPT ![p] = l],
         l = "ready" \/ (l = "wait" /\ pc[p] = "lock"),
         UNCHANGED << table, text, posts, local >>, ftnlock' \in Tossers \cup {None}
  PROVE  IInv'
<1>0. /\ UNCHANGED << conf_file, inode, holder, text, posts, conf, fd, buf, mine, copy >>
      /\ TypeOK /\ OneInode /\ Roles /\ Locked /\ Written /\ Fresh /\ Announced
  BY DEF IInv, table, local
<1>1. pc \in [Procs -> Labels] /\ pc' \in [Procs -> Labels]
  BY <1>0 DEF TypeOK, Labels
<1>2. TypeOK'
  BY <1>0, <1>1 DEF TypeOK, Texts
<1>3. OneInode'
  BY <1>0 DEF OneInode
<1>4. \A q \in Procs : pc'[q] = IF q = p THEN l ELSE pc[q]
  BY <1>1
<1>5. Roles'
  BY <1>0, <1>4 DEF Roles, Procs
<1>6. Locked'
  BY <1>0, <1>4 DEF Locked, Busy, Replaced
<1>7. Written'
  BY <1>0, <1>4 DEF Written, Number, Procs
<1>8. Fresh'
  BY <1>0, <1>4 DEF Fresh, Saving, Procs
<1>9. Announced'
  BY <1>0, <1>4 DEF Announced, Number, Last, Procs
<1> QED BY <1>2, <1>3, <1>5, <1>6, <1>7, <1>8, <1>9 DEF IInv

-----------------------------------------------------------------------------
(* save_text opens CONF_FILE for a new text.                               *)
LEMMA SaveIInv ==
  ASSUME IInv, NEW s \in Sessions, NEW c \in Posted, Save(s, c)
  PROVE  IInv'
<1>0. /\ TypeOK /\ OneInode /\ Roles /\ Locked /\ Written /\ Fresh /\ Announced
      /\ UNCHANGED << conf_file, inode, holder, text, ftnlock, buf, copy >>
      /\ posts < MaxPosts /\ posts' = posts + 1
      /\ pc' = [pc EXCEPT ![s] = "lock"] /\ pc[s] = "ready"
      /\ mine' = [mine EXCEPT ![s] = posts + 1] /\ conf' = [conf EXCEPT ![s] = c]
      /\ fd' = [fd EXCEPT ![s] = conf_file]
      /\ s \in Procs /\ c \in Confs
  BY ConfsAssumption DEF IInv, table, Save, Go, NewText, Procs
<1>1. /\ posts \in 0 .. MaxPosts /\ posts' \in 0 .. MaxPosts /\ posts \in Nat
      /\ posts + 1 \in 0 .. MaxPosts
  BY <1>0, MaxPostsAssumption DEF TypeOK
<1>2. /\ pc \in [Procs -> Labels] /\ mine \in [Procs -> 0 .. MaxPosts]
      /\ conf \in [Procs -> Confs] /\ fd \in [Procs -> DOMAIN inode]
  BY <1>0 DEF TypeOK
<1>3. /\ \A q \in Procs : pc'[q] = IF q = s THEN "lock" ELSE pc[q]
      /\ \A q \in Procs : mine'[q] = IF q = s THEN posts + 1 ELSE mine[q]
      /\ \A q \in Procs : conf'[q] = IF q = s THEN c ELSE conf[q]
      /\ \A q \in Procs : q # s => fd'[q] = fd[q]
  BY <1>0, <1>2
<1>4. TypeOK'
  <2>1. pc' \in [Procs -> Labels]
    BY <1>0, <1>2 DEF Labels
  <2>2. mine' \in [Procs -> 0 .. MaxPosts]
    BY <1>0, <1>1, <1>2
  <2>3. conf' \in [Procs -> Confs] /\ fd' \in [Procs -> DOMAIN inode']
    BY <1>0, <1>2 DEF TypeOK
  <2> QED BY <1>0, <1>1, <2>1, <2>2, <2>3 DEF TypeOK
<1>5. OneInode'
  BY <1>0 DEF OneInode
<1>6. Roles'
  BY <1>0, <1>3, ProcsAssumption DEF Roles, Procs
<1>7. Locked'
  BY <1>0, <1>3 DEF Locked, Busy, Replaced
<1>8. Written'
  BY <1>0, <1>3 DEF Written, Number, Procs
<1>9. Fresh'
  <2>1. \A r \in Sessions : Saving(r) => mine[r] \in 1 .. posts
    BY <1>0 DEF Fresh
  <2>2. \A r \in Sessions : Saving(r)' => mine'[r] \in 1 .. posts'
    BY <1>0, <1>1, <1>3, <2>1 DEF Saving, Procs
  <2>3. \A r, q \in Sessions : Saving(r)' /\ Saving(q)' /\ r # q => mine'[r] # mine'[q]
    <3> SUFFICES ASSUME NEW r \in Sessions, NEW q \in Sessions, r # q,
                        Saving(r)', Saving(q)'
                 PROVE  mine'[r] # mine'[q]
      OBVIOUS
    <3>1. r = s \/ (Saving(r) /\ mine'[r] = mine[r] /\ mine[r] \in 1 .. posts)
      BY <1>3, <2>1 DEF Saving, Procs
    <3>2. q = s \/ (Saving(q) /\ mine'[q] = mine[q] /\ mine[q] \in 1 .. posts)
      BY <1>3, <2>1 DEF Saving, Procs
    <3>3. mine'[s] = posts + 1
      BY <1>0, <1>3
    <3> QED BY <1>0, <1>1, <3>1, <3>2, <3>3 DEF Fresh
  <2>4. ASSUME NEW d \in Confs, NEW n \in DOMAIN text[d]
        PROVE  /\ text[d][n] <= posts'
               /\ \A r \in Sessions : n <= inode[1][d] /\ Saving(r)' => text[d][n] # mine'[r]
    <3>1. text[d][n] <= posts /\ text[d][n] \in Int
      BY <1>0, <2>4 DEF Fresh, TypeOK, Texts, Empty
    <3>2. text[d][n] # posts + 1 /\ text[d][n] <= posts'
      BY <1>0, <1>1, <3>1
    <3> QED BY <1>0, <1>3, <2>4, <3>2 DEF Fresh, Saving, Procs
  <2> QED BY <1>0, <2>2, <2>3, <2>4 DEF Fresh
<1>10. Announced'
  <2>1. \A r \in Sessions \cup Tossers : pc'[r] = "done" =>
          pc[r] = "done" /\ conf'[r] = conf[r] /\ mine'[r] = mine[r]
    BY <1>3 DEF Procs
  <2> QED BY <1>0, <2>1 DEF Announced, Number, Last
<1> QED BY <1>4, <1>5, <1>6, <1>7, <1>8, <1>9, <1>10 DEF IInv

(* A moderator copies a line, and comes back to store it.                  *)
LEMMA AskIInv ==
  ASSUME IInv, NEW m \in Moderators, (\E c \in Edited : Ask(m, c)) \/ Answered(m)
  PROVE  IInv'
<1> DEFINE k == pc'[m]
<1>0. /\ TypeOK /\ OneInode /\ Roles /\ Locked /\ Written /\ Fresh /\ Announced
      /\ UNCHANGED << conf_file, inode, holder, text, posts, ftnlock, buf, mine >>
      /\ m \in Procs /\ m \notin Sessions /\ m \notin Tossers
  BY ProcsAssumption DEF IInv, table, Ask, Answered, Procs
<1>1. /\ pc \in [Procs -> Labels] /\ conf \in [Procs -> Confs]
      /\ fd \in [Procs -> DOMAIN inode] /\ copy \in [Procs -> Nat]
      /\ conf_file \in DOMAIN inode
      /\ inode[1] \in [Confs -> Nat] /\ Last = inode[1]
  BY <1>0, OneFile DEF TypeOK
<1>2. \/ /\ pc' = [pc EXCEPT ![m] = "ask"] /\ fd' = fd
         /\ \E c \in Edited : /\ c \in Confs /\ conf' = [conf EXCEPT ![m] = c]
                              /\ copy' = [copy EXCEPT ![m] = inode[1][c]]
      \/ /\ pc[m] = "ask" /\ pc' = [pc EXCEPT ![m] = "lock"] /\ conf' = conf /\ copy' = copy
         /\ fd' = [fd EXCEPT ![m] = conf_file]
  BY <1>1, ConfsAssumption DEF Ask, Answered, Go
<1>3. /\ k \in {"ask", "lock"}
      /\ \A q \in Procs \ {m} : /\ pc'[q] = pc[q] /\ conf'[q] = conf[q]
                                /\ copy'[q] = copy[q] /\ fd'[q] = fd[q]
  BY <1>0, <1>1, <1>2
<1>4. conf'[m] \in Edited /\ copy'[m] = inode[1][conf'[m]]
  BY <1>0, <1>1, <1>2 DEF Roles
<1>5. TypeOK'
  <2>1. pc' \in [Procs -> Labels]
    BY <1>1, <1>2 DEF Labels
  <2>2. conf' \in [Procs -> Confs] /\ copy' \in [Procs -> Nat]
    BY <1>1, <1>2
  <2>3. fd' \in [Procs -> DOMAIN inode']
    BY <1>0, <1>1, <1>2
  <2> QED BY <1>0, <2>1, <2>2, <2>3 DEF TypeOK
<1>6. OneInode'
  BY <1>0 DEF OneInode
<1>7. Roles'
  BY <1>0, <1>3, <1>4 DEF Roles, Procs
<1>8. Locked'
  BY <1>0, <1>3 DEF Locked, Busy, Replaced
<1>9. Written' /\ Fresh' /\ Announced'
  <2>1. \A r \in Sessions \cup Tossers : pc'[r] = pc[r] /\ conf'[r] = conf[r]
    BY <1>0, <1>3 DEF Procs
  <2>2. Written' /\ Fresh'
    BY <1>0, <2>1 DEF Written, Fresh, Saving, Number
  <2>3. Announced'
    BY <1>0, <2>1 DEF Announced, Number, Last
  <2> QED BY <2>2, <2>3
<1> QED BY <1>5, <1>6, <1>7, <1>8, <1>9 DEF IInv

(* The list of one lock, and the one file, when one is changed.            *)
LEMMA OneExcept ==
  ASSUME NEW S, NEW h \in Seq(S), Len(h) = 1, NEW e \in S
  PROVE  /\ [h EXCEPT ![1] = e] \in Seq(S) /\ Len([h EXCEPT ![1] = e]) = 1
         /\ [h EXCEPT ![1] = e][1] = e
BY ExceptSeq

(* flock succeeds: nobody else is busy, and CONF_FILE is read.             *)
LEMMA LockIInv ==
  ASSUME IInv, NEW p \in Sessions \cup Moderators, Lock(p)
  PROVE  IInv'
<1> DEFINE k == IF p \in Sessions THEN "create" ELSE "store"
<1>0. /\ TypeOK /\ OneInode /\ Roles /\ Locked /\ Written /\ Fresh /\ Announced
      /\ UNCHANGED << conf_file, inode, text, posts, ftnlock, conf, fd, mine, copy >>
      /\ p \in Procs /\ pc[p] \in {"lock", "wait"}
      /\ pc' = [pc EXCEPT ![p] = k] /\ buf' = [buf EXCEPT ![p] = Replaced(p)]
      /\ holder[fd[p]] = None /\ holder' = [holder EXCEPT ![fd[p]] = p]
  BY DEF IInv, Lock, Procs
<1>1. /\ pc \in [Procs -> Labels] /\ conf \in [Procs -> Confs]
      /\ buf \in [Procs -> [Confs -> Nat]] /\ copy \in [Procs -> Nat]
      /\ inode[1] \in [Confs -> Nat] /\ Last = inode[1]
      /\ \A q \in Procs : fd[q] = 1
      /\ holder \in Seq(Procs \cup {None}) /\ Len(holder) = 1
  BY <1>0, OneFile DEF TypeOK
<1>2. Replaced(p) \in [Confs -> Nat]
  BY <1>0, <1>1 DEF Replaced
<1>3. /\ holder' \in Seq(Procs \cup {None}) /\ Len(holder') = 1 /\ holder'[1] = p
  <2>1. holder' = [holder EXCEPT ![1] = p]
    BY <1>0, <1>1
  <2> DEFINE S == Procs \cup {None}
  <2>2. p \in S /\ holder \in Seq(S) /\ Len(holder) = 1
    BY <1>0, <1>1
  <2>3. S = Procs \cup {None}
    OBVIOUS
  <2> HIDE DEF S
  <2>4. [holder EXCEPT ![1] = p] \in Seq(S) /\ Len([holder EXCEPT ![1] = p]) = 1
        /\ [holder EXCEPT ![1] = p][1] = p
    BY <2>2, OneExcept
  <2> QED BY <2>1, <2>3, <2>4
<1>4. \A q \in Procs : q # p => pc'[q] = pc[q] /\ buf'[q] = buf[q]
  BY <1>0, <1>1
<1>5. pc'[p] = k /\ buf'[p] = Replaced(p)
  BY <1>0, <1>1
<1>6. \A q \in Procs : ~Busy(q)
  BY <1>0, <1>1, ProcsAssumption DEF Locked
<1>7. TypeOK'
  <2>1. pc' \in [Procs -> Labels]
    BY <1>0, <1>1 DEF Labels
  <2>2. buf' \in [Procs -> [Confs -> Nat]]
    BY <1>0, <1>1, <1>2
  <2> QED BY <1>0, <1>3, <2>1, <2>2 DEF TypeOK, OneInode
<1>8. OneInode'
  BY <1>0 DEF OneInode
<1>9. Roles'
  BY <1>0, <1>4, <1>5, ProcsAssumption DEF Roles, Procs
<1>10. Locked'
  <2>1. \A q \in Procs : Replaced(q)' = Replaced(q)
    BY <1>0 DEF Replaced
  <2>2. \A q \in Procs : Busy(q)' => q = p
    BY <1>4, <1>6 DEF Busy
  <2> QED BY <1>3, <1>5, <2>1, <2>2 DEF Locked
<1>11. Written' /\ Announced'
  <2>1. \A r \in Procs : r # p => pc'[r] = pc[r] /\ Number(r)' = Number(r)
    BY <1>0, <1>4 DEF Number
  <2>2. pc'[p] # "publish" /\ pc'[p] # "done"
    BY <1>5
  <2>3. Written'
    BY <1>0, <2>1, <2>2 DEF Written, Procs
  <2>4. Announced'
    BY <1>0, <2>1, <2>2 DEF Announced, Last, Procs
  <2> QED BY <2>3, <2>4
<1>12. Fresh'
  <2>1. \A r \in Sessions : Saving(r)' = Saving(r)
    BY <1>0, <1>4, <1>5 DEF Saving, Procs
  <2> QED BY <1>0, <2>1 DEF Fresh
<1> QED BY <1>7, <1>8, <1>9, <1>10, <1>11, <1>12 DEF IInv

-----------------------------------------------------------------------------
(* One text file changes, the others stay as they are.                     *)
LEMMA OneTextChanged ==
  ASSUME DOMAIN text = Confs, NEW s, conf[s] \in Confs, NEW x, TextFile(s, x)
  PROVE  /\ DOMAIN text' = Confs
         /\ \A c \in Confs : DOMAIN text'[c] =
              DOMAIN text[c] \cup (IF c = conf[s] THEN {Number(s)} ELSE {})
         /\ \A c \in Confs : \A n \in DOMAIN text'[c] :
              text'[c][n] = IF c = conf[s] /\ n = Number(s) THEN x ELSE text[c][n]
BY DEF TextFile

(* The number a busy session works on is the next one.                     *)
LEMMA NextNumber ==
  ASSUME IInv, NEW s \in Sessions, Busy(s)
  PROVE  /\ conf[s] \in Confs /\ Number(s) = inode[1][conf[s]] + 1
         /\ inode[1] \in [Confs -> Nat] /\ Number(s) \in Nat \ {0}
         /\ buf[s] = [inode[1] EXCEPT ![conf[s]] = @ + 1]
         /\ Last = inode[1] /\ s \in Procs
<1>1. s \in Procs /\ TypeOK /\ OneInode /\ Locked
  BY DEF IInv, Procs
<1>2. inode[1] \in [Confs -> Nat] /\ Last = inode[1] /\ fd[s] = 1 /\ conf[s] \in Confs
  BY <1>1, OneFile DEF TypeOK
<1>3. buf[s] = [inode[1] EXCEPT ![conf[s]] = @ + 1]
  BY <1>1, <1>2 DEF Locked, Replaced
<1>4. Number(s) = inode[1][conf[s]] + 1
  BY <1>2, <1>3 DEF Number
<1> QED BY <1>1, <1>2, <1>3, <1>4

(* save_text creates and writes the file of a text that does not count yet.*)
LEMMA TextIInv ==
  ASSUME IInv, NEW s \in Sessions, Create(s) \/ WriteText(s)
  PROVE  /\ IInv'
         /\ \A c \in Confs : \A n \in 1 .. inode[1][c] :
              /\ n \in DOMAIN text'[c] <=> n \in DOMAIN text[c]
              /\ n \in DOMAIN text[c] => text'[c][n] = text[c][n]
<1> DEFINE k == pc'[s]
<1>0. /\ TypeOK /\ OneInode /\ Roles /\ Locked /\ Written /\ Fresh /\ Announced
      /\ UNCHANGED << conf_file, inode, holder, posts, ftnlock, conf, fd, buf, mine, copy >>
      /\ s \in Procs /\ Busy(s)
  BY DEF IInv, table, local, Create, WriteText, Go, Busy, Procs
<1>1. /\ conf[s] \in Confs /\ Number(s) = inode[1][conf[s]] + 1
      /\ inode[1] \in [Confs -> Nat] /\ Number(s) \in Nat \ {0} /\ Last = inode[1]
  BY <1>0, NextNumber
<1>2. pc \in [Procs -> Labels] /\ DOMAIN text = Confs /\ Saving(s)
  BY <1>0 DEF TypeOK, Create, WriteText, Go, Saving
<1>3. PICK x : /\ \/ pc' = [pc EXCEPT ![s] = "write"] /\ x = Empty
                  \/ pc' = [pc EXCEPT ![s] = "publish"] /\ x = mine[s]
               /\ TextFile(s, x) \/ (text' = text /\ pc' = [pc EXCEPT ![s] = "write"])
  BY DEF Create, WriteText, Go
<1>4. /\ k \in {"write", "publish"} /\ pc' \in [Procs -> Labels]
      /\ \A q \in Procs : q # s => pc'[q] = pc[q]
  BY <1>0, <1>2, <1>3 DEF Labels
<1>5. mine[s] \in 1 .. posts /\ posts \in Nat /\ posts <= MaxPosts /\ mine[s] \in Texts
  BY <1>0, <1>2, MaxPostsAssumption DEF Fresh, TypeOK, Texts
<1>6. x \in Texts \cup {Empty} /\ x <= posts
  BY <1>3, <1>5 DEF Texts, Empty
<1>7. /\ DOMAIN text' = Confs
      /\ \A c \in Confs : \A n \in DOMAIN text[c] : n \in DOMAIN text'[c]
      /\ \A c \in Confs : \A n \in DOMAIN text'[c] :
           \/ n \in DOMAIN text[c] /\ text'[c][n] = text[c][n]
           \/ c = conf[s] /\ n = Number(s) /\ text'[c][n] = x
      /\ \A c \in Confs : \A n \in DOMAIN text[c] :
           ~(c = conf[s] /\ n = Number(s)) => text'[c][n] = text[c][n]
      /\ k = "publish" => /\ Number(s) \in DOMAIN text'[conf[s]]
                          /\ text'[conf[s]][Number(s)] = mine[s]
  <2>1. CASE TextFile(s, x)
    <3>1. k = "publish" => x = mine[s]
      BY <1>0, <1>2, <1>3
    <3> QED BY <1>1, <1>2, <2>1, <3>1, OneTextChanged
  <2>2. CASE text' = text /\ pc' = [pc EXCEPT ![s] = "write"]
    BY <1>0, <1>2, <2>2
  <2> QED BY <1>3, <2>1, <2>2
<1> HIDE DEF k
<1>8. \A c \in Confs : \A n \in 1 .. inode[1][c] :
        /\ n \in DOMAIN text'[c] <=> n \in DOMAIN text[c]
        /\ n \in DOMAIN text[c] => text'[c][n] = text[c][n]
  <2> SUFFICES ASSUME NEW c \in Confs, NEW n \in 1 .. inode[1][c]
               PROVE  /\ n \in DOMAIN text'[c] <=> n \in DOMAIN text[c]
                      /\ n \in DOMAIN text[c] => text'[c][n] = text[c][n]
    OBVIOUS
  <2>1. ~(c = conf[s] /\ n = Number(s))
    BY <1>1
  <2> QED BY <1>7, <2>1
<1>9. TypeOK'
  <2>1. \A c \in Confs : /\ DOMAIN text'[c] \subseteq Nat \ {0}
                         /\ \A n \in DOMAIN text'[c] : text'[c][n] \in Texts \cup {Empty}
    <3> SUFFICES ASSUME NEW c \in Confs, NEW n \in DOMAIN text'[c]
                 PROVE  n \in Nat \ {0} /\ text'[c][n] \in Texts \cup {Empty}
      OBVIOUS
    <3>1. CASE n \in DOMAIN text[c] /\ text'[c][n] = text[c][n]
      BY <1>0, <3>1 DEF TypeOK
    <3>2. CASE n = Number(s) /\ text'[c][n] = x
      BY <1>1, <1>6, <3>2
    <3> QED BY <1>7, <3>1, <3>2
  <2> QED BY <1>0, <1>4, <1>7, <2>1 DEF TypeOK, Texts
<1>10. OneInode'
  BY <1>0 DEF OneInode
<1>11. Roles' /\ Locked'
  <2>0. pc'[s] = k
    BY DEF k
  <2>1. pc[s] # "ready"
    BY <1>0 DEF Busy
  <2>2. Roles'
    BY <1>0, <1>4, <2>0, <2>1, ProcsAssumption DEF Roles, Procs
  <2>3. Locked'
    BY <1>0, <1>4, <2>0 DEF Locked, Busy, Replaced
  <2> QED BY <2>2, <2>3
<1>12. \A q \in Procs : q # s => ~Busy(q)
  BY <1>0, ProcsAssumption DEF Locked
<1>13. Written'
  <2>1. \A r \in Sessions : pc'[r] = "publish" => r = s
    BY <1>4, <1>12 DEF Busy, Procs
  <2>2. \A r \in Sessions : pc'[r] = "publish" =>
          Number(r)' \in DOMAIN text'[conf'[r]] /\ text'[conf'[r]][Number(r)'] = mine'[r]
    BY <1>0, <1>7, <2>1 DEF k, Number
  <2>3. \A c \in Confs : \A n \in DOMAIN text'[c] : n <= inode[1][c] => text'[c][n] # Empty
    <3> SUFFICES ASSUME NEW c \in Confs, NEW n \in DOMAIN text'[c], n <= inode[1][c]
                 PROVE  text'[c][n] # Empty
      OBVIOUS
    <3>1. n \in 1 .. inode[1][c]
      BY <1>1, <1>9 DEF TypeOK
    <3> QED BY <1>0, <1>8, <3>1 DEF Written
  <2> QED BY <1>0, <2>2, <2>3 DEF Written
<1>14. Fresh'
  <2>1. \A r \in Sessions : Saving(r)' = Saving(r)
    BY <1>2, <1>4 DEF Saving, Procs, k
  <2>2. ASSUME NEW c \in Confs, NEW n \in DOMAIN text'[c]
        PROVE  /\ text'[c][n] <= posts
               /\ \A r \in Sessions : n <= inode[1][c] /\ Saving(r) => text'[c][n] # mine[r]
    <3>1. CASE n <= inode[1][c]
      <4>1. n \in 1 .. inode[1][c]
        BY <1>1, <1>9, <2>2, <3>1 DEF TypeOK
      <4> QED BY <1>0, <1>8, <2>2, <4>1 DEF Fresh
    <3>2. CASE ~(n <= inode[1][c])
      BY <1>0, <1>6, <1>7, <2>2, <3>2 DEF Fresh
    <3> QED BY <3>1, <3>2
  <2> QED BY <1>0, <2>1, <2>2 DEF Fresh
<1>15. Announced'
  <2> SUFFICES ASSUME NEW r \in Sessions \cup Tossers, pc'[r] = "done"
               PROVE  /\ Number(r) <= inode[1][conf[r]]
                      /\ Number(r) \in DOMAIN text'[conf[r]] =>
                            text'[conf[r]][Number(r)] = mine[r]
    BY <1>0, <1>1 DEF Announced, Number, Last
  <2>1. pc[r] = "done" /\ r \in Procs
    BY <1>4 DEF k, Procs
  <2>2. /\ Number(r) <= inode[1][conf[r]]
        /\ Number(r) \in DOMAIN text[conf[r]] => text[conf[r]][Number(r)] = mine[r]
    BY <1>0, <1>1, <2>1 DEF Announced
  <2>3. conf[r] \in Confs
    BY <1>0, <2>1 DEF TypeOK
  <2>4. ~(conf[r] = conf[s] /\ Number(r) = Number(s))
    BY <1>1, <2>2
  <2> QED BY <1>7, <2>2, <2>3, <2>4
<1> QED BY <1>8, <1>9, <1>10, <1>11, <1>13, <1>14, <1>15 DEF IInv

-----------------------------------------------------------------------------
(* CONF_FILE is written and unlocked.                                      *)
LEMMA WriteConfTable ==
  ASSUME TypeOK, OneInode, NEW p \in Procs, WriteConf(p)
  PROVE  /\ inode' \in Seq([Confs -> Nat]) /\ Len(inode') = 1 /\ inode'[1] = buf[p]
         /\ holder' \in Seq(Procs \cup {None}) /\ Len(holder') = 1
         /\ DOMAIN inode' = DOMAIN inode
<1>1. /\ fd[p] = 1 /\ holder \in Seq(Procs \cup {None}) /\ Len(holder) = 1
      /\ inode \in Seq([Confs -> Nat]) /\ Len(inode) = 1 /\ buf[p] \in [Confs -> Nat]
  BY OneFile DEF TypeOK, OneInode
<1>2. inode' = [inode EXCEPT ![1] = buf[p]] /\ holder' = [holder EXCEPT ![1] = None]
  BY <1>1 DEF WriteConf
<1>3. inode' \in Seq([Confs -> Nat]) /\ Len(inode') = 1 /\ inode'[1] = buf[p]
  <2> DEFINE S == [Confs -> Nat]
  <2>1. inode \in Seq(S) /\ Len(inode) = 1 /\ buf[p] \in S
    BY <1>1
  <2> HIDE DEF S
  <2>2. /\ [inode EXCEPT ![1] = buf[p]] \in Seq(S) /\ Len([inode EXCEPT ![1] = buf[p]]) = 1
        /\ [inode EXCEPT ![1] = buf[p]][1] = buf[p]
    BY <2>1, OneExcept
  <2> QED BY <1>2, <2>2 DEF S
<1>4. holder' \in Seq(Procs \cup {None}) /\ Len(holder') = 1
  <2> DEFINE S == Procs \cup {None}
  <2>1. holder \in Seq(S) /\ Len(holder) = 1 /\ None \in S
    BY <1>1
  <2> HIDE DEF S
  <2>2. [holder EXCEPT ![1] = None] \in Seq(S) /\ Len([holder EXCEPT ![1] = None]) = 1
    BY <2>1, OneExcept
  <2> QED BY <1>2, <2>2 DEF S
<1> QED BY <1>1, <1>2, <1>3, <1>4

(* A text counts from the moment CONF_FILE is written.                     *)
LEMMA PublishIInv ==
  ASSUME IInv, Posted \cap Edited = {}, NEW s \in Sessions, Publish(s)
  PROVE  /\ IInv'
         /\ inode'[1] = [inode[1] EXCEPT ![conf[s]] = @ + 1]
<1>0. /\ TypeOK /\ OneInode /\ Roles /\ Locked /\ Written /\ Fresh /\ Announced
      /\ UNCHANGED << conf_file, text, posts, ftnlock, conf, fd, buf, mine, copy >>
      /\ s \in Procs /\ Busy(s) /\ pc[s] = "publish" /\ pc' = [pc EXCEPT ![s] = "done"]
      /\ WriteConf(s) /\ Saving(s)
  BY DEF IInv, Publish, WriteConf, local, Go, Busy, Procs, Saving
<1>1. /\ conf[s] \in Confs /\ Number(s) = inode[1][conf[s]] + 1
      /\ inode[1] \in [Confs -> Nat] /\ Number(s) \in Nat \ {0} /\ Last = inode[1]
      /\ buf[s] = [inode[1] EXCEPT ![conf[s]] = @ + 1]
  BY <1>0, NextNumber
<1>2. /\ inode' \in Seq([Confs -> Nat]) /\ Len(inode') = 1 /\ inode'[1] = buf[s]
      /\ holder' \in Seq(Procs \cup {None}) /\ Len(holder') = 1
      /\ DOMAIN inode' = DOMAIN inode
  BY <1>0, WriteConfTable
<1>3. /\ pc \in [Procs -> Labels] /\ pc' \in [Procs -> Labels]
      /\ pc'[s] = "done" /\ \A q \in Procs : q # s => pc'[q] = pc[q]
  BY <1>0 DEF TypeOK, Labels
<1>4. /\ \A c \in Confs : c # conf[s] => inode'[1][c] = inode[1][c]
      /\ inode'[1][conf[s]] = Number(s)
      /\ inode[1][conf[s]] < inode'[1][conf[s]]
  BY <1>1, <1>2
<1>5. \A q \in Procs : q # s => ~Busy(q)
  BY <1>0, ProcsAssumption DEF Locked
<1>6. TypeOK' /\ OneInode'
  BY <1>0, <1>2, <1>3 DEF TypeOK, OneInode, Texts
<1>7. Roles'
  <2>1. conf[s] \in Posted
    BY <1>0 DEF Roles
  <2>2. \A m \in Moderators : pc'[m] = pc[m] /\ m # s
    BY <1>3, ProcsAssumption DEF Procs
  <2>3. \A m \in Moderators : pc[m] # "ready" =>
          conf[m] \in Edited /\ copy[m] = inode'[1][conf[m]]
    BY <1>0, <1>4, <2>1, ConfsAssumption DEF Roles
  <2> QED BY <1>0, <1>3, <2>1, <2>2, <2>3 DEF Roles, Procs
<1>8. Locked'
  BY <1>3, <1>5 DEF Locked, Busy
<1>9. Written'
  <2>1. \A r \in Sessions : pc'[r] # "publish"
    BY <1>3, <1>5 DEF Busy, Procs
  <2>2. ASSUME NEW c \in Confs, NEW n \in DOMAIN text[c], n <= inode'[1][c]
        PROVE  text[c][n] # Empty
    <3>1. CASE n <= inode[1][c]
      BY <1>0, <2>2, <3>1 DEF Written
    <3>2. CASE ~(n <= inode[1][c])
      <4>1. n \in Nat
        BY <1>0, <2>2 DEF TypeOK
      <4>2. inode[1][c] \in Nat
        BY <1>1, <2>2
      <4>3. c = conf[s] /\ n = Number(s)
        BY <1>1, <1>4, <2>2, <3>2, <4>1, <4>2
      <4>4. text[c][n] = mine[s] /\ mine[s] \in 1 .. posts /\ posts \in Int
        BY <1>0, <4>3 DEF Written, Fresh, TypeOK
      <4> QED BY <4>4 DEF Empty
    <3> QED BY <3>1, <3>2
  <2> QED BY <1>0, <2>1, <2>2 DEF Written
<1>10. Fresh'
  <2>1. \A r \in Sessions : Saving(r)' => Saving(r) /\ r # s
    BY <1>3 DEF Saving, Procs
  <2>2. ASSUME NEW c \in Confs, NEW n \in DOMAIN text[c], NEW r \in Sessions,
               n <= inode'[1][c], Saving(r)'
        PROVE  text[c][n] # mine[r]
    <3>1. CASE n <= inode[1][c]
      BY <1>0, <2>1, <2>2, <3>1 DEF Fresh
    <3>2. CASE ~(n <= inode[1][c])
      <4>1. n \in Nat /\ inode[1][c] \in Nat
        BY <1>0, <1>1, <2>2 DEF TypeOK
      <4>2. c = conf[s] /\ n = Number(s)
        BY <1>1, <1>4, <2>2, <3>2, <4>1
      <4>3. text[c][n] = mine[s]
        BY <1>0, <4>2 DEF Written
      <4> QED BY <1>0, <2>1, <2>2, <4>3 DEF Fresh
    <3> QED BY <3>1, <3>2
  <2> QED BY <1>0, <2>1, <2>2 DEF Fresh
<1>11. Announced'
  <2>0. Last' = inode'[1]
    BY <1>0 DEF Last, OneInode
  <2> SUFFICES ASSUME NEW r \in Sessions \cup Tossers, pc'[r] = "done"
               PROVE  /\ Number(r) <= inode'[1][conf[r]]
                      /\ Number(r) \in DOMAIN text[conf[r]] =>
                            text[conf[r]][Number(r)] = mine[r]
    BY <1>0, <2>0 DEF Announced, Number
  <2>1. CASE r = s
    BY <1>0, <1>1, <1>4, <2>1 DEF Written
  <2>2. CASE r # s
    <3>1. pc[r] = "done" /\ r \in Procs /\ conf[r] \in Confs
      BY <1>0, <1>3, <2>2 DEF Procs, TypeOK
    <3>2. /\ Number(r) <= inode[1][conf[r]]
          /\ Number(r) \in DOMAIN text[conf[r]] => text[conf[r]][Number(r)] = mine[r]
      BY <1>0, <1>1, <3>1 DEF Announced
    <3>3. Number(r) \in Nat
      BY <1>0, <3>1 DEF TypeOK, Number
    <3> QED BY <1>1, <1>4, <3>1, <3>2, <3>3
  <2> QED BY <2>1, <2>2
<1> QED BY <1>1, <1>2, <1>6, <1>7, <1>8, <1>9, <1>10, <1>11 DEF IInv

(* The line a moderator stores is the line that is there.                  *)
LEMMA StoreIInv ==
  ASSUME IInv, NEW m \in Moderators, Store(m)
  PROVE  IInv' /\ inode'[1] = inode[1]
<1>0. /\ TypeOK /\ OneInode /\ Roles /\ Locked /\ Written /\ Fresh /\ Announced
      /\ UNCHANGED << conf_file, text, posts, ftnlock, conf, fd, buf, mine, copy >>
      /\ m \in Procs /\ m \notin Sessions /\ m \notin Tossers
      /\ pc[m] = "store" /\ pc' = [pc EXCEPT ![m] = "ready"]
      /\ WriteConf(m) /\ Busy(m)
  BY ProcsAssumption DEF IInv, Store, WriteConf, local, Go, Busy, Procs
<1>1. inode[1] \in [Confs -> Nat] /\ Last = inode[1] /\ fd[m] = 1 /\ conf[m] \in Confs
  BY <1>0, OneFile DEF TypeOK
<1>2. buf[m] = [inode[1] EXCEPT ![conf[m]] = inode[1][conf[m]]]
  BY <1>0, <1>1 DEF Locked, Replaced, Roles
<1>3. /\ inode' \in Seq([Confs -> Nat]) /\ Len(inode') = 1 /\ inode'[1] = buf[m]
      /\ holder' \in Seq(Procs \cup {None}) /\ Len(holder') = 1
      /\ DOMAIN inode' = DOMAIN inode
  BY <1>0, WriteConfTable
<1>4. inode'[1] = inode[1]
  BY <1>1, <1>2, <1>3
<1>5. /\ pc' \in [Procs -> Labels]
      /\ pc'[m] = "ready" /\ \A q \in Procs : q # m => pc'[q] = pc[q]
  BY <1>0 DEF TypeOK, Labels
<1>6. \A q \in Procs : q # m => ~Busy(q)
  BY <1>0, ProcsAssumption DEF Locked
<1>7. TypeOK' /\ OneInode'
  BY <1>0, <1>3, <1>5 DEF TypeOK, OneInode, Texts
<1>8. Roles' /\ Locked'
  <2>1. Roles'
    BY <1>0, <1>4, <1>5 DEF Roles, Procs
  <2>2. Locked'
    BY <1>5, <1>6 DEF Locked, Busy
  <2> QED BY <2>1, <2>2
<1>9. Written' /\ Fresh' /\ Announced'
  <2>1. \A r \in Sessions \cup Tossers : pc'[r] = pc[r]
    BY <1>0, <1>5 DEF Procs
  <2>2. Last' = Last
    BY <1>0, <1>1, <1>4 DEF Last, OneInode
  <2>3. Written' /\ Fresh'
    BY <1>0, <1>4, <2>1 DEF Written, Fresh, Saving, Number
  <2>4. Announced'
    BY <1>0, <2>1, <2>2 DEF Announced, Number
  <2> QED BY <2>3, <2>4
<1> QED BY <1>4, <1>7, <1>8, <1>9 DEF IInv

-----------------------------------------------------------------------------
(* A text is deleted.                                                      *)
LEMMA DeleteIInv ==
  ASSUME IInv, NEW c \in Confs, NEW n \in DOMAIN text[c], Delete(c, n)
  PROVE  IInv'
<1>0. /\ TypeOK /\ OneInode /\ Roles /\ Locked /\ Written /\ Fresh /\ Announced
      /\ UNCHANGED << conf_file, inode, holder, posts, ftnlock, pc, conf, fd, buf, mine, copy >>
      /\ n <= Last[c] /\ Last = inode[1]
      /\ text' = [text EXCEPT ![c] = [m \in DOMAIN text[c] \ {n} |-> text[c][m]]]
  BY OneFile DEF IInv, Delete, table, local
<1>1. /\ DOMAIN text' = Confs
      /\ \A d \in Confs : \A m : m \in DOMAIN text'[d] <=>
           m \in DOMAIN text[d] /\ ~(d = c /\ m = n)
      /\ \A d \in Confs : \A m \in DOMAIN text'[d] :
           m \in DOMAIN text[d] /\ text'[d][m] = text[d][m]
  BY <1>0 DEF TypeOK
<1>2. TypeOK' /\ OneInode' /\ Roles' /\ Locked'
  <2>1. \A d \in Confs : /\ DOMAIN text'[d] \subseteq Nat \ {0}
                         /\ \A m \in DOMAIN text'[d] : text'[d][m] \in Texts \cup {Empty}
    BY <1>0, <1>1 DEF TypeOK
  <2>2. TypeOK'
    BY <1>0, <1>1, <2>1 DEF TypeOK, Texts
  <2> QED BY <1>0, <2>2 DEF OneInode, Roles, Locked, Busy, Replaced
<1>3. Written'
  <2>1. ASSUME NEW s \in Sessions, pc[s] = "publish"
        PROVE  Number(s) \in DOMAIN text'[conf[s]] /\ text'[conf[s]][Number(s)] = mine[s]
    <3>1. conf[s] \in Confs /\ Number(s) = inode[1][conf[s]] + 1 /\ inode[1] \in [Confs -> Nat]
      BY <2>1, NextNumber DEF Busy
    <3>2. ~(conf[s] = c /\ Number(s) = n)
      BY <1>0, <3>1
    <3> QED BY <1>0, <1>1, <2>1, <3>1, <3>2 DEF Written
  <2>2. \A d \in Confs : \A m \in DOMAIN text'[d] : m <= inode[1][d] => text'[d][m] # Empty
    BY <1>0, <1>1 DEF Written
  <2>3. \A s \in Sessions : Number(s)' = Number(s)
    BY <1>0 DEF Number
  <2> QED BY <1>0, <2>1, <2>2, <2>3 DEF Written
<1>4. Fresh'
  BY <1>0, <1>1 DEF Fresh, Saving
<1>5. Announced'
  <2>1. \A r \in Sessions \cup Tossers : conf[r] \in Confs
    BY <1>0 DEF TypeOK, Procs
  <2> QED BY <1>0, <1>1, <2>1 DEF Announced, Number, Last
<1> QED BY <1>2, <1>3, <1>4, <1>5 DEF IInv

(* A process dies: nobody else had its lock.                               *)
LEMMA DieIInv ==
  ASSUME IInv, NEW p \in Procs, Die(p)
  PROVE  IInv'
<1>0. /\ TypeOK /\ OneInode /\ Roles /\ Locked /\ Written /\ Fresh /\ Announced
      /\ UNCHANGED << conf_file, inode, text, posts, ftnlock, conf, fd, buf, mine, copy >>
      /\ pc' = [pc EXCEPT ![p] = "ready"]
      /\ holder' = [i \in DOMAIN holder |-> IF holder[i] = p THEN None ELSE holder[i]]
  BY DEF IInv, Die, local
<1>1. /\ holder \in Seq(Procs \cup {None}) /\ Len(holder) = 1 /\ DOMAIN holder = {1}
  BY <1>0, OneFile
<1>2. /\ pc' \in [Procs -> Labels]
      /\ pc'[p] = "ready" /\ \A q \in Procs : q # p => pc'[q] = pc[q]
  BY <1>0 DEF TypeOK, Labels
<1>3. holder' \in Seq(Procs \cup {None}) /\ Len(holder') = 1
  <2> DEFINE S == Procs \cup {None}
             v == IF holder[1] = p THEN None ELSE holder[1]
  <2>1. holder \in Seq(S) /\ Len(holder) = 1 /\ v \in S
    BY <1>1, ElementOfSeq
  <2>2. holder' = [holder EXCEPT ![1] = v]
    BY <1>0, <1>1
  <2> HIDE DEF S, v
  <2>3. [holder EXCEPT ![1] = v] \in Seq(S) /\ Len([holder EXCEPT ![1] = v]) = 1
    BY <2>1, OneExcept
  <2> QED BY <2>2, <2>3 DEF S
<1>4. holder'[1] = IF holder[1] = p THEN None ELSE holder[1]
  BY <1>0, <1>1
<1>5. TypeOK' /\ OneInode'
  BY <1>0, <1>2, <1>3 DEF TypeOK, OneInode, Texts
<1>6. Roles'
  BY <1>0, <1>2 DEF Roles, Procs
<1>7. Locked'
  BY <1>0, <1>2, <1>4 DEF Locked, Busy, Replaced
<1>8. Written' /\ Fresh' /\ Announced'
  <2>1. Written'
    BY <1>0, <1>2 DEF Written, Number, Procs
  <2>2. Fresh'
    BY <1>0, <1>2 DEF Fresh, Saving, Procs
  <2>3. Announced'
    BY <1>0, <1>2 DEF Announced, Number, Last, Procs
  <2> QED BY <2>1, <2>2, <2>3
<1> QED BY <1>5, <1>6, <1>7, <1>8 DEF IInv

(* The initial state.                                                      *)
LEMMA InitIInv == Init => IInv
<1> SUFFICES ASSUME Init PROVE IInv
  OBVIOUS
<1>1. [c \in Confs |-> 0] \in [Confs -> Nat]
  OBVIOUS
<1>2. inode \in Seq([Confs -> Nat]) /\ Len(inode) = 1 /\ inode[1] = [c \in Confs |-> 0]
  BY <1>1 DEF Init
<1>3. holder \in Seq(Procs \cup {None}) /\ Len(holder) = 1
  BY DEF Init
<1>4. (CHOOSE c \in Confs : TRUE) \in Confs
  BY ConfsAssumption
<1>5. pc \in [Procs -> Labels] /\ conf \in [Procs -> Confs] /\ \A q \in Procs : pc[q] = "ready"
  BY <1>4 DEF Init, Labels
<1>6. \A c \in Confs : DOMAIN text[c] = {}
  <2>1. \A c \in Confs : text[c] = <<>>
    BY DEF Init
  <2>2. << >> \in Seq({}) /\ Len(<< >>) = 0
    BY EmptySeq
  <2>3. DOMAIN << >> = {}
    BY <2>2, LenProperties
  <2> QED BY <2>1, <2>3
<1>7. TypeOK
  <2>1. /\ posts \in 0 .. MaxPosts /\ mine \in [Procs -> 0 .. MaxPosts]
        /\ copy \in [Procs -> Nat] /\ buf \in [Procs -> [Confs -> Nat]]
    BY MaxPostsAssumption DEF Init
  <2>2. conf_file \in DOMAIN inode /\ fd \in [Procs -> DOMAIN inode]
    BY <1>2 DEF Init
  <2>3. DOMAIN text = Confs
    BY DEF Init
  <2>4. ftnlock = None
    BY DEF Init
  <2> QED BY <1>2, <1>3, <1>5, <1>6, <2>1, <2>2, <2>3, <2>4 DEF TypeOK
<1>8. OneInode /\ Roles /\ Locked /\ Announced
  BY <1>2, <1>5 DEF Init, OneInode, Roles, Locked, Busy, Announced, Procs
<1>9. Written /\ Fresh
  BY <1>5, <1>6 DEF Written, Fresh, Saving, Procs
<1> QED BY <1>7, <1>8, <1>9 DEF IInv

(* Every step keeps the inductive invariant.                               *)
LEMMA NextIInv ==
  ASSUME Tossers = {}, Posted \cap Edited = {}, IInv, [Next]_vars
  PROVE  IInv'
<1>0. ftnlock \in Tossers \cup {None}
  BY DEF IInv, TypeOK
<1>1. ASSUME NEW s \in Sessions, SessionStep(s) \/ SaveFails(s) \/ \E c \in Posted : Save(s, c)
      PROVE  IInv'
  <2>1. CASE Wait(s) \/ GiveUp(s) \/ Announce(s) \/ SaveFails(s)
    <3>1. s \in Procs
      BY DEF Procs
    <3>2. /\ \E l : /\ pc' = [pc EXCEPT ![s] = l]
                    /\ l = "ready" \/ (l = "wait" /\ pc[s] = "lock")
          /\ UNCHANGED << table, text, posts, local >>
      BY <2>1 DEF Wait, GiveUp, Announce, SaveFails, Go
    <3>3. ftnlock' \in Tossers \cup {None}
      BY <1>0, <2>1 DEF Wait, GiveUp, Announce, SaveFails
    <3> QED BY <3>1, <3>2, <3>3, PcOnly
  <2> QED BY <1>1, <2>1, LockIInv, TextIInv, PublishIInv, SaveIInv DEF SessionStep
<1>2. ASSUME NEW m \in Moderators, ModeratorStep(m) \/ \E c \in Edited : Ask(m, c)
      PROVE  IInv'
  <2>1. CASE Wait(m) \/ GiveUp(m)
    <3>1. m \in Procs
      BY DEF Procs
    <3>2. /\ \E l : /\ pc' = [pc EXCEPT ![m] = l]
                    /\ l = "ready" \/ (l = "wait" /\ pc[m] = "lock")
          /\ UNCHANGED << table, text, posts, local >> /\ ftnlock' = ftnlock
      BY <2>1 DEF Wait, GiveUp, Go
    <3> QED BY <1>0, <3>1, <3>2, PcOnly
  <2> QED BY <1>2, <2>1, LockIInv, AskIInv, StoreIInv DEF ModeratorStep
<1>3. CASE UNCHANGED vars
  <2>1. UNCHANGED << conf_file, inode, holder, text, posts, ftnlock, pc, conf, fd, buf, mine, copy >>
    BY <1>3 DEF vars, table, local
  <2>2. TypeOK' /\ OneInode' /\ Roles' /\ Locked'
    BY <2>1 DEF IInv, TypeOK, OneInode, Roles, Locked, Busy, Replaced, Texts
  <2>3. Written' /\ Fresh' /\ Announced'
    BY <2>1 DEF IInv, Written, Fresh, Saving, Announced, Number, Last
  <2> QED BY <2>2, <2>3 DEF IInv
<1> QED BY <1>1, <1>2, <1>3, DeleteIInv, DieIInv DEF Next

-----------------------------------------------------------------------------
(* With one lock for everybody, what save_text announces is there.         *)
THEOREM PostingSafe ==
  ASSUME Tossers = {}, Posted \cap Edited = {}
  PROVE  Spec => [](TypeOK /\ Announced)
<1>1. IInv /\ [Next]_vars => IInv'
  BY NextIInv
<1>2. IInv => TypeOK /\ Announced
  BY DEF IInv
<1> QED BY <1>1, <1>2, InitIInv, PTL DEF Spec

(* The logs do not change while what counts does not.                      *)
LEMMA LogsSame ==
  ASSUME TypeOK, OneInode, OneInode', inode'[1] = inode[1],
         \A c \in Confs : \A n \in 1 .. inode[1][c] :
           /\ n \in DOMAIN text'[c] <=> n \in DOMAIN text[c]
           /\ n \in DOMAIN text[c] => text'[c][n] = text[c][n]
  PROVE  [c \in Confs |-> LogOf(c)]' = [c \in Confs |-> LogOf(c)]
<1>1. Last = inode[1] /\ Last' = inode[1]
  BY DEF Last, OneInode
<1>2. \A c \in Confs : LogOf(c)' = LogOf(c)
  BY <1>1 DEF LogOf
<1> QED BY <1>2

(* A conference is a sequence of texts and of places where one was.        *)
LEMMA LogIsSeq ==
  ASSUME TypeOK, OneInode, NEW c \in Confs
  PROVE  /\ LogOf(c) \in Seq(Int) /\ Len(LogOf(c)) = inode[1][c]
         /\ DOMAIN LogOf(c) = 1 .. inode[1][c] /\ inode[1][c] \in Nat
<1>1. Last = inode[1] /\ inode[1][c] \in Nat
  BY OneFile
<1>2. \A n \in DOMAIN text[c] : text[c][n] \in Int
  BY DEF TypeOK, Texts, Empty
<1>3. LogOf(c) \in [1 .. inode[1][c] -> Int]
  BY <1>1, <1>2 DEF LogOf, NoText
<1> QED BY <1>1, <1>3

(* Publishing is the next entry of the log, with a text that was in none.  *)
LEMMA PublishLogs ==
  ASSUME Posted \cap Edited = {}, IInv, NEW s \in Sessions, Publish(s)
  PROVE  Log!Publish(conf[s], mine[s]) /\ conf[s] \in Confs /\ mine[s] \in Texts
<1>0. /\ TypeOK /\ OneInode /\ Written /\ Fresh /\ TypeOK' /\ OneInode'
      /\ inode'[1] = [inode[1] EXCEPT ![conf[s]] = @ + 1]
      /\ text' = text /\ conf' = conf /\ Busy(s) /\ Saving(s) /\ pc[s] = "publish"
  BY PublishIInv DEF IInv, Publish, WriteConf, Go, Busy, Saving, local
<1>1. /\ conf[s] \in Confs /\ Number(s) = inode[1][conf[s]] + 1
      /\ inode[1] \in [Confs -> Nat]
  BY <1>0, NextNumber
<1>2. Last = inode[1] /\ Last' = inode'[1]
  BY <1>0 DEF Last, OneInode
<1>3. mine[s] \in Texts
  BY <1>0, MaxPostsAssumption DEF Fresh, TypeOK, Texts
<1>4. ~Log!Published(mine[s])
  <2> SUFFICES ASSUME NEW c \in Confs, NEW n \in DOMAIN LogOf(c), LogOf(c)[n] = mine[s]
               PROVE  FALSE
    BY DEF Log!Published
  <2>1. n \in 1 .. inode[1][c]
    BY <1>0, LogIsSeq
  <2>2. n \in DOMAIN text[c] /\ text[c][n] = mine[s]
    BY <1>2, <1>3, <2>1 DEF LogOf, NoText, Texts
  <2> QED BY <1>0, <2>1, <2>2 DEF Fresh
<1>5. \A c \in Confs : c # conf[s] => LogOf(c)' = LogOf(c)
  BY <1>0, <1>1, <1>2 DEF LogOf
<1>6. LogOf(conf[s])' = Append(LogOf(conf[s]), mine[s])
  <2> DEFINE old == LogOf(conf[s])
             new == LogOf(conf[s])'
             k == inode[1][conf[s]]
  <2>1. old \in Seq(Int) /\ Len(old) = k /\ k \in Nat
    BY <1>0, <1>1, LogIsSeq
  <2>2. new = [n \in 1 .. k + 1 |-> IF n \in DOMAIN text[conf[s]]
                                    THEN text[conf[s]][n] ELSE NoText]
    BY <1>0, <1>1, <1>2 DEF LogOf
  <2>3. \A n \in 1 .. k : new[n] = old[n]
    <3>1. old = [n \in 1 .. k |-> IF n \in DOMAIN text[conf[s]]
                                  THEN text[conf[s]][n] ELSE NoText]
      BY <1>2 DEF LogOf
    <3> QED BY <2>1, <2>2, <3>1
  <2>4. new[k + 1] = mine[s]
    BY <1>0, <1>1, <2>1, <2>2 DEF Written
  <2>5. mine[s] \in Int
    BY <1>3 DEF Texts
  <2>6. new \in [1 .. k + 1 -> Int]
    <3>1. \A n \in 1 .. k : old[n] \in Int
      BY <2>1, ElementOfSeq
    <3>2. \A n \in 1 .. k + 1 : new[n] \in Int
      BY <2>1, <2>3, <2>4, <2>5, <3>1
    <3> QED BY <2>2, <3>2
  <2> HIDE DEF old, new, k
  <2>7. new \in Seq(Int) /\ Len(new) = k + 1
    BY <2>1, <2>6
  <2>8. /\ Append(old, mine[s]) \in Seq(Int) /\ Len(Append(old, mine[s])) = k + 1
        /\ \A n \in 1 .. k + 1 : Append(old, mine[s])[n] = new[n]
    BY <2>1, <2>3, <2>4, <2>5
  <2>9. new = Append(old, mine[s])
    BY <2>7, <2>8, SeqEqual
  <2> QED BY <2>9 DEF old, new
<1>7. [c \in Confs |-> LogOf(c)]' =
        [[c \in Confs |-> LogOf(c)] EXCEPT ![conf[s]] = Append(@, mine[s])]
  BY <1>0, <1>1, <1>5, <1>6
<1> QED BY <1>1, <1>3, <1>4, <1>7 DEF Log!Publish

(* Deleting withdraws.                                                     *)
LEMMA DeleteLogs ==
  ASSUME IInv, NEW c \in Confs, NEW n \in DOMAIN text[c], Delete(c, n)
  PROVE  Log!Withdraw(c, n) /\ n \in DOMAIN LogOf(c)
<1>0. /\ TypeOK /\ OneInode /\ conf_file' = conf_file /\ inode' = inode
      /\ n <= Last[c] /\ n \in Nat \ {0}
      /\ text' = [text EXCEPT ![c] = [m \in DOMAIN text[c] \ {n} |-> text[c][m]]]
      /\ DOMAIN text = Confs
  BY DEF IInv, Delete, table, TypeOK
<1>1. Last' = Last /\ Last = inode[1] /\ inode[1][c] \in Nat
  BY <1>0, OneFile DEF Last
<1>2. n \in DOMAIN LogOf(c)
  BY <1>0, <1>1 DEF LogOf
<1>3. \A d \in Confs : d # c => LogOf(d)' = LogOf(d)
  BY <1>0, <1>1 DEF LogOf
<1>4. LogOf(c)' = [LogOf(c) EXCEPT ![n] = NoText]
  BY <1>0, <1>1 DEF LogOf
<1>5. [d \in Confs |-> LogOf(d)]' = [[d \in Confs |-> LogOf(d)] EXCEPT ![c][n] = NoText]
  BY <1>3, <1>4
<1> QED BY <1>2, <1>5 DEF Log!Withdraw

(* Every other step leaves the logs alone.                                 *)
LEMMA StepLogs ==
  ASSUME Tossers = {}, Posted \cap Edited = {}, IInv, [Next]_vars
  PROVE  [Log!Next]_[c \in Confs |-> LogOf(c)]
<1> DEFINE same == UNCHANGED [c \in Confs |-> LogOf(c)]
<1>0. /\ IInv' /\ TypeOK /\ OneInode /\ OneInode'
      /\ UNCHANGED << inode, text >> => same
  BY NextIInv, LogsSame DEF IInv
<1>1. ASSUME NEW s \in Sessions, SessionStep(s) \/ SaveFails(s) \/ \E c \in Posted : Save(s, c)
      PROVE  same \/ Log!Next
  <2>1. CASE Create(s) \/ WriteText(s)
    <3>1. inode' = inode
      BY <2>1 DEF Create, WriteText, table
    <3> QED BY <1>0, <2>1, <3>1, TextIInv, LogsSame
  <2>2. CASE Publish(s)
    BY <2>2, PublishLogs DEF Log!Next
  <2>3. CASE ~(Create(s) \/ WriteText(s) \/ Publish(s))
    <3>1. UNCHANGED << inode, text >>
      BY <1>1, <2>3
         DEF SessionStep, Lock, Wait, GiveUp, Announce, SaveFails, Save, table
    <3> QED BY <1>0, <3>1
  <2> QED BY <2>1, <2>2, <2>3
<1>2. ASSUME NEW m \in Moderators, ModeratorStep(m) \/ \E c \in Edited : Ask(m, c)
      PROVE  same
  <2>1. CASE Store(m)
    <3>1. inode'[1] = inode[1] /\ text' = text
      BY <2>1, StoreIInv DEF Store, WriteConf
    <3> QED BY <1>0, <3>1, LogsSame
  <2>2. CASE ~Store(m)
    <3>1. UNCHANGED << inode, text >>
      BY <1>2, <2>2 DEF ModeratorStep, Answered, Lock, Wait, GiveUp, Ask, table
    <3> QED BY <1>0, <3>1
  <2> QED BY <2>1, <2>2
<1>3. ASSUME NEW c \in Confs, NEW n \in DOMAIN text[c], Delete(c, n)
      PROVE  Log!Next
  BY <1>3, DeleteLogs DEF Log!Next
<1>4. CASE (\E p \in Procs : Die(p)) \/ UNCHANGED vars
  <2>1. UNCHANGED << inode, text >>
    BY <1>4 DEF Die, vars, table
  <2> QED BY <1>0, <2>1
<1> QED BY <1>1, <1>2, <1>3, <1>4 DEF Next

(* ... and the conferences are append-only logs: numbers without holes, no *)
(* text under two numbers, no published text replaced by another.          *)
THEOREM PostingIsLog ==
  ASSUME Tossers = {}, Posted \cap Edited = {}
  PROVE  Spec => ImplementsTextLog
<1>1. IInv /\ [Next]_vars => IInv' /\ [Log!Next]_[c \in Confs |-> LogOf(c)]
  BY NextIInv, StepLogs
<1>2. Init => Log!Init
  <2> SUFFICES ASSUME Init PROVE \A c \in Confs : LogOf(c) = <<>>
    BY DEF Log!Init
  <2>1. ASSUME NEW c \in Confs PROVE LogOf(c) = <<>>
    <3>1. inode[1][c] = 0 /\ TypeOK /\ OneInode
      BY InitIInv DEF Init, IInv
    <3>2. LogOf(c) \in Seq(Int) /\ Len(LogOf(c)) = 0
      BY <3>1, LogIsSeq
    <3> QED BY <3>2, EmptySeq
  <2> QED BY <2>1
<1> QED BY <1>1, <1>2, InitIInv, PTL DEF Spec, ImplementsTextLog, Log!Spec

-----------------------------------------------------------------------------
(* ftntoss by itself.  One process at a time is past the creation of the   *)
(* lock file, and CONF_FILE is what it has made it.                        *)
OneTosser ==
  \A t \in Tossers :
    /\ pc[t] \in {"ready", "rename", "file", "done"}
    /\ pc[t] # "ready" => ftnlock = t /\ Number(t) > 0
    /\ pc[t] \in {"file", "done"} => Last = buf[t]
    /\ pc[t] = "done" /\ Number(t) \in DOMAIN text[conf[t]] => text[conf[t]][Number(t)] = mine[t]

LEMMA InitTossers ==
  ASSUME Init
  PROVE  TypeOK /\ OneTosser
<1>1. TypeOK
  BY InitIInv DEF IInv
<1> QED BY <1>1 DEF Init, OneTosser, Procs

LEMMA TossKeeps ==
  ASSUME TypeOK, OneTosser, NEW t \in Tossers, NEW c \in Posted, Toss(t, c)
  PROVE  TypeOK' /\ OneTosser'
<1>1. t \in Procs /\ c \in Confs /\ None \notin Tossers
  BY ConfsAssumption, ProcsAssumption DEF Procs
<1>2. Last \in [Confs -> Nat]
  BY DEF TypeOK, Last
<1>3. buf'[t] \in [Confs -> Nat] /\ buf' \in [Procs -> [Confs -> Nat]]
  <2>1. PICK b : b = [Last EXCEPT ![c] = @ + 1] OBVIOUS
  <2>2. b \in [Confs -> Nat]
    <3>1. PICK l : l = Last OBVIOUS
    <3>2. l \in [Confs -> Nat] /\ l[c] + 1 \in Nat BY <1>1, <1>2, <3>1
    <3> QED BY <2>1, <3>1, <3>2
  <2>3. buf' = [buf EXCEPT ![t] = b] /\ buf \in [Procs -> [Confs -> Nat]] BY <2>1 DEF Toss, TypeOK
  <2> QED BY <1>1, <2>2, <2>3
<1>4. posts' \in 0 .. MaxPosts /\ mine' \in [Procs -> 0 .. MaxPosts] /\ Texts' = Texts
  <2>1. posts < MaxPosts /\ posts' = posts + 1 /\ mine' = [mine EXCEPT ![t] = posts + 1]
    BY DEF Toss, NewText
  <2>2. posts + 1 \in 0 .. MaxPosts BY <2>1, MaxPostsAssumption DEF TypeOK
  <2> QED BY <1>1, <2>1, <2>2 DEF TypeOK, Texts
<1>5. TypeOK'
  BY <1>1, <1>3, <1>4 DEF Toss, NewText, Go, TypeOK, Labels, table
<1>6. /\ pc' = [pc EXCEPT ![t] = "rename"] /\ pc \in [Procs -> Labels] /\ ftnlock' = t
      /\ \A r \in Tossers : pc[r] = "ready"
  BY <1>1 DEF Toss, Go, OneTosser, TypeOK
<1>7. Number(t)' > 0
  <2>1. conf'[t] = c /\ buf'[t] = [Last EXCEPT ![c] = @ + 1]
    BY <1>1 DEF Toss, NewText, TypeOK
  <2> QED BY <1>1, <1>2, <2>1 DEF Number
<1>8. OneTosser'
  <2> SUFFICES ASSUME NEW r \in Tossers
               PROVE  /\ pc'[r] = "ready" \/ (r = t /\ pc'[r] = "rename")
    BY <1>6, <1>7 DEF OneTosser
  <2> QED BY <1>1, <1>6 DEF Procs
<1> QED BY <1>5, <1>8

LEMMA RenameKeeps ==
  ASSUME TypeOK, OneTosser, NEW t \in Tossers, Rename(t)
  PROVE  TypeOK' /\ OneTosser'
<1>1. t \in Procs /\ buf[t] \in [Confs -> Nat] /\ None \in Procs \cup {None}
  BY DEF Procs, TypeOK
<1>2. /\ inode' \in Seq([Confs -> Nat]) /\ Len(inode') = Len(inode) + 1
      /\ inode'[Len(inode) + 1] = buf[t] /\ DOMAIN inode \subseteq DOMAIN inode'
      /\ conf_file' = Len(inode) + 1 /\ conf_file' \in DOMAIN inode'
  BY <1>1 DEF Rename, TypeOK
<1>3. holder' \in Seq(Procs \cup {None}) /\ Len(holder') = Len(holder) + 1
  BY <1>1 DEF Rename, TypeOK
<1>4. fd' \in [Procs -> DOMAIN inode']
  BY <1>2 DEF Rename, local, TypeOK
<1>5. TypeOK'
  BY <1>1, <1>2, <1>3, <1>4 DEF Rename, Go, TypeOK, Labels, local, Texts
<1>6. Last' = buf'[t]
  BY <1>2 DEF Rename, Last, local
<1>7. /\ pc' = [pc EXCEPT ![t] = "file"] /\ pc \in [Procs -> Labels]
      /\ UNCHANGED << text, ftnlock, conf, buf, mine >>
      /\ pc[t] = "rename"
  BY DEF Rename, Go, TypeOK, local
<1>8. \A r \in Tossers : r # t => pc'[r] = "ready"
  BY <1>1, <1>7 DEF OneTosser, Procs
<1>9. pc'[t] = "file" /\ ftnlock' = t /\ Number(t)' > 0
  BY <1>1, <1>7 DEF OneTosser, Number
<1>10. OneTosser'
  BY <1>6, <1>8, <1>9 DEF OneTosser
<1> QED BY <1>5, <1>10

LEMMA TossTextKeeps ==
  ASSUME TypeOK, OneTosser, NEW t \in Tossers, TossText(t)
  PROVE  TypeOK' /\ OneTosser'
<1>1. /\ t \in Procs /\ conf[t] \in Confs /\ mine[t] \in Texts \cup {Empty}
      /\ Number(t) \in Nat \ {0}
  <2>1. buf[t] \in [Confs -> Nat] /\ pc[t] # "ready"
    BY DEF TossText, Go, TypeOK, Procs
  <2> QED BY <2>1, MaxPostsAssumption DEF OneTosser, Procs, TypeOK, Texts, Empty, Number
<1>2. /\ DOMAIN text' = Confs
      /\ \A c \in Confs \ {conf[t]} : text'[c] = text[c]
      /\ DOMAIN text'[conf[t]] = DOMAIN text[conf[t]] \cup {Number(t)}
      /\ text'[conf[t]][Number(t)] = mine[t]
      /\ \A n \in DOMAIN text[conf[t]] \ {Number(t)} : text'[conf[t]][n] = text[conf[t]][n]
  BY <1>1 DEF TossText, TextFile, TypeOK
<1>3. /\ \A c \in Confs : /\ DOMAIN text'[c] \subseteq Nat \ {0}
                          /\ \A n \in DOMAIN text'[c] : text'[c][n] \in Texts \cup {Empty}
  <2> SUFFICES ASSUME NEW c \in Confs
               PROVE  /\ DOMAIN text'[c] \subseteq Nat \ {0}
                      /\ \A n \in DOMAIN text'[c] : text'[c][n] \in Texts \cup {Empty}
    OBVIOUS
  <2>1. /\ DOMAIN text[c] \subseteq Nat \ {0}
        /\ \A n \in DOMAIN text[c] : text[c][n] \in Texts \cup {Empty}
    BY DEF TypeOK
  <2> QED BY <1>1, <1>2, <2>1
<1>4. TypeOK'
  BY <1>1, <1>2, <1>3 DEF TossText, Go, TypeOK, Labels, table, local, Texts
<1>5. OneTosser'
  <2>1. /\ UNCHANGED << conf_file, inode, ftnlock, conf, buf, mine >>
        /\ pc' = [pc EXCEPT ![t] = "done"] /\ pc[t] = "file" /\ pc \in [Procs -> Labels]
    BY DEF TossText, Go, TypeOK, table, local
  <2>2. \A u \in Tossers : u # t => pc'[u] = pc[u] /\ pc[u] = "ready"
    BY <1>1, <2>1 DEF OneTosser, Procs
  <2> QED BY <1>1, <1>2, <2>1, <2>2 DEF OneTosser, Number, Last, Procs
<1> QED BY <1>4, <1>5

LEMMA DeleteKeeps ==
  ASSUME TypeOK, OneTosser, NEW c \in Confs, NEW n \in DOMAIN text[c], Delete(c, n)
  PROVE  TypeOK' /\ OneTosser'
<1>1. /\ DOMAIN text' = Confs
      /\ \A d \in Confs \ {c} : text'[d] = text[d]
      /\ DOMAIN text'[c] = DOMAIN text[c] \ {n}
      /\ \A m \in DOMAIN text[c] \ {n} : text'[c][m] = text[c][m]
  BY DEF Delete, TypeOK
<1>2. \A d \in Confs : /\ DOMAIN text'[d] \subseteq Nat \ {0}
                       /\ \A m \in DOMAIN text'[d] : text'[d][m] \in Texts \cup {Empty}
  <2> SUFFICES ASSUME NEW d \in Confs
               PROVE  /\ DOMAIN text'[d] \subseteq Nat \ {0}
                      /\ \A m \in DOMAIN text'[d] : text'[d][m] \in Texts \cup {Empty}
    OBVIOUS
  <2>1. /\ DOMAIN text[d] \subseteq Nat \ {0}
        /\ \A m \in DOMAIN text[d] : text[d][m] \in Texts \cup {Empty}
    BY DEF TypeOK
  <2> QED BY <1>1, <2>1
<1>3. TypeOK'
  BY <1>1, <1>2 DEF Delete, TypeOK, table, local, Texts
<1>4. ASSUME NEW t \in Tossers, pc[t] = "done", Number(t) \in DOMAIN text'[conf[t]]
      PROVE  text'[conf[t]][Number(t)] = mine[t]
  <2>1. conf[t] \in Confs
    BY DEF TypeOK, Procs
  <2> QED BY <1>1, <1>4, <2>1 DEF OneTosser
<1>5. OneTosser'
  BY <1>4 DEF Delete, OneTosser, Number, Last, table, local
<1> QED BY <1>3, <1>5

(* A process that announces, dies, or whose lock file is removed.          *)
LEMMA EndKeeps ==
  ASSUME TypeOK, OneTosser, NEW t \in Tossers,
         RemoveLock(t) \/ Die(t) \/ Announce(t)
  PROVE  TypeOK' /\ OneTosser'
<1>1. t \in Procs /\ None \notin Tossers
  BY ProcsAssumption DEF Procs
<1>2. /\ UNCHANGED << conf_file, inode, text, posts, conf, fd, buf, mine, copy >>
      /\ ftnlock' \in Tossers \cup {None} /\ pc' \in [Procs -> Labels]
      /\ holder' \in Seq(Procs \cup {None}) /\ Len(holder') = Len(holder)
  <2>1. CASE RemoveLock(t)
    BY <2>1 DEF RemoveLock, TypeOK, table, local
  <2>2. CASE Announce(t)
    BY <1>1, <2>2 DEF Announce, Go, TypeOK, table, local, Labels
  <2>3. CASE Die(t)
    <3>1. holder \in Seq(Procs \cup {None}) /\ DOMAIN holder' = 1 .. Len(holder)
      BY <2>3 DEF Die, TypeOK
    <3>2. \A i \in 1 .. Len(holder) : holder'[i] \in Procs \cup {None}
      BY <2>3, <3>1 DEF Die
    <3>3. holder' = [i \in 1 .. Len(holder) |-> holder'[i]]
      BY <2>3, <3>1 DEF Die
    <3>4. holder' \in Seq(Procs \cup {None}) /\ Len(holder') = Len(holder)
      BY <3>1, <3>2, <3>3
    <3> QED BY <1>1, <2>3, <3>4 DEF Die, TypeOK, local, Labels
  <2> QED BY <2>1, <2>2, <2>3
<1>3. TypeOK'
  BY <1>2 DEF TypeOK, Texts
<1>4. \A r \in Tossers : /\ pc'[r] = pc[r] \/ pc'[r] = "ready"
                         /\ pc'[r] # "ready" => ftnlock' = ftnlock
  <2>1. CASE RemoveLock(t)
    BY <2>1 DEF RemoveLock, OneTosser
  <2>2. CASE Announce(t)
    BY <1>1, <2>2 DEF Announce, Go, TypeOK, OneTosser, Procs
  <2>3. CASE Die(t)
    BY <1>1, <2>3 DEF Die, TypeOK, Procs
  <2> QED BY <2>1, <2>2, <2>3
<1>5. OneTosser'
  BY <1>2, <1>4 DEF OneTosser, Number, Last
<1> QED BY <1>3, <1>5

(* What ftntoss announces is there, if nobody else changes CONF_FILE: for  *)
(* any number of its processes, wherever they are killed.                  *)
THEOREM TossersSafe ==
  ASSUME Sessions = {}, Moderators = {}
  PROVE  Spec => []Announced
<1>1. TypeOK /\ OneTosser /\ [Next]_vars => (TypeOK /\ OneTosser)'
  <2> SUFFICES ASSUME TypeOK, OneTosser, [Next]_vars
               PROVE  (TypeOK /\ OneTosser)'
    OBVIOUS
  <2>1. CASE UNCHANGED vars
    <3>1. UNCHANGED << conf_file, inode, holder, text, posts, ftnlock, pc, conf, fd, buf, mine, copy >>
      BY <2>1 DEF vars, table, local
    <3> QED BY <3>1 DEF TypeOK, Texts, OneTosser, Number, Last
  <2>2. ASSUME NEW t \in Tossers, TosserStep(t) \/ RemoveLock(t) \/ \E c \in Posted : Toss(t, c)
        PROVE  (TypeOK /\ OneTosser)'
    BY <2>2, TossKeeps, RenameKeeps, TossTextKeeps, EndKeeps DEF TosserStep
  <2>3. ASSUME NEW p \in Procs, Die(p)
        PROVE  (TypeOK /\ OneTosser)'
    BY <2>3, EndKeeps DEF Procs
  <2> QED BY <2>1, <2>2, <2>3, DeleteKeeps DEF Next
<1>2. TypeOK /\ OneTosser => Announced
  <2> SUFFICES ASSUME TypeOK, OneTosser, NEW t \in Tossers, pc[t] = "done"
               PROVE  /\ Number(t) <= Last[conf[t]]
                      /\ Number(t) \in DOMAIN text[conf[t]] => text[conf[t]][Number(t)] = mine[t]
    BY DEF Announced
  <2>1. Last[conf[t]] = Number(t) /\ Number(t) \in Nat
    BY DEF OneTosser, Number, TypeOK, Procs
  <2> QED BY <2>1 DEF OneTosser
<1> QED BY <1>1, <1>2, InitTossers, PTL DEF Spec

-----------------------------------------------------------------------------
(* Who writes from outside, his addresses, and what identifies his texts.  *)
Person  == world.person
Full    == Letters!AddressOf(Person)
Short   == Letters!FourD(Person)
Address == {Full, Short, Letters!Odd, Letters!FiveD(Letters!Odd, Person.dom)}
Msgid   == {Letters!Id(o, Person, k) : o \in {None, Full, Short, Letters!Odd}, k \in {"news", "netmail", "echo"}}
Reply   == {None} \cup Msgid
Ref     == [num : Nat, conf : Letters!Places \cup {None}]

Holding   == SUBSET (0 .. Len(meant))

ATarget == [way : {"box", "ftn", "mail", "conf", "group"}, who : Letters!Places \cup {Person},
            re : {None} \cup Ref \cup Msgid]
AText == [by : {Uid, Friend, Person}, author : {None, Uid, Friend}, mail : {None, Bad, Person},
          from : {None} \cup Address, paren : {None, Short}, id : Reply, re : {None} \cup Ref,
          links : SUBSET Nat, holds : SUBSET Nat]
AnEdit == [state : {"prompt", "edit", "saved", "given", "copied", "stored", "off"},
           cmd : {None, "mail", "post", "personal", "comment", "reply", "resume"},
           at : Letters!Confs \cup {None}, to : Letters!Places \cup {None}, author : {None, Uid},
           re : {None} \cup Ref, asked : {None, Uid, Friend}, addr : {None} \cup Address, reply : Reply,
           mail : {None, Person}, holds : SUBSET Nat, aborts : BOOLEAN, num : Nat, new : Nat]
AJob == [addr : Address, reply : Reply, holds : SUBSET Nat]
AKeep == [conf : Letters!Confs \cup {None}, author : {None, Uid}, re : {None} \cup Ref, aborts : BOOLEAN]

LetterTypes ==
  /\ world \in Worlds
  /\ meant \in Seq(ATarget)
  /\ box \in [Letters!Places -> Seq(AText)]
  /\ edit \in AnEdit /\ edit.holds \in Holding
  /\ draft = None \/ draft \in Holding
  /\ dead \in {None, Bad} \cup AKeep
  /\ hup \in {"exec_logout", "abort_edit"}
  /\ jobs \subseteq AJob /\ \A j \in sent : "way" \in DOMAIN j
  /\ \A j \in jobs \cup sent : j.holds \in Holding

(* Texts of users have no address, others' no author.                      *)
TextOk(t) ==
  /\ t.holds \in Holding
  /\ t.by \in {Uid, Friend} => t.mail = None /\ t.from = None /\ t.id = None /\ t.paren = None
  /\ t.by \notin {Uid, Friend} => t.author = None
  /\ t.author # None => t.author = t.by
  /\ t.mail \notin {None, Bad} => t.mail = t.by
  /\ t.from # None => t.id # None /\ t.id.in = "netmail" /\ (Letters!IsAddress(t.from) => t.from = Full)
  /\ t.id # None /\ t.id.in = "netmail" => t.from # None

Loose(S) == S \ (astray \cup {0})

(* The letter that is being written, or waits for its user to come back.   *)
Ahead == IF edit.state \in {"edit", "saved"} THEN edit.holds
         ELSE IF edit.state \in Letters!Passing THEN {} ELSE Letters!InFile

Unplaced(n) ==
  /\ \A c \in Letters!Places : \A i \in DOMAIN box[c] : n \notin box[c][i].holds
  /\ \A j \in jobs \cup sent : n \notin j.holds

Answers(re, c) ==
  IF re = None THEN None
  ELSE [num |-> re.num, conf |-> IF re.conf = None /\ c \in Letters!Confs THEN c ELSE re.conf]

AddressRight(a, m) ==
  /\ m.way = "ftn" /\ m.who = Person
  /\ \/ ~Letters!IsAddress(a) \/ a = Full
     \/ a = Short /\ ~(m.re # None /\ m.re.in = "netmail")

(* What will be done with a letter is what it is meant for.                *)
MailRight(e, m) ==
  IF e.addr # None THEN AddressRight(e.addr, m) /\ m.re = e.reply
  ELSE IF e.mail # None THEN m = Letters!Target("mail", e.mail, None)
  ELSE m = Letters!Target("box", e.to, e.re)
PostRight(e, m) ==
  IF e.to \in Groups
  THEN m = Letters!Target("group", e.to, None) /\ e.asked = None /\ e.author = None
  ELSE m = Letters!Target("conf", e.to, None) /\ e.asked = Uid
CommentRight(e, m) ==
  /\ IF e.to \in Groups THEN m = Letters!Target("group", e.to, e.reply)
     ELSE m = Letters!Target("conf", e.to, [num |-> e.num, conf |-> e.at])
  /\ e.author = IF e.state = "saved" /\ e.to \in Groups THEN None ELSE Uid
KeptRight(m, c, re) == m = Letters!Target("conf", c, Answers(re, c)) /\ c \in Letters!Confs

Personally == {"mail", "personal", "reply"}
EditRight(e, m) ==
  /\ e.cmd \in Personally => MailRight(e, m)
  /\ e.cmd = "post" => PostRight(e, m)
  /\ e.cmd = "comment" => CommentRight(e, m)
  /\ e.cmd = "resume" => KeptRight(m, e.to, e.re)

(* Where a command's letter goes, whoever it is for.                       *)
EditFits(e) ==
  /\ e.cmd \in {"mail", "post", "personal", "comment", "reply", "resume"}
  /\ e.addr = None \/ e.mail = None
  /\ e.cmd \notin Personally => (e.addr = None /\ e.mail = None)
  /\ e.cmd \in Personally => /\ e.to \notin Letters!Confs
                             /\ (e.addr = None /\ e.mail = None) => e.to # None
  /\ e.cmd = "post" => e.to \in Letters!Confs /\ e.re = None
  /\ e.cmd = "comment" =>
       /\ e.at \in Letters!Confs /\ e.to \in Letters!Confs /\ e.num \in DOMAIN box[e.at]
       /\ e.re = [num |-> e.num, conf |-> IF e.to = e.at THEN None ELSE e.at]

Excused == cut \cup astray \cup {0}

(* Where a letter is.                                                      *)
InQueues(n) == {j \in jobs \cup sent : n \in j.holds}
InBoxes(n)  == UNION {{<< c, i >> : i \in {k \in DOMAIN box[c] : n \in box[c][k].holds}} :
                        c \in Letters!Places \ {Uid}}
InOwn(n)    == {i \in DOMAIN box[Uid] : n \in box[Uid][i].holds}
AtMostOne(S) == \A x, y \in S : x = y

(* A text that is where it goes, without what belongs to it; and a letter  *)
(* that has been taken, without its copy.                                  *)
AtText == \/ edit.state = "stored"
          \/ edit.state \in Letters!Passing /\ Letters!Kind = "text"
TextIn ==
  /\ edit.to \in Letters!Places /\ edit.new \in DOMAIN box[edit.to]
  /\ box[edit.to][edit.new].holds = edit.holds /\ box[edit.to][edit.new].re = edit.re
CopyDue ==
  /\ world.copy
  /\ \A n \in Loose(edit.holds) :
       Letters!Private(meant[n]) /\ InOwn(n) = {} /\ (InQueues(n) # {} \/ InBoxes(n) # {})

EditIs ==
  /\ edit.state \in {"edit", "saved", "given", "copied", "stored"} =>
       EditFits(edit) /\ (edit.cmd = "resume" => edit.holds \subseteq Excused)
  /\ edit.state = "edit" /\ edit.cmd # "resume" => Len(meant) \in edit.holds \ {0}
  /\ edit.state = "stored" => edit.cmd \in {"post", "comment"} /\ draft = None
  /\ AtText => TextIn
  /\ edit.state = "given" => CopyDue

(* EDIT_FILE has no letter that is still wanted, or the one in hand.       *)
NoneWaits == \/ edit.state \in {"prompt", "stored"}
             \/ edit.state = "off" /\ dead \in {None, Bad}
             \/ edit.state = "edit" /\ edit.cmd # "resume"
OneSaved  == \/ edit.state = "saved" \/ edit.state \in Letters!Passing
             \/ edit.state = "edit" /\ edit.cmd = "resume"

InHand ==
  /\ NoneWaits => Loose(Letters!InFile) = {}
  /\ OneSaved => edit.holds = Letters!InFile
  /\ edit.state = "edit" /\ edit.cmd = "resume" => hup = "abort_edit"
  /\ edit.state # "off" => dead = None
  /\ dead \notin {None, Bad} => Letters!InFile \subseteq Excused
  /\ \A n \in Loose(Ahead) :
       /\ n = Len(meant) /\ Unplaced(n)
       /\ edit.state \in {"edit", "saved"} => EditRight(edit, meant[n])
       /\ edit.state = "off" => KeptRight(meant[n], dead.conf, dead.re)

(* What has gone its way.                                                  *)
Delivered == \A c \in Letters!Places : \A i \in DOMAIN box[c] : \A n \in Loose(box[c][i].holds) :
             Letters!TextArrives(box[c][i], c, meant[n])
Queued  == \A j \in jobs : \A n \in Loose(j.holds) : AddressRight(j.addr, meant[n]) /\ meant[n].re = j.reply

(* Its copy comes, or is known not to.                                     *)
Waits(n) == edit.state = "given" /\ n \in edit.holds

Single(n) ==
  /\ AtMostOne(InQueues(n)) /\ AtMostOne(InBoxes(n)) /\ AtMostOne(InOwn(n))
  /\ InQueues(n) = {} \/ InBoxes(n) = {}
  /\ IF Letters!Private(meant[n])
     THEN /\ InOwn(n) # {} => world.copy /\ (InQueues(n) # {} \/ InBoxes(n) # {})
          /\ world.copy /\ (InQueues(n) # {} \/ InBoxes(n) # {}) => InOwn(n) # {} \/ n \in cut \/ Waits(n)
     ELSE InOwn(n) = {} \/ (InQueues(n) = {} /\ InBoxes(n) = {})

Clean(t) == t.holds # {} /\ t.holds \cap Excused = {}
Linked(t, c, i) ==
  Clean(t) => /\ c \in Ftn => << c, i >> \in echo
              /\ t.re # None /\ t.re.conf = None =>
                   t.re.num \in DOMAIN box[c] /\ i \in box[c][t.re.num].links
Following ==
  \A c \in Letters!Confs : \A i \in DOMAIN box[c] :
    \/ AtText /\ c = edit.to /\ i = edit.new
    \/ Linked(box[c][i], c, i)

TextsOk == \A c \in Letters!Places : \A i \in DOMAIN box[c] : TextOk(box[c][i])
Singles == \A n \in DOMAIN meant \ astray : Single(n)
Settled == Delivered /\ Queued /\ Letters!SentRight /\ Singles

LettersInv == LetterTypes /\ TextsOk /\ EditIs /\ InHand /\ Settled /\ Following

(* Users are no conferences, and nothing that is written down is None.  A  *)
(* system has one netmail area, that can be used, for the network of who   *)
(* writes.                                                                 *)
Markings ==
  /\ None # Bad /\ Uid # Friend /\ {None, Bad} \cap Letters!Places = {}
  /\ {Uid, Friend} \cap Letters!Confs = {}
  /\ None \notin SUBSET Nat
  /\ \A z, n, d : [zone |-> z, node |-> n, dom |-> d] \notin {None, Bad}
  /\ \A o, p, k : Letters!Id(o, p, k) # None
  /\ \A n, c : [num |-> n, conf |-> c] # None
  /\ \A c, a, re, ab : Letters!Keep(c, a, re, ab) \notin {None, Bad}

WayOut(w, i) ==
  /\ {j \in Letters!Routing!Netmail(w.areas) : w.areas[j].dom = w.person.dom} = {i}
  /\ w.areas[i].base = "MSG" /\ w.areas[i].path # None

SystemOk(w) ==
  /\ \E z, n, d : w.person = [zone |-> z, node |-> n, dom |-> d] /\ z # None /\ d # None
  /\ w.person \notin {Uid, Friend}
  /\ w.comconf \in [Letters!Confs -> Letters!Confs \cup {None}]
  /\ w.copy \in BOOLEAN
  /\ None \notin DOMAIN w.areas /\ \E i : WayOut(w, i)

Systems == \A w \in Worlds : SystemOk(w)

-----------------------------------------------------------------------------
(* Where netmail leaves.                                                   *)
LEMMA OneFound ==
  ASSUME NEW i, NEW S, S = {i} PROVE Letters!Routing!Found(S) = i
<1>1. Cardinality(S) = 1 BY FS_Singleton
<1>2. Letters!Routing!Cardinality(S) = Cardinality(S)
  BY DEF Cardinality, Letters!Routing!Cardinality
<1> QED BY <1>1, <1>2 DEF Letters!Routing!Found

LEMMA OutBy ==
  ASSUME NEW w, NEW i, WayOut(w, i), w.person.dom # None, NEW z
  PROVE Letters!Routing!NetmailArea(w.areas, z, w.person.dom) = i
<1> DEFINE d == w.person.dom
           areas == w.areas
<1>1. /\ {j \in Letters!Routing!Netmail(areas) : areas[j].dom = d} = {i}
      /\ areas[i].base = "MSG" /\ areas[i].path # None
  BY DEF WayOut
<1>2. d # None OBVIOUS
<1> HIDE DEF d, areas
<1>3. {j \in Letters!Routing!Netmail(areas) : IF d # None THEN areas[j].dom = d ELSE areas[j].addr.zone = z} = {i}
  BY <1>1, <1>2
<1>4. Letters!Routing!NetmailArea(areas, z, d) = Letters!Routing!Usable(areas, Letters!Routing!Found({i}))
  BY <1>2, <1>3, {i} # {} DEF Letters!Routing!NetmailArea
<1>5. Letters!Routing!Found({i}) = i BY OneFound
<1>6. Letters!Routing!NetmailArea(areas, z, d) = i
  BY <1>1, <1>4, <1>5 DEF Letters!Routing!Usable
<1> QED BY <1>6 DEF d, areas

(* A zone that is the network's is as good as its domain.                  *)
LEMMA OutByZone ==
  ASSUME NEW w, NEW i, WayOut(w, i), NEW z,
         {j \in DOMAIN w.areas : w.areas[j].addr.zone = z} = {j \in DOMAIN w.areas : w.areas[j].dom = w.person.dom}
  PROVE Letters!Routing!NetmailArea(w.areas, z, None) = i
<1>1. Letters!Routing!Netmail(w.areas) \subseteq DOMAIN w.areas
  BY DEF Letters!Routing!Netmail
<1>2. {j \in Letters!Routing!Netmail(w.areas) : w.areas[j].addr.zone = z}
        = {j \in Letters!Routing!Netmail(w.areas) : w.areas[j].dom = w.person.dom}
  BY <1>1
<1>3. {j \in Letters!Routing!Netmail(w.areas) : IF None # None THEN w.areas[j].dom = None
                                                ELSE w.areas[j].addr.zone = z} = {i}
  BY <1>2 DEF WayOut
<1>4. Letters!Routing!NetmailArea(w.areas, z, None) = Letters!Routing!Usable(w.areas, Letters!Routing!Found({i}))
  BY <1>3, {i} # {} DEF Letters!Routing!NetmailArea
<1> QED BY <1>4, OneFound DEF WayOut, Letters!Routing!Usable

(* What ftntoss does with a job of the queue.                              *)
TookRight(s, m) ==
  \/ s.way \in {"mail", "group"} /\ m = Letters!Target(s.way, s.who, s.reply)
  \/ /\ s.way = "ftn" /\ m.way = "ftn" /\ m.re = s.reply
     /\ \/ s.who = Letters!AddressOf(m.who)
        \/ ~Letters!Known(m) /\ [s.who EXCEPT !.dom = None] = Letters!FourD(m.who)
  \/ /\ s.way = "failed" /\ m.way = "ftn" /\ m.re = s.reply
     /\ Letters!IsAddress(s.who) => s.who.dom = None /\ ~Letters!Known(m)

LettersAssumed == Markings /\ Systems

LEMMA PersonIs ==
  ASSUME LettersAssumed, world \in Worlds
  PROVE  /\ SystemOk(world) /\ Person \notin {None, Bad, Uid, Friend}
         /\ Person.zone # None /\ Person.dom # None
         /\ Full = Person /\ Short = [zone |-> Person.zone, node |-> Person.node, dom |-> None]
         /\ Full # None /\ Short # None /\ Full # Short /\ Short.dom = None /\ Short.zone = Person.zone
         /\ Letters!IsAddress(Full) /\ Letters!IsAddress(Short)
         /\ None \notin Address /\ \A a \in Address : Letters!IsAddress(a) => a \in {Full, Short}
<1>1. SystemOk(world) BY DEF LettersAssumed, Systems
<1>2. PICK z, n, d : Person = [zone |-> z, node |-> n, dom |-> d] /\ z # None /\ d # None
  BY <1>1 DEF SystemOk, Person
<1>3. Full = Person /\ Short = [zone |-> z, node |-> n, dom |-> None] /\ Person.zone = z /\ Person.node = n /\ Person.dom = d
  BY <1>2 DEF Full, Short, Letters!FourD, Letters!AddressOf
<1>4. Full # None /\ Full # Bad /\ Short # None
  BY <1>2, <1>3 DEF LettersAssumed, Markings
<1>5. Short.dom = None /\ Short.zone = z /\ Full # Short BY <1>2, <1>3
<1>6. Person \notin {Uid, Friend} BY <1>1 DEF SystemOk, Person
<1>7. Letters!FiveD(Letters!Odd, Person.dom) \in {Letters!Odd, [zone |-> None, node |-> "odd", dom |-> d]}
  BY <1>3 DEF Letters!FiveD, Letters!Odd
<1>8. /\ ~Letters!IsAddress(Letters!Odd) /\ ~Letters!IsAddress([zone |-> None, node |-> "odd", dom |-> d])
      /\ Letters!Odd # None /\ [zone |-> None, node |-> "odd", dom |-> d] # None
  BY DEF Letters!IsAddress, Letters!Odd, LettersAssumed, Markings
<1>9. Letters!IsAddress(Full) /\ Letters!IsAddress(Short)
  BY <1>2, <1>3, <1>4, <1>5 DEF Letters!IsAddress
<1>10. None \notin Address /\ \A a \in Address : Letters!IsAddress(a) => a \in {Full, Short}
  BY <1>4, <1>7, <1>8 DEF Address
<1> QED BY <1>1, <1>2, <1>3, <1>4, <1>5, <1>6, <1>9, <1>10

LEMMA DomainOff ==
  ASSUME NEW a, NEW z, NEW n, NEW d, a = [zone |-> z, node |-> n, dom |-> None]
  PROVE  [[a EXCEPT !.dom = d] EXCEPT !.dom = None] = a
<1>1. PICK b : b = [a EXCEPT !.dom = d] OBVIOUS
<1>2. b = [zone |-> z, node |-> n, dom |-> d] BY <1>1
<1>3. [b EXCEPT !.dom = None] = [zone |-> z, node |-> n, dom |-> None] BY <1>2
<1> QED BY <1>1, <1>3

LEMMA TossRight ==
  ASSUME LettersAssumed, world \in Worlds, NEW j, j \in AJob, NEW m, AddressRight(j.addr, m), m.re = j.reply
  PROVE TookRight(Letters!Exported(j, Letters!AreaOf(j.addr)), m)
<1> DEFINE a == j.addr
           i == Letters!AreaOf(a)
           s == Letters!Exported(j, i)
<1>1. a \in Address /\ m.way = "ftn" /\ m.who = Person BY DEF AJob, AddressRight
<1>2. PICK out : WayOut(world, out) BY PersonIs DEF SystemOk
<1>3. out # None
  <2>1. out \in DOMAIN world.areas BY <1>2 DEF WayOut, Letters!Routing!Netmail
  <2> QED BY <2>1, PersonIs DEF SystemOk
<1>4. CASE ~Letters!IsAddress(a)
  <2>1. i = None BY <1>4 DEF Letters!AreaOf
  <2>2. s.way = "failed" /\ s.who = a /\ s.reply = j.reply
    BY <2>1 DEF Letters!Exported, Letters!Sent
  <2> QED BY <1>1, <1>4, <2>2 DEF TookRight
<1>5. CASE a = Full
  <2>1. Letters!IsAddress(a) /\ a.dom = world.person.dom /\ world.person.dom # None /\ Full = Person
    BY <1>5, PersonIs DEF Person
  <2>2. i = out BY <1>2, <2>1, OutBy DEF Letters!AreaOf
  <2>3. world.areas[out].dom = a.dom BY <1>2, <2>1 DEF WayOut
  <2>4. s = Letters!Sent("ftn", [a EXCEPT !.dom = a.dom], j.reply, j.holds)
    BY <1>3, <2>2, <2>3 DEF Letters!Exported
  <2>5. [a EXCEPT !.dom = a.dom] = Letters!AddressOf(m.who)
    BY <1>1, <1>5 DEF Full, Letters!AddressOf
  <2> QED BY <1>1, <2>4, <2>5 DEF TookRight, Letters!Sent
<1>6. CASE a = Short /\ ~(m.re # None /\ m.re.in = "netmail")
  <2>1. Letters!IsAddress(a) /\ a.dom = None /\ a.zone = m.who.zone
    BY <1>1, <1>6, PersonIs
  <2>2. i = Letters!Routing!NetmailArea(world.areas, a.zone, None)
    BY <2>1 DEF Letters!AreaOf
  <2>3. CASE Letters!Known(m)
    <3>1. {k \in DOMAIN world.areas : world.areas[k].addr.zone = a.zone}
            = {k \in DOMAIN world.areas : world.areas[k].dom = world.person.dom}
      BY <1>1, <1>6, <2>1, <2>3 DEF Letters!Known, Person
    <3>2. i = out BY <1>2, <2>2, <3>1, OutByZone
    <3>3. world.areas[out].dom = world.person.dom BY <1>2 DEF WayOut
    <3>4. s = Letters!Sent("ftn", [a EXCEPT !.dom = world.person.dom], j.reply, j.holds)
      BY <1>3, <3>2, <3>3 DEF Letters!Exported
    <3>5. [a EXCEPT !.dom = world.person.dom] = Letters!AddressOf(m.who)
      BY <1>1, <1>6, PersonIs DEF Person, Letters!AddressOf
    <3> QED BY <1>1, <3>4, <3>5 DEF TookRight, Letters!Sent
  <2>4. CASE ~Letters!Known(m) /\ i = None
    <3>1. s.way = "failed" /\ s.who = a /\ s.reply = j.reply
      BY <2>4 DEF Letters!Exported, Letters!Sent
    <3> QED BY <1>1, <2>1, <2>4, <3>1 DEF TookRight
  <2>5. CASE ~Letters!Known(m) /\ i # None
    <3>1. s = Letters!Sent("ftn", [a EXCEPT !.dom = world.areas[i].dom], j.reply, j.holds)
      BY <2>5 DEF Letters!Exported
    <3>2. [s.who EXCEPT !.dom = None] = Letters!FourD(m.who)
      <4>1. s.who = [a EXCEPT !.dom = world.areas[i].dom] BY <3>1 DEF Letters!Sent
      <4>2. a = [zone |-> m.who.zone, node |-> m.who.node, dom |-> None]
        BY <1>1, <1>6, PersonIs
      <4>3. Letters!FourD(m.who) = a
        BY <4>2 DEF Letters!FourD, Letters!AddressOf
      <4>4. [[a EXCEPT !.dom = world.areas[i].dom] EXCEPT !.dom = None] = a
        BY <4>2, DomainOff
      <4> QED BY <4>1, <4>3, <4>4
    <3> QED BY <1>1, <2>5, <3>1, <3>2 DEF TookRight, Letters!Sent
  <2> QED BY <2>3, <2>4, <2>5
<1> QED BY <1>4, <1>5, <1>6 DEF AddressRight

-----------------------------------------------------------------------------
(* The texts that are there to begin with.                                 *)

Opening(t) == t \in AText /\ TextOk(t) /\ t.holds = {} /\ t.re = None

LEMMA TextIs ==
  ASSUME NEW p \in {Uid, Friend, Person}, NEW t, t = Letters!Text(p)
  PROVE  /\ t \in AText /\ t.by = p /\ t.author = None /\ t.mail = None /\ t.from = None /\ t.paren = None
         /\ t.id = None /\ t.re = None /\ t.holds = {} /\ t.links = {}
BY DEF Letters!Text, AText, Reply

LEMMA UserTextIs ==
  ASSUME NEW u \in {Uid, Friend}, NEW s, s = Letters!UserText(u)
  PROVE  /\ s \in AText /\ s.by = u /\ s.author = u /\ s.mail = None /\ s.from = None /\ s.paren = None
         /\ s.id = None /\ s.re = None /\ s.holds = {} /\ s.links = {}
<1>1. PICK t : t = Letters!Text(u) OBVIOUS
<1>2. s = [t EXCEPT !.author = u] BY <1>1 DEF Letters!UserText
<1> QED BY <1>1, <1>2, TextIs DEF AText

LEMMA UserOpens ==
  ASSUME NEW u \in {Uid, Friend} PROVE Opening(Letters!UserText(u))
<1>1. PICK s : s = Letters!UserText(u) OBVIOUS
<1>2. TextOk(s) BY <1>1, UserTextIs DEF TextOk, Holding
<1> QED BY <1>1, <1>2, UserTextIs DEF Opening

LEMMA OthersOpen ==
  ASSUME LettersAssumed, world \in Worlds, NEW t, t.holds = {}, t.re = None, t \in AText, t.by = Person, t.author = None,
         t.mail \notin {None, Bad} => t.mail = Person,
         t.from # None => t.id # None /\ t.id.in = "netmail" /\ (Letters!IsAddress(t.from) => t.from = Full),
         t.id # None /\ t.id.in = "netmail" => t.from # None
  PROVE Opening(t)
<1>1. Person \notin {Uid, Friend} BY PersonIs
<1> QED BY <1>1 DEF Opening, TextOk, Holding

LEMMA MailOpens ==
  ASSUME LettersAssumed, world \in Worlds, NEW a \in {Person, Bad} PROVE Opening(Letters!MailText(Person, a))
<1>1. PICK t : t = Letters!Text(Person) OBVIOUS
<1>2. PICK s : s = [t EXCEPT !.mail = a] OBVIOUS
<1>3. /\ s \in AText /\ s.by = Person /\ s.author = None /\ s.mail = a /\ s.from = None /\ s.id = None
      /\ s.holds = {} /\ s.re = None
  BY <1>1, <1>2, TextIs DEF AText
<1>4. Opening(s) BY <1>3, OthersOpen
<1> QED BY <1>1, <1>2, <1>4 DEF Letters!MailText

LEMMA IdIs ==
  ASSUME LettersAssumed, NEW o \in {None, Full, Short, Letters!Odd}, NEW k \in {"news", "netmail", "echo"}
  PROVE  /\ Letters!Id(o, Person, k) \in Reply /\ Letters!Id(o, Person, k) # None
         /\ Letters!Id(o, Person, k).in = k /\ Letters!Id(o, Person, k).origin = o
<1>1. Letters!Id(o, Person, k) \in Msgid BY DEF Msgid
<1>2. Letters!Id(o, Person, k) # None BY DEF LettersAssumed, Markings
<1> QED BY <1>1, <1>2 DEF Reply, Letters!Id

LEMMA NewsOpens ==
  ASSUME LettersAssumed, world \in Worlds PROVE Opening(Letters!NewsText(Person))
<1>1. PICK t : t = Letters!Text(Person) OBVIOUS
<1>2. PICK i : i = Letters!Id(None, Person, "news") OBVIOUS
<1>3. PICK s : s = [t EXCEPT !.mail = Person, !.id = i] OBVIOUS
<1>4. i \in Reply /\ i # None /\ i.in = "news" BY <1>2, IdIs
<1>5. /\ s \in AText /\ s.by = Person /\ s.author = None /\ s.mail = Person /\ s.from = None /\ s.id = i
      /\ s.holds = {} /\ s.re = None
  <2>1. /\ t \in AText /\ t.by = Person /\ t.author = None /\ t.from = None /\ t.holds = {} /\ t.re = None
    BY <1>1, TextIs
  <2> QED BY <1>3, <1>4, <2>1 DEF AText
<1>6. Opening(s) BY <1>4, <1>5, OthersOpen
<1> QED BY <1>1, <1>2, <1>3, <1>6 DEF Letters!NewsText

LEMMA OriginIs ==
  ASSUME LettersAssumed, world \in Worlds, NEW form
  PROVE  /\ Letters!Origin(Person, form) \in {Full, Short, Letters!Odd}
         /\ Letters!FiveD(Letters!Origin(Person, form), Person.dom) \in Address
         /\ Letters!IsAddress(Letters!FiveD(Letters!Origin(Person, form), Person.dom)) =>
              Letters!FiveD(Letters!Origin(Person, form), Person.dom) = Full
<1>1. Letters!Origin(Person, form) \in {Full, Short, Letters!Odd}
  BY DEF Letters!Origin, Full, Short
<1>2. Letters!FiveD(Full, Person.dom) = Full
  BY PersonIs DEF Letters!FiveD
<1>3. Letters!FiveD(Short, Person.dom) = Full
  <2>1. PICK z, n, d : Person = [zone |-> z, node |-> n, dom |-> d]
    BY PersonIs DEF SystemOk, Person
  <2>2. Short = [zone |-> z, node |-> n, dom |-> None] /\ Full = [zone |-> z, node |-> n, dom |-> d]
    BY <2>1, PersonIs
  <2>3. Letters!FiveD(Short, Person.dom) = [Short EXCEPT !.dom = Person.dom]
    BY PersonIs DEF Letters!FiveD
  <2> QED BY <2>1, <2>2, <2>3
<1>4. /\ Letters!FiveD(Letters!Odd, Person.dom) \in Address
      /\ ~Letters!IsAddress(Letters!FiveD(Letters!Odd, Person.dom))
  <2>1. Letters!FiveD(Letters!Odd, Person.dom) = [Letters!Odd EXCEPT !.dom = Person.dom]
    BY DEF Letters!FiveD, Letters!Odd
  <2>2. Letters!FiveD(Letters!Odd, Person.dom).zone = None BY <2>1 DEF Letters!Odd
  <2> QED BY <2>2 DEF Letters!IsAddress, Address
<1>5. Full \in Address BY DEF Address
<1> QED BY <1>1, <1>2, <1>3, <1>4, <1>5

LEMMA NetmailOpens ==
  ASSUME LettersAssumed, world \in Worlds, NEW form PROVE Opening(Letters!NetmailText(Person, form, Person.dom))
<1>1. PICK t : t = Letters!Text(Person) OBVIOUS
<1>2. PICK i : i = Letters!Id(Letters!Origin(Person, form), Person, "netmail") OBVIOUS
<1>3. PICK a : a = Letters!FiveD(Letters!Origin(Person, form), Person.dom) OBVIOUS
<1>4. PICK s : s = [t EXCEPT !.from = a, !.id = i] OBVIOUS
<1>5. i \in Reply /\ i # None /\ i.in = "netmail" BY <1>2, IdIs, OriginIs
<1>6. a \in Address /\ a # None /\ (Letters!IsAddress(a) => a = Full) BY <1>3, OriginIs, PersonIs
<1>7. /\ s \in AText /\ s.by = Person /\ s.author = None /\ s.mail = None /\ s.from = a /\ s.id = i
      /\ s.holds = {} /\ s.re = None
  <2>1. /\ t \in AText /\ t.by = Person /\ t.author = None /\ t.mail = None /\ t.holds = {} /\ t.re = None
    BY <1>1, TextIs
  <2> QED BY <1>4, <1>5, <1>6, <2>1 DEF AText
<1>8. Opening(s) BY <1>5, <1>6, <1>7, OthersOpen
<1> QED BY <1>1, <1>2, <1>3, <1>4, <1>8 DEF Letters!NetmailText

LEMMA EchoOpens ==
  ASSUME LettersAssumed, world \in Worlds, NEW form PROVE Opening(Letters!EchoText(Person, form))
<1>1. PICK t : t = Letters!Text(Person) OBVIOUS
<1>2. CASE form = "paren"
  <2>1. PICK s : s = [t EXCEPT !.paren = Short] OBVIOUS
  <2>2. /\ s \in AText /\ s.by = Person /\ s.author = None /\ s.mail = None /\ s.from = None /\ s.id = None
        /\ s.holds = {} /\ s.re = None
    BY <1>1, <2>1, TextIs DEF AText
  <2>3. Opening(s) BY <2>2, OthersOpen
  <2> QED BY <1>1, <1>2, <2>1, <2>3 DEF Letters!EchoText, Short
<1>3. CASE form # "paren"
  <2>1. PICK i : i = Letters!Id(Letters!Origin(Person, form), Person, "echo") OBVIOUS
  <2>2. PICK s : s = [t EXCEPT !.id = i] OBVIOUS
  <2>3. i \in Reply /\ i # None /\ i.in = "echo" BY <2>1, IdIs, OriginIs
  <2>4. /\ s \in AText /\ s.by = Person /\ s.author = None /\ s.mail = None /\ s.from = None /\ s.id = i
        /\ s.holds = {} /\ s.re = None
    BY <1>1, <2>2, <2>3, TextIs DEF AText
  <2>5. Opening(s) BY <2>3, <2>4, OthersOpen
  <2> QED BY <1>1, <1>3, <2>1, <2>2, <2>5 DEF Letters!EchoText
<1> QED BY <1>2, <1>3

LEMMA BlankIs ==
  ASSUME LettersAssumed, world \in Worlds
  PROVE  /\ Letters!Blank \in AnEdit /\ Letters!Blank.state = "prompt" /\ Letters!Blank.holds = {}
         /\ Letters!Off \in AnEdit /\ Letters!Off.state = "off" /\ Letters!Off.holds = {}
<1>1. PICK b : b = Letters!Blank OBVIOUS
<1>2. b \in AnEdit /\ b.state = "prompt" /\ b.holds = {}
  BY <1>1 DEF Letters!Blank, AnEdit, Reply
<1>3. PICK o : o = [b EXCEPT !.state = "off"] OBVIOUS
<1>4. o \in AnEdit /\ o.state = "off" /\ o.holds = {}
  BY <1>2, <1>3 DEF AnEdit
<1> QED BY <1>1, <1>2, <1>3, <1>4 DEF Letters!Off

LEMMA LettersInits == ASSUME LettersAssumed, Letters!Init PROVE LettersInv
<1>1. /\ world \in Worlds /\ meant = << >> /\ astray = {} /\ cut = {} /\ jobs = {} /\ sent = {}
      /\ edit = Letters!Blank /\ draft = None /\ dead = None /\ hup = "exec_logout"
      /\ DOMAIN box = Letters!Places
  BY DEF Letters!Init
<1>2. edit \in AnEdit /\ edit.state = "prompt" /\ edit.holds = {} BY <1>1, BlankIs
<1> DEFINE Start(s) == s \in Seq(AText) /\ \A i \in DOMAIN s : Opening(s[i])
<1>3. ASSUME NEW c \in Letters!Places PROVE Start(box[c])
  <2>2. /\ Opening(Letters!UserText(Uid)) /\ Opening(Letters!UserText(Friend))
        /\ Opening(Letters!EchoText(Person, world.form)) /\ Opening(Letters!NewsText(Person))
        /\ Opening(Letters!NetmailText(Person, world.form, Person.dom))
        /\ Opening(Letters!MailText(Person, Person)) /\ Opening(Letters!MailText(Person, Bad))
    BY <1>1, UserOpens, EchoOpens, NewsOpens, NetmailOpens, MailOpens
  <2>3. ASSUME NEW a, NEW b, Opening(a), Opening(b) PROVE Start(<< a >>) /\ Start(<< a, b >>) /\ Start(<< >>)
    BY <2>3 DEF Opening
  <2>4. Start(Letters!Inbox(world))
    BY <2>2 DEF Letters!Inbox, Opening, Person
  <2>5. box[c] \in { << Letters!UserText(Friend) >>, << Letters!UserText(Friend), Letters!EchoText(Person, world.form) >>,
                     << Letters!NewsText(Person) >>, Letters!Inbox(world), << >> }
    BY DEF Letters!Init, Person
  <2> QED BY <2>2, <2>3, <2>4, <2>5
<1>4. box \in [Letters!Places -> Seq(AText)] /\ \A c \in Letters!Places : \A i \in DOMAIN box[c] : Opening(box[c][i])
  BY <1>1, <1>3 DEF Letters!Init
<1> HIDE DEF Start
<1>5. LetterTypes
  BY <1>1, <1>2, <1>4 DEF LetterTypes, Holding
<1>6. TextsOk /\ Delivered /\ Following
  <2>1. TextsOk BY <1>4 DEF TextsOk, Opening
  <2>2. Delivered BY <1>4 DEF Delivered, Opening, Loose
  <2>3. \A c \in Letters!Confs : c \in Letters!Places BY DEF Letters!Places
  <2>4. Following BY <1>4, <2>3 DEF Following, Opening, Linked, Clean
  <2> QED BY <2>1, <2>2, <2>4
<1>7. Queued /\ Letters!SentRight /\ Singles
  BY <1>1 DEF Queued, Letters!SentRight, Singles
<1>8. EditIs /\ InHand
  BY <1>1, <1>2 DEF EditIs, AtText, InHand, Letters!InFile, Loose, Ahead, OneSaved, Letters!Passing
<1> QED BY <1>5, <1>6, <1>7, <1>8 DEF LettersInv, Settled

-----------------------------------------------------------------------------
(* A step that only moves the letter in hand.                              *)
Still == /\ UNCHANGED << world, box, jobs, echo, sent, meant >>
         /\ astray \subseteq astray' /\ cut \subseteq cut'

LEMMA StillRight ==
  ASSUME LettersInv, Still, edit' = edit \/ (edit.state = "given" => edit.holds \subseteq cut' \cup astray')
  PROVE  TextsOk' /\ Settled'
<1>1. UNCHANGED << world, box, jobs, sent, meant >> /\ astray \subseteq astray' BY DEF Still
<1>2. TextsOk' BY <1>1 DEF LettersInv, TextsOk, TextOk, Holding, Letters!IsAddress, Full, Person, Letters!AddressOf
<1>3. \A S, n : n \in Loose(S)' => n \in Loose(S) BY <1>1 DEF Loose
<1>4. Delivered'
  BY <1>1, <1>3 DEF LettersInv, Settled, Delivered, Letters!TextArrives, Letters!Parent, Letters!Misplaced
<1>5. Queued'
  BY <1>1, <1>3 DEF LettersInv, Settled, Queued, AddressRight, Letters!IsAddress, Full, Short, Person, Letters!AddressOf, Letters!FourD
<1>6. Letters!SentRight'
  <2>1. \A S : Letters!Meant(S)' \subseteq Letters!Meant(S) BY <1>1 DEF Letters!Meant
  <2>2. \A m : Letters!Known(m)' <=> Letters!Known(m) BY <1>1 DEF Letters!Known
  <2> QED BY <1>1, <2>1, <2>2 DEF LettersInv, Settled, Letters!SentRight
<1>7. Singles'
  <2>1. ASSUME NEW n \in DOMAIN meant \ astray' PROVE Single(n)'
    <3>1. Single(n) BY <1>1 DEF LettersInv, Settled, Singles
    <3>2. InQueues(n)' = InQueues(n) /\ InBoxes(n)' = InBoxes(n) /\ InOwn(n)' = InOwn(n)
      BY <1>1 DEF InQueues, InBoxes, InOwn
    <3>3. n \in cut \/ Waits(n) => n \in cut' \/ Waits(n)' BY DEF Waits, Still
    <3> QED BY <1>1, <3>1, <3>2, <3>3 DEF Single, AtMostOne, Letters!Private
  <2> QED BY <1>1, <2>1 DEF Singles
<1> QED BY <1>2, <1>4, <1>5, <1>6, <1>7 DEF Settled

LEMMA StillFollowing ==
  ASSUME LettersInv, Still,
         \/ ~AtText \/ edit.to \notin Letters!Confs \/ edit.holds \subseteq Excused'
         \/ AtText' /\ edit'.to = edit.to /\ edit'.new = edit.new
  PROVE  Following'
<1>1. UNCHANGED << box, echo >> /\ astray \subseteq astray' /\ cut \subseteq cut' BY DEF Still
<1>2. \A t : Clean(t)' => Clean(t) BY <1>1 DEF Clean, Excused
<1>3. ASSUME NEW c \in Letters!Confs, NEW i \in DOMAIN box[c]
      PROVE  (AtText' /\ c = edit'.to /\ i = edit'.new) \/ Linked(box[c][i], c, i)'
  <2>1. CASE Linked(box[c][i], c, i) BY <1>1, <1>2, <2>1 DEF Linked
  <2>2. CASE AtText /\ c = edit.to /\ i = edit.new
    <3>1. box[c][i].holds = edit.holds BY <2>2 DEF LettersInv, EditIs, TextIn
    <3>2. CASE edit.holds \subseteq Excused'
      <4>1. ~Clean(box[c][i])' BY <1>1, <3>1, <3>2 DEF Clean
      <4> QED BY <1>1, <4>1 DEF Linked, Clean
    <3> QED BY <2>2, <3>2
  <2> QED BY <2>1, <2>2 DEF LettersInv, Following
<1> QED BY <1>1, <1>3 DEF Following

LEMMA StillTypes ==
  ASSUME LetterTypes, Still, edit' \in AnEdit, edit'.holds \in Holding, draft' = None \/ draft' \in Holding,
         dead' \in {None, Bad} \cup AKeep, hup' \in {"exec_logout", "abort_edit"}
  PROVE  LetterTypes'
<1>1. UNCHANGED << world, box, jobs, sent, meant >> BY DEF Still
<1>2. AnEdit' = AnEdit /\ ATarget' = ATarget /\ AText' = AText /\ AKeep' = AKeep /\ AJob' = AJob /\ Holding' = Holding
  <2>1. Person' = Person BY <1>1 DEF Person
  <2>2. Full' = Full /\ Short' = Short BY <2>1 DEF Full, Short
  <2>3. Address' = Address BY <2>1, <2>2 DEF Address
  <2>4. Msgid' = Msgid BY <2>1, <2>2 DEF Msgid
  <2>5. Reply' = Reply BY <2>4 DEF Reply
  <2> QED BY <1>1, <2>1, <2>2, <2>3, <2>4, <2>5 DEF AnEdit, ATarget, AText, AKeep, AJob, Holding
<1> QED BY <1>1, <1>2 DEF LetterTypes

LEMMA Quietly ==
  ASSUME LettersInv, Still,
         edit.state \in {"given", "copied", "stored"} => edit.holds \subseteq cut' \cup astray',
         edit' \in AnEdit, edit'.holds \in Holding, draft' = None \/ draft' \in Holding,
         dead' \in {None, Bad} \cup AKeep, hup' \in {"exec_logout", "abort_edit"},
         EditIs', InHand'
  PROVE  LettersInv'
<1>1. AtText => edit.holds \subseteq Excused' BY DEF AtText, Letters!Passing, Excused
<1>2. Following' BY <1>1, StillFollowing
<1>3. TextsOk' /\ Settled' BY StillRight
<1> QED BY <1>2, <1>3, StillTypes DEF LettersInv

(* Nothing is left in hand.                                                *)
LEMMA PutAway ==
  ASSUME edit'.state \in {"prompt", "off"}, Loose(Letters!InFile)' = {},
         dead' = None \/ (dead' = Bad /\ edit'.state = "off")
  PROVE  EditIs' /\ InHand'
<1>1. Ahead' = Letters!InFile' BY DEF Ahead, Letters!Passing
<1>2. Loose(Ahead)' = {} BY <1>1 DEF Loose
<1> QED BY <1>2 DEF EditIs, AtText, InHand, NoneWaits, OneSaved, Letters!Passing

LEMMA NothingLeft ==
  ASSUME LettersAssumed, LettersInv, Still,
         edit.state \in {"given", "copied", "stored"} => edit.holds \subseteq cut' \cup astray',
         edit' \in {Letters!Blank, Letters!Off}, draft' = None \/ draft' \in Holding,
         Loose(Letters!InFile)' = {}, hup' \in {"exec_logout", "abort_edit"},
         dead' = None \/ (dead' = Bad /\ edit' = Letters!Off)
  PROVE  LettersInv'
<1>1. /\ edit' \in AnEdit /\ edit'.state \in {"prompt", "off"} /\ edit'.holds = {}
      /\ edit' = Letters!Off => edit'.state = "off"
  BY BlankIs DEF LettersInv, LetterTypes
<1>2. EditIs' /\ InHand' BY <1>1, PutAway
<1>3. edit'.holds \in Holding BY <1>1 DEF Holding
<1> QED BY <1>1, <1>2, <1>3, Quietly

LEMMA CrashKeeps == ASSUME LettersAssumed, LettersInv, Letters!Crash PROVE LettersInv'
<1>1. /\ edit.state = "prompt" /\ edit' = Letters!Off
      /\ UNCHANGED << world, box, jobs, echo, sent, draft, dead, hup, hangups, meant, astray, cut >>
  BY DEF Letters!Crash
<1>2. Still /\ dead = None /\ Loose(Letters!InFile) = {}
  BY <1>1 DEF Still, LettersInv, InHand, NoneWaits
<1>3. Loose(Letters!InFile)' = {} BY <1>1, <1>2 DEF Loose, Letters!InFile
<1> QED BY <1>1, <1>2, <1>3, NothingLeft DEF LettersInv, LetterTypes

LEMMA CancelKeeps == ASSUME LettersAssumed, LettersInv, Letters!Cancel PROVE LettersInv'
<1>1. /\ edit.state = "edit" /\ edit' = Letters!Blank
      /\ draft' = IF edit.cmd = "resume" THEN None ELSE draft
      /\ UNCHANGED << world, box, jobs, echo, sent, dead, hup, hangups, meant, astray, cut >>
  BY DEF Letters!Cancel
<1>2. Still /\ dead = None BY <1>1 DEF Still, LettersInv, InHand
<1>3. Loose(Letters!InFile)' = {}
  <2>1. CASE edit.cmd = "resume" BY <1>1, <2>1 DEF Loose, Letters!InFile
  <2>2. CASE edit.cmd # "resume"
    <3>1. Loose(Letters!InFile) = {} BY <1>1, <2>2 DEF LettersInv, InHand, NoneWaits
    <3> QED BY <1>1, <2>2, <3>1 DEF Loose, Letters!InFile
  <2> QED BY <2>1, <2>2
<1> QED BY <1>1, <1>2, <1>3, NothingLeft DEF LettersInv, LetterTypes

LEMMA FailureKeeps == ASSUME LettersAssumed, LettersInv, Letters!Fail PROVE LettersInv'
<1>1. /\ edit.state = "saved" /\ edit' = Letters!Blank /\ astray' = astray \cup edit.holds
      /\ UNCHANGED << world, box, jobs, echo, sent, draft, dead, hup, hangups, meant, cut >>
  BY DEF Letters!Fail
<1>2. Still /\ dead = None /\ edit.holds = Letters!InFile
  BY <1>1 DEF Still, LettersInv, InHand, OneSaved
<1>3. Loose(Letters!InFile)' = {} BY <1>1, <1>2 DEF Loose, Letters!InFile
<1> QED BY <1>1, <1>2, <1>3, NothingLeft DEF LettersInv, LetterTypes

LEMMA LeftOverKeeps == ASSUME LettersAssumed, LettersInv, Letters!LeftOver PROVE LettersInv'
<1>1. /\ edit.state \in {"given", "copied"} /\ edit' = Letters!Blank /\ astray' = astray \cup edit.holds
      /\ UNCHANGED << world, box, jobs, echo, sent, draft, dead, hup, hangups, meant, cut >>
  BY DEF Letters!LeftOver
<1>2. Still /\ dead = None /\ edit.holds = Letters!InFile
  BY <1>1 DEF Still, LettersInv, InHand, OneSaved, Letters!Passing
<1>3. Loose(Letters!InFile)' = {} BY <1>1, <1>2 DEF Loose, Letters!InFile
<1> QED BY <1>1, <1>2, <1>3, NothingLeft DEF LettersInv, LetterTypes

LEMMA GoneKeeps == ASSUME LettersAssumed, LettersInv, Letters!Gone PROVE LettersInv'
<1>1. /\ edit.state = "stored" /\ edit' = Letters!Blank /\ cut' = cut \cup edit.holds
      /\ UNCHANGED << world, box, jobs, echo, sent, draft, dead, hup, hangups, meant, astray >>
  BY DEF Letters!Gone
<1>2. Still /\ dead = None /\ Loose(Letters!InFile) = {}
  BY <1>1 DEF Still, LettersInv, InHand, NoneWaits
<1>3. Loose(Letters!InFile)' = {} BY <1>1, <1>2 DEF Loose, Letters!InFile
<1> QED BY <1>1, <1>2, <1>3, NothingLeft DEF LettersInv, LetterTypes

LEMMA HangupKeeps == ASSUME LettersAssumed, LettersInv, Letters!Hangup PROVE LettersInv'
<1>1. /\ edit.state # "off" /\ edit' = Letters!Off
      /\ edit.state \in {"given", "copied", "saved", "stored"} \/ hup = "exec_logout"
      /\ astray' = (IF edit.state \in {"given", "copied", "saved"} THEN astray \cup edit.holds ELSE astray)
      /\ cut' = (IF edit.state = "stored" THEN cut \cup edit.holds ELSE cut)
      /\ UNCHANGED << world, box, jobs, echo, sent, hup, meant, draft, dead >>
  BY DEF Letters!Hangup, Letters!DropLine, Letters!Passing
<1>2. Still /\ dead = None BY <1>1 DEF Still, LettersInv, InHand
<1>3. Loose(Letters!InFile)' = {}
  <2>1. CASE edit.state \in {"given", "copied", "saved"}
    <3>1. edit.holds = Letters!InFile BY <2>1 DEF LettersInv, InHand, OneSaved, Letters!Passing
    <3> QED BY <1>1, <2>1, <3>1 DEF Loose, Letters!InFile
  <2>2. CASE edit.state \notin {"given", "copied", "saved"}
    <3>1. edit.state \in {"prompt", "edit", "stored"}
      BY <1>1, <2>2 DEF LettersInv, LetterTypes, AnEdit
    <3>2. edit.state = "edit" => edit.cmd # "resume"
      BY <1>1 DEF LettersInv, InHand
    <3>3. Loose(Letters!InFile) = {} BY <3>1, <3>2 DEF LettersInv, InHand, NoneWaits
    <3> QED BY <1>1, <2>2, <3>3 DEF Loose, Letters!InFile
  <2> QED BY <2>1, <2>2
<1> QED BY <1>1, <1>2, <1>3, NothingLeft DEF LettersInv, LetterTypes

LEMMA LoginKeeps == ASSUME LettersAssumed, LettersInv, Letters!Login PROVE LettersInv'
<1>1. /\ edit.state = "off" /\ dead = None /\ edit' = Letters!Blank /\ hup' = "exec_logout"
      /\ UNCHANGED << world, box, jobs, echo, sent, draft, dead, hangups, meant, astray, cut >>
  BY DEF Letters!Login
<1>2. Still /\ Loose(Letters!InFile) = {} BY <1>1 DEF Still, LettersInv, InHand, NoneWaits
<1>3. Loose(Letters!InFile)' = {} BY <1>1, <1>2 DEF Loose, Letters!InFile
<1> QED BY <1>1, <1>2, <1>3, NothingLeft DEF LettersInv, LetterTypes

LEMMA ResumeNothingKeeps == ASSUME LettersAssumed, LettersInv, Letters!ResumeNothing PROVE LettersInv'
<1>1. /\ edit.state = "off" /\ dead' = None /\ edit' = Letters!Blank /\ hup' = "exec_logout" /\ draft' = None
      /\ UNCHANGED << world, box, jobs, echo, sent, hangups, meant, astray, cut >>
  BY DEF Letters!ResumeNothing
<1>2. Still /\ Loose(Letters!InFile)' = {} BY <1>1 DEF Still, Loose, Letters!InFile
<1> QED BY <1>1, <1>2, NothingLeft

LEMMA SaveKeeps == ASSUME LettersAssumed, LettersInv, Letters!Save PROVE LettersInv'
<1>1. /\ edit.state = "edit"
      /\ edit' = [edit EXCEPT !.state = "saved",
                    !.author = IF edit.cmd = "comment" /\ edit.to \in Groups THEN None ELSE edit.author]
      /\ draft' = edit.holds /\ hup' = "exec_logout"
      /\ UNCHANGED << world, box, jobs, echo, sent, dead, hangups, meant, astray, cut >>
  BY DEF Letters!Save
<1>2. Still /\ dead = None /\ edit \in AnEdit /\ edit.holds \in Holding
  BY <1>1 DEF Still, LettersInv, InHand, LetterTypes
<1>3. /\ edit' \in AnEdit /\ edit'.state = "saved" /\ edit'.cmd = edit.cmd /\ edit'.at = edit.at
      /\ edit'.to = edit.to /\ edit'.re = edit.re /\ edit'.asked = edit.asked /\ edit'.addr = edit.addr
      /\ edit'.reply = edit.reply /\ edit'.mail = edit.mail /\ edit'.holds = edit.holds /\ edit'.num = edit.num
      /\ edit'.author = IF edit.cmd = "comment" /\ edit.to \in Groups THEN None ELSE edit.author
  BY <1>1, <1>2 DEF AnEdit
<1>4. Letters!InFile' = edit.holds
  <2>1. draft' # None BY <1>1, <1>2 DEF AnEdit, LettersAssumed, Markings
  <2> QED BY <1>1, <2>1 DEF Letters!InFile
<1>5. EditIs'
  BY <1>1, <1>3 DEF LettersInv, EditIs, AtText, EditFits, Excused, Letters!Passing
<1>6. ASSUME NEW n \in Loose(Ahead)' PROVE n = Len(meant) /\ Unplaced(n)' /\ EditRight(edit, meant[n])'
  <2>1. n \in Loose(Ahead) BY <1>1, <1>3 DEF Ahead, Loose
  <2>2. n = Len(meant) /\ Unplaced(n) /\ EditRight(edit, meant[n])
    BY <1>1, <2>1 DEF LettersInv, InHand
  <2>3. Unplaced(n)' BY <1>1, <2>2 DEF Unplaced
  <2>4. Address' = Address /\ Person' = Person /\ Full' = Full /\ Short' = Short
    BY <1>1 DEF Person, Full, Short, Address
  <2>5. EditRight(edit, meant[n])'
    BY <1>1, <1>3, <2>2, <2>4
    DEF EditRight, MailRight, PostRight, CommentRight, KeptRight, AddressRight, Personally
  <2> QED BY <1>1, <2>2, <2>3, <2>5
<1>8. InHand'
  BY <1>1, <1>2, <1>3, <1>4, <1>6 DEF InHand, NoneWaits, OneSaved, Ahead, Letters!Passing
<1> QED BY <1>1, <1>2, <1>3, <1>5, <1>8, Quietly DEF LettersInv, LetterTypes

(* A text for the conference it was begun in comes back as it was.         *)
LEMMA ComesBack ==
  ASSUME LettersAssumed, LettersInv, edit.state = "edit", NEW n, EditRight(edit, meant[n]), meant[n].way = "conf",
         edit.to = edit.at
  PROVE  KeptRight(meant[n], edit.at, edit.re)
<1>1. EditFits(edit) /\ edit \in AnEdit BY DEF LettersInv, EditIs, LetterTypes
<1>2. edit.cmd \in {"mail", "post", "personal", "comment", "reply", "resume"}
  BY <1>1 DEF EditFits, AnEdit
<1>3. CASE edit.cmd \in Personally
  <2>1. MailRight(edit, meant[n]) BY <1>3 DEF EditRight
  <2>2. meant[n].way \in {"ftn", "mail", "box"} BY <2>1 DEF MailRight, AddressRight, Letters!Target
  <2> QED BY <2>2
<1>4. CASE edit.cmd = "post"
  <2>1. meant[n] = Letters!Target("conf", edit.to, None)
    BY <1>4 DEF EditRight, PostRight, Letters!Target
  <2> QED BY <1>1, <1>4, <2>1 DEF EditFits, KeptRight, Answers
<1>5. CASE edit.cmd = "comment"
  <2>1. meant[n] = Letters!Target("conf", edit.to, [num |-> edit.num, conf |-> edit.at])
    BY <1>5 DEF EditRight, CommentRight, Letters!Target
  <2>2. edit.re = [num |-> edit.num, conf |-> None] /\ edit.at \in Letters!Confs
    BY <1>1, <1>5 DEF EditFits
  <2>3. Answers(edit.re, edit.at) = [num |-> edit.num, conf |-> edit.at]
    BY <2>2 DEF Answers, LettersAssumed, Markings
  <2> QED BY <2>1, <2>2, <2>3 DEF KeptRight
<1>6. CASE edit.cmd = "resume" BY <1>6 DEF EditRight
<1> QED BY <1>2, <1>3, <1>4, <1>5, <1>6 DEF Personally

(* The line is off and DEAD_FILE says how to go on.                        *)
LEMMA PutDown ==
  ASSUME LettersAssumed, LettersInv, Still, edit.state \in {"prompt", "edit"}, edit' = Letters!Off, dead' \in AKeep, hup' = hup,
         draft' \in Holding, draft' \subseteq Excused',
         \A n \in Loose(draft)' : n = Len(meant) /\ Unplaced(n) /\ KeptRight(meant[n], dead'.conf, dead'.re)
  PROVE  LettersInv'
<1>1. edit' \in AnEdit /\ edit'.state = "off" /\ edit'.holds \in Holding
  BY BlankIs DEF LettersInv, LetterTypes, Holding
<1>2. UNCHANGED << box, jobs, sent, meant >> BY DEF Still
<1>3. draft' # None /\ dead' \notin {None, Bad}
  BY DEF LettersAssumed, Markings, Holding, AKeep, Letters!Keep
<1>4. Letters!InFile' = draft' /\ Ahead' = draft' BY <1>1, <1>3 DEF Letters!InFile, Ahead, Letters!Passing
<1>5. EditIs' BY <1>1 DEF EditIs, AtText, Letters!Passing
<1>6. ASSUME NEW n \in Loose(Ahead)'
      PROVE  n = Len(meant') /\ Unplaced(n)' /\ KeptRight(meant[n], dead.conf, dead.re)'
  <2>1. n \in Loose(draft)' BY <1>4 DEF Loose
  <2>2. n = Len(meant) /\ Unplaced(n) /\ KeptRight(meant[n], dead'.conf, dead'.re) BY <2>1
  <2>3. Unplaced(n)' BY <1>2, <2>2 DEF Unplaced
  <2>4. KeptRight(meant[n], dead.conf, dead.re)'
    BY <1>2, <2>2 DEF KeptRight, Answers, Letters!Target
  <2> QED BY <1>2, <2>2, <2>3, <2>4
<1>7. InHand' BY <1>1, <1>3, <1>4, <1>6 DEF InHand, NoneWaits, OneSaved, Letters!Passing
<1> QED BY <1>1, <1>5, <1>7, Quietly DEF LettersInv, LetterTypes

LEMMA AbortEditKeeps == ASSUME LettersAssumed, LettersInv, Letters!AbortEdit PROVE LettersInv'
<1>1. /\ edit.state = "edit" /\ edit' = Letters!Off /\ hup' = hup
      /\ draft' = edit.holds /\ cut' = cut \cup edit.holds /\ astray \subseteq astray'
      /\ UNCHANGED << world, box, jobs, echo, sent, meant >>
  BY DEF Letters!AbortEdit, Letters!DropLine
<1>2. Still /\ edit \in AnEdit /\ edit.holds \in Holding BY <1>1 DEF Still, LettersInv, LetterTypes
<1>3. Letters!InFile' = edit.holds
  <2>1. draft' # None BY <1>1, <1>2 DEF AnEdit, LettersAssumed, Markings
  <2> QED BY <1>1, <2>1 DEF Letters!InFile
<1>4. CASE dead' \in {None, Bad} /\ astray' = astray \cup edit.holds
  <2>1. Loose(Letters!InFile)' = {} BY <1>3, <1>4 DEF Loose
  <2> QED BY <1>1, <1>2, <1>4, <2>1, NothingLeft DEF LettersInv, LetterTypes
<1>5. CASE /\ dead' = Letters!Keep(edit.at, edit.author, edit.re, edit.aborts)
           /\ astray' = IF Letters!AtHome THEN astray ELSE astray \cup edit.holds
  <2>1. dead' \in AKeep /\ dead'.conf = edit.at /\ dead'.re = edit.re
    BY <1>2, <1>5 DEF AKeep, AnEdit, Letters!Keep
  <2>2. ASSUME NEW n \in Loose(draft)'
        PROVE  n = Len(meant) /\ Unplaced(n) /\ KeptRight(meant[n], dead'.conf, dead'.re)
    <3>1. n \in edit.holds /\ n \notin astray' /\ n # 0 BY <1>1, <2>2 DEF Loose
    <3>2. Letters!AtHome /\ n \notin astray BY <1>5, <3>1
    <3>3. n \in Loose(Ahead) BY <1>1, <3>1, <3>2 DEF Loose, Ahead
    <3>4. n = Len(meant) /\ Unplaced(n) /\ EditRight(edit, meant[n])
      BY <1>1, <3>3 DEF LettersInv, InHand
    <3>5. meant[n].way = "conf" /\ edit.to = edit.at BY <3>2, <3>4 DEF Letters!AtHome
    <3> QED BY <1>1, <2>1, <3>4, <3>5, ComesBack
  <2>3. draft' \subseteq Excused' BY <1>1 DEF Excused
  <2> QED BY <1>1, <1>2, <2>1, <2>2, <2>3, PutDown
<1> QED BY <1>4, <1>5 DEF Letters!AbortEdit

LEMMA AbortNothingKeeps == ASSUME LettersAssumed, LettersInv, Letters!AbortNothing PROVE LettersInv'
<1>1. /\ edit.state = "prompt" /\ edit' = Letters!Off /\ hup' = hup
      /\ UNCHANGED << world, box, jobs, echo, sent, meant, astray, cut >>
  BY DEF Letters!AbortNothing, Letters!DropLine
<1>2. Still /\ dead = None /\ Loose(Letters!InFile) = {}
  BY <1>1 DEF Still, LettersInv, InHand, NoneWaits
<1>3. CASE UNCHANGED << draft, dead >>
  <2>1. Loose(Letters!InFile)' = {} BY <1>1, <1>2, <1>3 DEF Loose, Letters!InFile
  <2> QED BY <1>1, <1>2, <1>3, <2>1, NothingLeft DEF LettersInv, LetterTypes
<1>4. CASE \E c \in Letters!Confs \cup {None}, a \in {None, Uid} :
             draft' = {0} /\ dead' = Letters!Keep(c, a, None, TRUE)
  <2>1. draft' = {0} /\ dead' \in AKeep BY <1>4 DEF AKeep, Letters!Keep
  <2>2. draft' \in Holding /\ draft' \subseteq Excused' /\ Loose(draft)' = {}
    BY <2>1 DEF Holding, Excused, Loose, LettersInv, LetterTypes
  <2> QED BY <1>1, <1>2, <2>1, <2>2, PutDown
<1> QED BY <1>3, <1>4 DEF Letters!AbortNothing

LEMMA ResumeKeeps == ASSUME LettersAssumed, LettersInv, Letters!Resume PROVE LettersInv'
<1>1. /\ edit.state = "off" /\ dead \notin {None, Bad}
      /\ edit' = [Letters!Blank EXCEPT !.state = "edit", !.cmd = "resume", !.at = dead.conf, !.to = dead.conf,
                    !.author = dead.author, !.re = dead.re, !.holds = Letters!InFile, !.aborts = TRUE]
      /\ hup' = "abort_edit" /\ dead' = None
      /\ UNCHANGED << world, box, jobs, echo, sent, draft, hangups, meant, astray, cut >>
  BY DEF Letters!Resume
<1>2. Still /\ dead \in AKeep BY <1>1 DEF Still, LettersInv, LetterTypes
<1>3. Letters!InFile \in Holding /\ Letters!InFile \in SUBSET Nat
  BY DEF LettersInv, LetterTypes, Letters!InFile, Holding
<1>4. dead.conf \in Letters!Confs \cup {None} /\ dead.conf \in Letters!Places \cup {None}
      /\ dead.author \in {None, Uid} /\ dead.re \in {None} \cup Ref
  BY <1>2 DEF AKeep, Letters!Places
<1>5. PICK b : b = Letters!Blank /\ b \in AnEdit /\ b.addr = None /\ b.mail = None
  BY BlankIs DEF LettersInv, LetterTypes, Letters!Blank
<1>6. /\ edit' \in AnEdit /\ edit'.state = "edit" /\ edit'.cmd = "resume" /\ edit'.to = dead.conf
      /\ edit'.re = dead.re /\ edit'.holds = Letters!InFile /\ edit'.addr = None /\ edit'.mail = None
  BY <1>1, <1>3, <1>4, <1>5 DEF AnEdit
<1>7. Letters!InFile' = Letters!InFile BY <1>1 DEF Letters!InFile
<1>8. EditIs'
  <2>1. edit'.holds \subseteq Excused' BY <1>1, <1>6 DEF LettersInv, InHand, Excused
  <2> QED BY <1>6, <2>1 DEF EditIs, AtText, EditFits, Personally, Letters!Passing
<1>9. ASSUME NEW n \in Loose(Ahead)' PROVE n = Len(meant') /\ Unplaced(n)' /\ EditRight(edit, meant[n])'
  <2>1. n \in Loose(Ahead) BY <1>1, <1>6 DEF Ahead, Loose, Letters!Passing
  <2>2. n = Len(meant) /\ Unplaced(n) /\ KeptRight(meant[n], dead.conf, dead.re)
    BY <1>1, <2>1 DEF LettersInv, InHand
  <2>3. Unplaced(n)' BY <1>1, <2>2 DEF Unplaced
  <2>4. EditRight(edit, meant[n])'
    BY <1>1, <1>6, <2>2 DEF EditRight, KeptRight, Answers, Letters!Target, Personally
  <2> QED BY <1>1, <2>2, <2>3, <2>4
<1>10. InHand'
  BY <1>1, <1>6, <1>7, <1>9 DEF InHand, NoneWaits, OneSaved, Letters!Passing
<1> QED BY <1>1, <1>2, <1>3, <1>6, <1>8, <1>10, Quietly DEF LettersInv, LetterTypes

-----------------------------------------------------------------------------
(* A new letter.                                                           *)
LEMMA SameSets ==
  ASSUME world' = world
  PROVE  /\ Person' = Person /\ Full' = Full /\ Short' = Short /\ Address' = Address /\ Msgid' = Msgid
         /\ Reply' = Reply /\ AnEdit' = AnEdit /\ ATarget' = ATarget /\ AText' = AText
         /\ AKeep' = AKeep /\ AJob' = AJob
<1>1. Person' = Person BY DEF Person
<1>2. Full' = Full /\ Short' = Short BY <1>1 DEF Full, Short
<1>3. Address' = Address BY <1>1, <1>2 DEF Address
<1>4. Msgid' = Msgid BY <1>1, <1>2 DEF Msgid
<1>5. Reply' = Reply BY <1>4 DEF Reply
<1> QED BY <1>1, <1>2, <1>3, <1>4, <1>5 DEF AnEdit, ATarget, AText, AKeep, AJob

LEMMA BeginKeeps ==
  ASSUME LettersAssumed, LettersInv, NEW e \in AnEdit, NEW m \in ATarget, Letters!Begin(e, m), e.state = "prompt",
         EditFits(e), e.cmd # "resume", EditRight(e, m)
  PROVE  LettersInv'
<1>0. PICK k : k = Len(meant) OBVIOUS
<1>1. /\ edit.state = "prompt" /\ meant' = Append(meant, m)
      /\ edit' = [e EXCEPT !.state = "edit", !.holds = Letters!InFile \cup {k + 1}]
      /\ hup' \in {"abort_edit", hup}
      /\ UNCHANGED << world, box, jobs, echo, sent, draft, dead, hangups, astray, cut >>
  BY <1>0 DEF Letters!Begin
<1>2. LetterTypes /\ dead = None /\ Loose(Letters!InFile) = {} /\ k \in Nat
  BY <1>0, <1>1 DEF LettersInv, LetterTypes, InHand, NoneWaits
<1>3. /\ meant' \in Seq(ATarget) /\ Len(meant') = k + 1 /\ meant'[k + 1] = m
      /\ \A n \in 1 .. k : meant'[n] = meant[n]
  BY <1>0, <1>1, <1>2, AppendProperties DEF LetterTypes
<1>4. Holding \subseteq Holding' /\ Letters!InFile \in Holding /\ Letters!InFile' = Letters!InFile
  BY <1>0, <1>1, <1>2, <1>3 DEF Holding, Letters!InFile, LetterTypes
<1>5. Letters!InFile \cup {k + 1} \in Holding' /\ Letters!InFile \cup {k + 1} \in SUBSET Nat
  <2>1. Letters!InFile \subseteq 0 .. k /\ k + 1 \in 0 .. k + 1 BY <1>0, <1>2, <1>4 DEF Holding
  <2>2. Letters!InFile \cup {k + 1} \subseteq 0 .. k + 1 BY <1>2, <2>1
  <2> QED BY <1>2, <1>3, <2>2 DEF Holding
<1>6. /\ edit' \in AnEdit /\ edit'.state = "edit" /\ edit'.holds = Letters!InFile \cup {k + 1}
      /\ edit'.cmd = e.cmd /\ edit'.at = e.at /\ edit'.to = e.to /\ edit'.re = e.re /\ edit'.asked = e.asked
      /\ edit'.author = e.author /\ edit'.addr = e.addr /\ edit'.reply = e.reply /\ edit'.mail = e.mail /\ edit'.num = e.num
  BY <1>1, <1>5 DEF AnEdit
<1>7. Loose(Letters!InFile)' = {} BY <1>1, <1>2, <1>4 DEF Loose
<1>8. \A S \in Holding : \A n \in Loose(S) : n \in 1 .. k BY <1>0, <1>2 DEF Holding, Loose
<1>9. Unplaced(k + 1)
  <2>1. k + 1 \notin 0 .. k BY <1>2
  <2>2. \A c \in Letters!Places : \A i \in DOMAIN box[c] : k + 1 \notin box[c][i].holds
    BY <1>0, <2>1 DEF LettersInv, TextsOk, TextOk, Holding
  <2>3. \A j \in jobs \cup sent : k + 1 \notin j.holds BY <1>0, <1>2, <2>1 DEF LetterTypes, Holding
  <2> QED BY <2>2, <2>3 DEF Unplaced
<1>10. LetterTypes'
  BY <1>1, <1>2, <1>3, <1>4, <1>5, <1>6, SameSets DEF LetterTypes
<1>11. TextsOk'
  <2>2. ASSUME NEW c \in Letters!Places, NEW i \in DOMAIN box[c] PROVE TextOk(box[c][i])'
    <3>1. TextOk(box[c][i]) BY DEF LettersInv, TextsOk
    <3> QED BY <1>1, <1>4, <3>1, SameSets DEF TextOk, Letters!IsAddress
  <2> QED BY <1>1, <2>2 DEF TextsOk
<1>12. Delivered'
  <2>1. ASSUME NEW c \in Letters!Places, NEW i \in DOMAIN box[c], NEW n \in Loose(box[c][i].holds)
        PROVE  Letters!TextArrives(box[c][i], c, meant[n])'
    <3>1. meant'[n] = meant[n] BY <1>3, <1>8 DEF LettersInv, TextsOk, TextOk
    <3>2. Letters!TextArrives(box[c][i], c, meant[n]) BY DEF LettersInv, Settled, Delivered
    <3> QED BY <1>1, <3>1, <3>2 DEF Letters!TextArrives, Letters!Parent, Letters!Misplaced
  <2> QED BY <1>1, <2>1 DEF Delivered, Loose
<1>13. Queued'
  <2>1. ASSUME NEW j \in jobs, NEW n \in Loose(j.holds)
        PROVE  AddressRight(j.addr, meant[n])' /\ meant'[n].re = j.reply
    <3>1. meant'[n] = meant[n] BY <1>2, <1>3, <1>8 DEF LetterTypes
    <3>2. AddressRight(j.addr, meant[n]) /\ meant[n].re = j.reply BY DEF LettersInv, Settled, Queued
    <3> QED BY <1>1, <3>1, <3>2, SameSets DEF AddressRight, Letters!IsAddress
  <2> QED BY <1>1, <2>1 DEF Queued, Loose
<1>14. Letters!SentRight'
  <2>1. ASSUME NEW S \in Holding PROVE Letters!Meant(S)' \subseteq Letters!Meant(S)
    BY <1>1, <1>3, <1>8 DEF Letters!Meant, Loose
  <2>2. \A x : Letters!Known(x)' <=> Letters!Known(x) BY <1>1 DEF Letters!Known
  <2>3. \A s \in sent : s.holds \in Holding BY <1>2 DEF LetterTypes
  <2> QED BY <1>1, <2>1, <2>2, <2>3 DEF LettersInv, Settled, Letters!SentRight
<1>15. Singles'
  <2>1. ASSUME NEW n \in DOMAIN meant' \ astray PROVE Single(n)'
    <3>1. InQueues(n)' = InQueues(n) /\ InBoxes(n)' = InBoxes(n) /\ InOwn(n)' = InOwn(n)
      BY <1>1 DEF InQueues, InBoxes, InOwn
    <3>2. CASE n \in 1 .. k
      <4>1. meant'[n] = meant[n] /\ Single(n) BY <1>0, <1>2, <1>3, <3>2, <2>1 DEF LettersInv, Settled, Singles, LetterTypes
      <4>2. Waits(n) = FALSE BY <1>1 DEF Waits
      <4> QED BY <1>1, <3>1, <4>1, <4>2 DEF Single, AtMostOne, Letters!Private
    <3>3. CASE n = k + 1
      <4>1. InQueues(n) = {} /\ InBoxes(n) = {} /\ InOwn(n) = {}
        BY <1>9, <3>3 DEF Unplaced, InQueues, InBoxes, InOwn, Letters!Places
      <4> QED BY <3>1, <4>1 DEF Single, AtMostOne
    <3> QED BY <1>2, <1>3, <2>1, <3>2, <3>3
  <2> QED BY <1>1, <2>1 DEF Singles
<1>16. Following'
  BY <1>1, <1>6 DEF LettersInv, Following, Linked, Clean, Excused, AtText, Letters!Passing
<1>17. EditIs'
  BY <1>1, <1>2, <1>3, <1>6 DEF EditIs, AtText, EditFits, Letters!Passing
<1>18. EditRight(edit, m)'
  BY <1>6, <1>1, SameSets
  DEF EditRight, MailRight, PostRight, CommentRight, KeptRight, AddressRight, Answers, Letters!Target
<1>19. InHand'
  <2>1. Ahead' = Letters!InFile \cup {k + 1} BY <1>6 DEF Ahead
  <2>2. ASSUME NEW n \in Loose(Ahead)' PROVE n = k + 1
    BY <1>1, <1>2, <2>1, <2>2 DEF Loose
  <2>3. Unplaced(k + 1)' BY <1>1, <1>9 DEF Unplaced
  <2> QED BY <1>1, <1>2, <1>3, <1>4, <1>6, <1>7, <1>18, <2>2, <2>3 DEF InHand, NoneWaits, OneSaved, Letters!Passing
<1> QED BY <1>10, <1>11, <1>12, <1>13, <1>14, <1>15, <1>16, <1>17, <1>19 DEF LettersInv, Settled

(* The commands.                                                           *)
LEMMA WrittenIs ==
  ASSUME LettersAssumed, world \in Worlds, NEW cmd \in {"mail", "post", "personal", "comment", "reply"},
         NEW at \in Letters!Confs \cup {None}, NEW e, e = Letters!Written(cmd, at)
  PROVE  /\ e \in AnEdit /\ e.state = "prompt" /\ e.cmd = cmd /\ e.at = at /\ e.to = None /\ e.author = Uid
         /\ e.re = None /\ e.asked = None /\ e.addr = None /\ e.reply = None /\ e.mail = None
<1>1. PICK b : b = Letters!Blank OBVIOUS
<1>2. /\ b \in AnEdit /\ b.state = "prompt" /\ b.to = None /\ b.re = None /\ b.asked = None /\ b.addr = None
      /\ b.reply = None /\ b.mail = None
  BY <1>1, BlankIs DEF Letters!Blank
<1>3. e = [b EXCEPT !.cmd = cmd, !.at = at, !.author = Uid] BY <1>1 DEF Letters!Written
<1> QED BY <1>2, <1>3 DEF AnEdit

LEMMA TargetIs ==
  ASSUME NEW way \in {"box", "ftn", "mail", "conf", "group"}, NEW who \in Letters!Places \cup {Person},
         NEW re \in {None} \cup Ref \cup Msgid, NEW m, m = Letters!Target(way, who, re)
  PROVE  m \in ATarget /\ m.way = way /\ m.who = who /\ m.re = re
BY DEF Letters!Target, ATarget

LEMMA MailUserKeeps == ASSUME LettersAssumed, LettersInv, Letters!MailUser PROVE LettersInv'
<1>1. PICK u \in {Uid, Friend} :
        Letters!Begin([Letters!Written("mail", None) EXCEPT !.to = u, !.asked = u], Letters!Target("box", u, None))
  BY DEF Letters!MailUser
<1>2. PICK w, e, m : /\ w = Letters!Written("mail", None) /\ e = [w EXCEPT !.to = u, !.asked = u]
                     /\ m = Letters!Target("box", u, None)
  OBVIOUS
<1>3. world \in Worlds /\ u \in Letters!Places /\ u \notin Letters!Confs /\ u # None
  BY DEF LettersInv, LetterTypes, Letters!Places, LettersAssumed, Markings
<1>4. /\ w \in AnEdit /\ w.state = "prompt" /\ w.cmd = "mail" /\ w.addr = None /\ w.mail = None /\ w.re = None
  BY <1>2, <1>3, WrittenIs
<1>5. /\ e \in AnEdit /\ e.state = "prompt" /\ e.cmd = "mail" /\ e.addr = None /\ e.mail = None /\ e.re = None
      /\ e.to = u
  BY <1>2, <1>3, <1>4 DEF AnEdit
<1>6. m \in ATarget BY <1>2, <1>3, TargetIs
<1>7. EditFits(e) /\ EditRight(e, m)
  BY <1>2, <1>3, <1>5 DEF EditFits, EditRight, MailRight, Personally
<1> QED BY <1>1, <1>2, <1>5, <1>6, <1>7, BeginKeeps

LEMMA MailFtnKeeps == ASSUME LettersAssumed, LettersInv, Letters!MailFtn PROVE LettersInv'
<1>1. PICK a \in {Short, Full} :
        Letters!Begin([Letters!Written("mail", None) EXCEPT !.addr = a], Letters!Target("ftn", Person, None))
  BY DEF Letters!MailFtn, Short, Full, Person
<1>2. PICK w, e, m : /\ w = Letters!Written("mail", None) /\ e = [w EXCEPT !.addr = a]
                     /\ m = Letters!Target("ftn", Person, None)
  OBVIOUS
<1>3. world \in Worlds /\ a \in Address /\ a # None
  BY PersonIs DEF LettersInv, LetterTypes, Address
<1>4. w \in AnEdit /\ w.state = "prompt" /\ w.cmd = "mail" /\ w.to = None /\ w.reply = None /\ w.mail = None
  BY <1>2, <1>3, WrittenIs
<1>5. /\ e \in AnEdit /\ e.state = "prompt" /\ e.cmd = "mail" /\ e.addr = a /\ e.to = None /\ e.reply = None
      /\ e.mail = None
  BY <1>2, <1>3, <1>4 DEF AnEdit
<1>6. m \in ATarget /\ m.way = "ftn" /\ m.who = Person /\ m.re = None BY <1>2, TargetIs
<1>7. None \notin Letters!Confs BY DEF Letters!Places, LettersAssumed, Markings
<1>8. EditFits(e) /\ EditRight(e, m)
  BY <1>3, <1>5, <1>6, <1>7 DEF EditFits, EditRight, MailRight, AddressRight, Personally
<1> QED BY <1>1, <1>2, <1>5, <1>6, <1>8, BeginKeeps

LEMMA MailOutKeeps == ASSUME LettersAssumed, LettersInv, Letters!MailOut PROVE LettersInv'
<1>1. Letters!Begin([Letters!Written("mail", None) EXCEPT !.mail = Person], Letters!Target("mail", Person, None))
  BY DEF Letters!MailOut, Person
<1>2. PICK w, e, m : /\ w = Letters!Written("mail", None) /\ e = [w EXCEPT !.mail = Person]
                     /\ m = Letters!Target("mail", Person, None)
  OBVIOUS
<1>3. world \in Worlds /\ Person # None
  BY PersonIs DEF LettersInv, LetterTypes
<1>4. w \in AnEdit /\ w.state = "prompt" /\ w.cmd = "mail" /\ w.to = None /\ w.addr = None
  BY <1>2, <1>3, WrittenIs
<1>5. e \in AnEdit /\ e.state = "prompt" /\ e.cmd = "mail" /\ e.mail = Person /\ e.to = None /\ e.addr = None
  BY <1>2, <1>3, <1>4 DEF AnEdit
<1>6. m \in ATarget BY <1>2, TargetIs
<1>7. None \notin Letters!Confs BY DEF Letters!Places, LettersAssumed, Markings
<1>8. EditFits(e) /\ EditRight(e, m)
  BY <1>2, <1>3, <1>5, <1>7 DEF EditFits, EditRight, MailRight, Personally
<1> QED BY <1>1, <1>2, <1>5, <1>6, <1>8, BeginKeeps

LEMMA PostKeeps == ASSUME LettersAssumed, LettersInv, Letters!Post PROVE LettersInv'
<1>1. PICK c \in Letters!Confs, at \in Letters!Confs \cup {None}, a \in {None, Uid} :
        /\ c \in Groups <=> a = None
        /\ Letters!Begin(Letters!PostText(a, c, at), Letters!Target(IF c \in Groups THEN "group" ELSE "conf", c, None))
  <2>1. None # Uid BY DEF LettersAssumed, Markings, Letters!Places
  <2> QED BY <2>1 DEF Letters!Post
<1>2. PICK w, e, m : /\ w = Letters!Written("post", at) /\ m = Letters!Target(IF c \in Groups THEN "group" ELSE "conf", c, None)
                     /\ e = [w EXCEPT !.to = c, !.asked = a, !.author = a, !.aborts = TRUE]
  OBVIOUS
<1>3. world \in Worlds /\ c \in Letters!Places /\ None # Uid
  BY DEF LettersInv, LetterTypes, Letters!Places, LettersAssumed, Markings
<1>4. w \in AnEdit /\ w.state = "prompt" /\ w.cmd = "post" /\ w.re = None /\ w.addr = None /\ w.mail = None
  BY <1>2, <1>3, WrittenIs
<1>5. /\ e \in AnEdit /\ e.state = "prompt" /\ e.cmd = "post" /\ e.to = c /\ e.re = None /\ e.addr = None
      /\ e.mail = None /\ e.asked = a /\ e.author = a
  BY <1>2, <1>3, <1>4 DEF AnEdit
<1>6. m \in ATarget BY <1>2, <1>3, TargetIs
<1>7. EditFits(e) /\ EditRight(e, m)
  BY <1>1, <1>2, <1>3, <1>5 DEF EditFits, EditRight, PostRight, Personally
<1> QED BY <1>1, <1>2, <1>5, <1>6, <1>7, BeginKeeps DEF Letters!PostText

(* What a text says of whom to answer.                                     *)
LEMMA FtnAddressRight ==
  ASSUME LettersAssumed, LettersInv, NEW t \in AText, TextOk(t), NEW a, a = Letters!FtnAddress(t), a # None
  PROVE  /\ t.by = Person /\ a \in Address
         /\ ~Letters!IsAddress(a) \/ a = Full \/ (a = Short /\ ~(t.id # None /\ t.id.in = "netmail"))
<1>1. world \in Worlds BY DEF LettersInv, LetterTypes
<1>2. t.by = Person
  <2>1. t.by \in {Uid, Friend, Person} BY DEF AText
  <2>2. CASE t.by \in {Uid, Friend}
    <3>1. t.from = None /\ t.id = None /\ t.paren = None BY <2>2 DEF TextOk
    <3> QED BY <3>1 DEF Letters!FtnAddress
  <2> QED BY <2>1, <2>2
<1>3. CASE t.from # None
  <2>1. a = t.from BY <1>3 DEF Letters!FtnAddress
  <2>2. a \in Address BY <1>3, <2>1 DEF AText
  <2> QED BY <1>2, <1>3, <2>1, <2>2 DEF TextOk
<1>4. CASE t.from = None /\ t.id # None /\ Letters!IsAddress(t.id.origin)
  <2>1. a = t.id.origin BY <1>4 DEF Letters!FtnAddress
  <2>2. PICK o \in {None, Full, Short, Letters!Odd}, k \in {"news", "netmail", "echo"} : t.id = Letters!Id(o, Person, k)
    BY <1>4 DEF AText, Reply, Msgid
  <2>3. a = o BY <2>1, <2>2 DEF Letters!Id
  <2>4. a \in Address BY <2>3 DEF Address
  <2>5. ~(t.id # None /\ t.id.in = "netmail") BY <1>4 DEF TextOk
  <2>6. Letters!IsAddress(a) => a \in {Full, Short} BY <1>1, <2>4, PersonIs
  <2> QED BY <1>2, <2>4, <2>5, <2>6
<1>5. CASE t.from = None /\ ~(t.id # None /\ Letters!IsAddress(t.id.origin))
  <2>1. a = t.paren BY <1>5 DEF Letters!FtnAddress
  <2>2. a = Short BY <2>1 DEF AText
  <2>3. ~(t.id # None /\ t.id.in = "netmail") BY <1>5 DEF TextOk
  <2> QED BY <1>2, <2>2, <2>3 DEF Address
<1> QED BY <1>3, <1>4, <1>5

Asker(e) == /\ e \in AnEdit /\ e.state = "prompt" /\ e.cmd \in {"personal", "reply"}
            /\ e.addr = None /\ e.mail = None /\ e.to = None /\ e.re \in Ref

LEMMA ToUserKeeps ==
  ASSUME LettersAssumed, LettersInv, NEW t \in AText, TextOk(t), NEW w, Asker(w), Letters!ToUser(w, t)
  PROVE  LettersInv'
<1>1. t.author # None /\ t.author = t.by /\ t.author \in {Uid, Friend}
  BY DEF Letters!ToUser, TextOk, AText
<1>2. t.author \in Letters!Places /\ t.author \notin Letters!Confs
  BY <1>1 DEF Letters!Places, LettersAssumed, Markings
<1>3. PICK e, m : /\ e = [w EXCEPT !.to = t.author, !.asked = t.author]
                  /\ m = Letters!Target("box", t.by, w.re)
  OBVIOUS
<1>4. Letters!Begin(e, m)
  BY <1>1, <1>3 DEF Letters!ToUser, Letters!Writer
<1>5. /\ e \in AnEdit /\ e.state = "prompt" /\ e.cmd \in {"personal", "reply"} /\ e.addr = None /\ e.mail = None
      /\ e.to = t.author /\ e.re = w.re
  BY <1>1, <1>2, <1>3 DEF AnEdit, Asker
<1>6. m \in ATarget
  <2>1. t.by \in Letters!Places \cup {Person} /\ w.re \in {None} \cup Ref \cup Msgid BY <1>1, <1>2 DEF Asker
  <2> QED BY <1>3, <2>1, TargetIs
<1>7. EditFits(e) /\ EditRight(e, m)
  BY <1>1, <1>2, <1>3, <1>5 DEF EditFits, EditRight, MailRight, Personally
<1> QED BY <1>4, <1>5, <1>6, <1>7, BeginKeeps

LEMMA ToMailKeeps ==
  ASSUME LettersAssumed, LettersInv, NEW t \in AText, TextOk(t), NEW w, Asker(w), Letters!ToMail(w, t)
  PROVE  LettersInv'
<1>1. t.author = None /\ t.mail \notin {None, Bad} /\ t.mail = t.by /\ t.mail = Person
  BY DEF Letters!ToMail, TextOk, AText
<1>2. Person \notin {None, Uid, Friend} BY PersonIs DEF LettersInv, LetterTypes
<1>3. PICK e, m : e = [w EXCEPT !.mail = t.mail] /\ m = Letters!Target("mail", t.by, None)
  OBVIOUS
<1>4. Letters!Begin(e, m)
  BY <1>1, <1>2, <1>3 DEF Letters!ToMail, Letters!Writer
<1>5. /\ e \in AnEdit /\ e.state = "prompt" /\ e.cmd \in {"personal", "reply"} /\ e.addr = None
      /\ e.mail = Person /\ e.to = None
  BY <1>1, <1>3 DEF AnEdit, Asker
<1>6. m \in ATarget
  <2>1. m = Letters!Target("mail", Person, None) BY <1>1, <1>3
  <2> QED BY <2>1, TargetIs
<1>7. None \notin Letters!Confs BY DEF Letters!Places, LettersAssumed, Markings
<1>8. EditFits(e) /\ EditRight(e, m)
  BY <1>1, <1>2, <1>3, <1>5, <1>7 DEF EditFits, EditRight, MailRight, Personally
<1> QED BY <1>4, <1>5, <1>6, <1>8, BeginKeeps

LEMMA ToFtnKeeps ==
  ASSUME LettersAssumed, LettersInv, NEW t \in AText, NEW w, Asker(w), NEW a \in Address, Letters!ToFtn(w, t, a),
         t.by = Person,
         ~Letters!IsAddress(a) \/ a = Full \/ (a = Short /\ ~(t.id # None /\ t.id.in = "netmail"))
  PROVE  LettersInv'
<1>1. Person \notin {None, Uid, Friend} /\ a # None BY PersonIs DEF LettersInv, LetterTypes
<1>2. PICK e, m : e = [w EXCEPT !.addr = a, !.reply = t.id] /\ m = Letters!Target("ftn", t.by, t.id)
  OBVIOUS
<1>3. Letters!Begin(e, m)
  BY <1>1, <1>2 DEF Letters!ToFtn, Letters!Writer
<1>4. t.id \in Reply BY DEF AText
<1>5. /\ e \in AnEdit /\ e.state = "prompt" /\ e.cmd \in {"personal", "reply"} /\ e.addr = a /\ e.reply = t.id
      /\ e.to = None /\ e.mail = None
  BY <1>2, <1>4 DEF AnEdit, Asker
<1>6. m \in ATarget /\ m.way = "ftn" /\ m.who = Person /\ m.re = t.id
  BY <1>2, <1>4, TargetIs DEF Reply
<1>7. None \notin Letters!Confs BY DEF Letters!Places, LettersAssumed, Markings
<1>8. EditFits(e) /\ EditRight(e, m)
  BY <1>1, <1>5, <1>6, <1>7 DEF EditFits, EditRight, MailRight, AddressRight, Personally
<1> QED BY <1>3, <1>5, <1>6, <1>8, BeginKeeps

LEMMA AnswerIs ==
  ASSUME LettersAssumed, LettersInv, NEW cmd \in {"personal", "reply"}, NEW at \in Letters!Confs \cup {None}, NEW n \in Nat
  PROVE  Asker(Letters!Answer(cmd, at, n)) /\ Letters!Answer(cmd, at, n).at = at
<1>1. PICK w, e : w = Letters!Written(cmd, at) /\ e = [w EXCEPT !.re = [num |-> n, conf |-> at]]
  OBVIOUS
<1>2. [num |-> n, conf |-> at] \in Ref BY DEF Ref, Letters!Places
<1>3. /\ w \in AnEdit /\ w.state = "prompt" /\ w.cmd = cmd /\ w.at = at /\ w.to = None /\ w.addr = None /\ w.mail = None
  BY <1>1, WrittenIs DEF LettersInv, LetterTypes
<1>4. Asker(e) /\ e.at = at
  BY <1>1, <1>2, <1>3 DEF AnEdit, Asker
<1> QED BY <1>1, <1>4 DEF Letters!Answer

LEMMA TextThere ==
  ASSUME LettersInv, NEW c \in Letters!Places, NEW n \in DOMAIN box[c]
  PROVE  box[c][n] \in AText /\ TextOk(box[c][n]) /\ n \in Nat
<1>1. box[c] \in Seq(AText) BY DEF LettersInv, LetterTypes
<1> QED BY <1>1 DEF LettersInv, TextsOk

LEMMA PersonalKeeps == ASSUME LettersAssumed, LettersInv, Letters!Personal PROVE LettersInv'
<1>1. PICK c, n : c \in Letters!Confs /\ n \in DOMAIN box[c] /\
        Letters!PersonalTo(Letters!Answer("personal", c, n), box[c][n],
                           IF c \in Ftn THEN Letters!FtnAddress(box[c][n]) ELSE None)
  BY DEF Letters!Personal
<1>2. PICK t, w : t = box[c][n] /\ w = Letters!Answer("personal", c, n) OBVIOUS
<1>3. t \in AText /\ TextOk(t) /\ Asker(w)
  <2>1. c \in Letters!Places /\ c \in Letters!Confs BY <1>1 DEF Letters!Places
  <2>2. t \in AText /\ TextOk(t) /\ n \in Nat BY <1>1, <1>2, <2>1, TextThere
  <2> QED BY <1>2, <2>1, <2>2, AnswerIs
<1>4. \/ Letters!FtnAddress(t) # None /\ Letters!ToFtn(w, t, Letters!FtnAddress(t))
      \/ Letters!ToUser(w, t) \/ Letters!ToMail(w, t)
  BY <1>1, <1>2 DEF Letters!PersonalTo
<1> QED BY <1>3, <1>4, FtnAddressRight, ToFtnKeeps, ToUserKeeps, ToMailKeeps

LEMMA ReplyKeeps == ASSUME LettersAssumed, LettersInv, Letters!Reply PROVE LettersInv'
<1>1. PICK n \in DOMAIN box[Uid] : Letters!ReplyTo(Letters!Answer("reply", None, n), box[Uid][n])
  BY DEF Letters!Reply
<1>2. PICK t, w : t = box[Uid][n] /\ w = Letters!Answer("reply", None, n) OBVIOUS
<1>3. t \in AText /\ TextOk(t) /\ Asker(w)
  BY <1>2, TextThere, AnswerIs DEF Letters!Places
<1>4. CASE t.from # None /\ Letters!ToFtn(w, t, t.from)
  <2>1. t.from = Letters!FtnAddress(t) BY <1>4 DEF Letters!FtnAddress
  <2> QED BY <1>3, <1>4, <2>1, FtnAddressRight, ToFtnKeeps
<1> QED BY <1>1, <1>2, <1>3, <1>4, ToUserKeeps, ToMailKeeps DEF Letters!ReplyTo

LEMMA CommentKeeps == ASSUME LettersAssumed, LettersInv, Letters!Comment PROVE LettersInv'
<1>1. PICK c, n : c \in Letters!Confs /\ n \in DOMAIN box[c] /\
        Letters!CommentTo(box[c][n], c, n, IF world.comconf[c] # None THEN world.comconf[c] ELSE c)
  BY DEF Letters!Comment
<1>2. PICK t, to : t = box[c][n] /\ to = IF world.comconf[c] # None THEN world.comconf[c] ELSE c OBVIOUS
<1>3. t \in AText /\ n \in Nat /\ world \in Worlds /\ c \in Letters!Confs
  <2>1. c \in Letters!Places BY <1>1 DEF Letters!Places
  <2>2. world \in Worlds BY DEF LettersInv, LetterTypes
  <2> QED BY <1>1, <1>2, <2>1, <2>2, TextThere
<1>4. to \in Letters!Confs /\ to \in Letters!Places
  BY <1>2, <1>3, PersonIs DEF SystemOk, Letters!Places
<1>5. PICK w, e, m, re, r :
        /\ w = Letters!Written("comment", c) /\ re = [num |-> n, conf |-> IF to # c THEN c ELSE None]
        /\ r = Letters!Reference(t)
        /\ e = [w EXCEPT !.to = to, !.re = re, !.asked = t.author, !.num = n, !.aborts = TRUE, !.reply = r]
        /\ m = IF to \in Groups THEN Letters!Target("group", to, r)
               ELSE Letters!Target("conf", to, [num |-> n, conf |-> c])
  OBVIOUS
<1>6. Letters!Begin(e, m) BY <1>1, <1>2, <1>5 DEF Letters!CommentTo
<1>7. re \in Ref /\ r \in Reply /\ [num |-> n, conf |-> c] \in Ref /\ t.author \in {None, Uid, Friend}
  BY <1>3, <1>5 DEF Ref, Reply, Letters!Reference, AText, Letters!Places
<1>8. /\ w \in AnEdit /\ w.state = "prompt" /\ w.cmd = "comment" /\ w.at = c /\ w.author = Uid
      /\ w.addr = None /\ w.mail = None
  BY <1>3, <1>5, WrittenIs
<1>9. /\ e \in AnEdit /\ e.state = "prompt" /\ e.cmd = "comment" /\ e.at = c /\ e.author = Uid /\ e.to = to
      /\ e.addr = None /\ e.mail = None /\ e.re = re /\ e.num = n /\ e.reply = r
  <2>1. e = [w EXCEPT !.to = to, !.re = re, !.asked = t.author, !.num = n, !.aborts = TRUE, !.reply = r]
    BY <1>5
  <2>2. to \in Letters!Places \cup {None} /\ re \in {None} \cup Ref /\ n \in Nat BY <1>3, <1>4, <1>7
  <2> QED BY <1>7, <1>8, <2>1, <2>2 DEF AnEdit
<1>10. m \in ATarget BY <1>4, <1>5, <1>7, TargetIs DEF Reply
<1>11. EditFits(e) /\ EditRight(e, m)
  <2>1. c \in Letters!Confs /\ n \in DOMAIN box[c] BY <1>1
  <2>2. re = [num |-> n, conf |-> IF to = c THEN None ELSE c] BY <1>5
  <2>3. EditFits(e) BY <1>4, <1>9, <2>1, <2>2 DEF EditFits, Personally
  <2>4. CommentRight(e, m) BY <1>5, <1>9 DEF CommentRight
  <2> QED BY <1>9, <2>3, <2>4 DEF EditRight, Personally
<1> QED BY <1>6, <1>9, <1>10, <1>11, BeginKeeps

(* A comment is sent elsewhere.                                            *)
LEMMA MoveKeeps == ASSUME LettersAssumed, LettersInv, Letters!Move PROVE LettersInv'
<1>0. PICK k : k = Len(meant) OBVIOUS
<1>1. PICK c, m, re :
        /\ c \in Letters!Confs
        /\ edit.state = "edit" /\ edit.cmd = "comment" /\ c # edit.to
        /\ re = [edit.re EXCEPT !.conf = IF c = edit.at THEN None ELSE edit.at]
        /\ edit' = [edit EXCEPT !.to = c, !.re.conf = IF c = edit.at THEN None ELSE edit.at]
        /\ m = IF c \in Groups THEN Letters!Target("group", c, edit.reply)
               ELSE Letters!Target("conf", c, [num |-> edit.num, conf |-> edit.at])
        /\ meant' = [meant EXCEPT ![k] = m]
        /\ UNCHANGED << world, box, jobs, echo, sent, draft, dead, hup, hangups, astray, cut >>
  <2>1. PICK c \in Letters!Confs :
          /\ edit.state = "edit" /\ edit.cmd = "comment" /\ c # edit.to
          /\ edit' = [edit EXCEPT !.to = c, !.re.conf = IF c = edit.at THEN None ELSE edit.at]
          /\ meant' = [meant EXCEPT ![Len(meant)] =
                         IF c \in Groups THEN Letters!Target("group", c, edit.reply)
                         ELSE Letters!Target("conf", c, [num |-> edit.num, conf |-> edit.at])]
          /\ UNCHANGED << world, box, jobs, echo, sent, draft, dead, hup, hangups, astray, cut >>
    BY DEF Letters!Move
  <2> QED BY <1>0, <2>1
<1>2. /\ LetterTypes /\ EditFits(edit) /\ edit \in AnEdit /\ dead = None /\ Loose(Letters!InFile) = {}
      /\ edit.holds \in Holding /\ k \in edit.holds \ {0} /\ k \in Nat
  BY <1>0, <1>1 DEF LettersInv, LetterTypes, EditIs, InHand, NoneWaits
<1>3. k \in 1 .. k /\ c \in Letters!Places /\ edit.at \in Letters!Confs /\ edit.at \in Letters!Places
  BY <1>1, <1>2 DEF EditFits, Letters!Places
<1>4. re = [num |-> edit.num, conf |-> IF c = edit.at THEN None ELSE edit.at] /\ re \in Ref
  <2>1. edit.re = [num |-> edit.num, conf |-> IF edit.to = edit.at THEN None ELSE edit.at]
    BY <1>1, <1>2 DEF EditFits
  <2>2. re = [num |-> edit.num, conf |-> IF c = edit.at THEN None ELSE edit.at] BY <1>1, <2>1
  <2>3. edit.num \in Nat BY <1>2 DEF AnEdit
  <2> QED BY <1>3, <2>2, <2>3 DEF Ref
<1>5. m \in ATarget
  <2>1. edit.reply \in Reply /\ edit.num \in Nat BY <1>2 DEF AnEdit
  <2>2. edit.reply \in {None} \cup Ref \cup Msgid /\ [num |-> edit.num, conf |-> edit.at] \in {None} \cup Ref \cup Msgid
    BY <1>3, <2>1 DEF Ref, Reply
  <2> QED BY <1>1, <1>3, <2>2, TargetIs
<1>6. /\ edit' \in AnEdit /\ edit'.state = "edit" /\ edit'.cmd = "comment" /\ edit'.at = edit.at /\ edit'.to = c
      /\ edit'.re = re /\ edit'.addr = edit.addr /\ edit'.mail = edit.mail /\ edit'.author = edit.author
      /\ edit'.num = edit.num /\ edit'.holds = edit.holds /\ edit'.reply = edit.reply
  <2>1. c \in Letters!Places \cup {None} /\ re \in {None} \cup Ref BY <1>3, <1>4
  <2>2. edit' = [edit EXCEPT !.to = c, !.re = re] BY <1>1, <1>2 DEF AnEdit
  <2> QED BY <1>2, <1>1, <2>1, <2>2 DEF AnEdit
<1>7. /\ meant' \in Seq(ATarget) /\ Len(meant') = k /\ meant'[k] = m /\ DOMAIN meant' = DOMAIN meant
      /\ \A n : n # k => meant'[n] = meant[n]
  BY <1>0, <1>1, <1>2, <1>3, <1>5 DEF LetterTypes
<1>8. Holding' = Holding BY <1>0, <1>7 DEF Holding
<1>9. k \notin astray => Unplaced(k)
  <2>1. k \notin astray => k \in Loose(Ahead) BY <1>1, <1>2 DEF Ahead, Loose
  <2> QED BY <2>1 DEF LettersInv, InHand
<1>10. LetterTypes'
  BY <1>1, <1>2, <1>6, <1>7, <1>8, SameSets DEF LetterTypes
<1>11. TextsOk'
  <2>1. ASSUME NEW c1 \in Letters!Places, NEW i \in DOMAIN box[c1] PROVE TextOk(box[c1][i])'
    <3>1. TextOk(box[c1][i]) BY DEF LettersInv, TextsOk
    <3> QED BY <1>1, <1>8, <3>1, SameSets DEF TextOk, Letters!IsAddress
  <2> QED BY <1>1, <2>1 DEF TextsOk
<1>12. Delivered'
  <2>1. ASSUME NEW d \in Letters!Places, NEW i \in DOMAIN box[d], NEW n \in Loose(box[d][i].holds)
        PROVE  Letters!TextArrives(box[d][i], d, meant[n])'
    <3>1. n # k BY <1>9 DEF Unplaced, Loose
    <3>2. meant'[n] = meant[n] BY <1>7, <3>1
    <3>3. Letters!TextArrives(box[d][i], d, meant[n]) BY DEF LettersInv, Settled, Delivered
    <3> QED BY <1>1, <3>2, <3>3 DEF Letters!TextArrives, Letters!Parent, Letters!Misplaced
  <2> QED BY <1>1, <2>1 DEF Delivered, Loose
<1>13. Queued'
  <2>1. ASSUME NEW j \in jobs, NEW n \in Loose(j.holds)
        PROVE  AddressRight(j.addr, meant[n])' /\ meant'[n].re = j.reply
    <3>1. n # k BY <1>9 DEF Unplaced, Loose
    <3>2. AddressRight(j.addr, meant[n]) /\ meant[n].re = j.reply BY DEF LettersInv, Settled, Queued
    <3> QED BY <1>1, <1>7, <3>1, <3>2, SameSets DEF AddressRight, Letters!IsAddress
  <2> QED BY <1>1, <2>1 DEF Queued, Loose
<1>14. Letters!SentRight'
  <2>1. ASSUME NEW s \in sent PROVE Letters!Meant(s.holds)' \subseteq Letters!Meant(s.holds)
    <3>1. k \notin s.holds \ astray BY <1>9 DEF Unplaced
    <3> QED BY <1>1, <1>7, <3>1 DEF Letters!Meant
  <2>2. \A x : Letters!Known(x)' <=> Letters!Known(x) BY <1>1 DEF Letters!Known
  <2> QED BY <1>1, <2>1, <2>2 DEF LettersInv, Settled, Letters!SentRight
<1>15. Singles'
  <2>1. ASSUME NEW n \in DOMAIN meant' \ astray PROVE Single(n)'
    <3>1. InQueues(n)' = InQueues(n) /\ InBoxes(n)' = InBoxes(n) /\ InOwn(n)' = InOwn(n)
      BY <1>1 DEF InQueues, InBoxes, InOwn
    <3>2. CASE n # k
      <4>1. meant'[n] = meant[n] /\ Single(n) BY <1>7, <3>2, <2>1 DEF LettersInv, Settled, Singles
      <4>2. Waits(n) = FALSE BY <1>1 DEF Waits
      <4> QED BY <1>1, <3>1, <4>1, <4>2 DEF Single, AtMostOne, Letters!Private
    <3>3. CASE n = k
      <4>1. InQueues(n) = {} /\ InBoxes(n) = {} /\ InOwn(n) = {}
        BY <1>9, <2>1, <3>3 DEF Unplaced, InQueues, InBoxes, InOwn, Letters!Places
      <4> QED BY <3>1, <4>1 DEF Single, AtMostOne
    <3> QED BY <3>2, <3>3
  <2> QED BY <1>1, <2>1 DEF Singles
<1>16. Following'
  BY <1>1, <1>6 DEF LettersInv, Following, Linked, Clean, Excused, AtText, Letters!Passing
<1>17. EditIs'
  <2>1. EditFits(edit)'
    BY <1>1, <1>2, <1>3, <1>4, <1>6 DEF EditFits, Personally
  <2> QED BY <1>0, <1>2, <1>6, <1>7, <2>1 DEF EditIs, AtText, Letters!Passing
<1>18. k \notin astray => EditRight(edit, m)'
  <2>1. k \notin astray => k \in Loose(Ahead) BY <1>1, <1>2 DEF Ahead, Loose
  <2>2. k \notin astray => CommentRight(edit, meant[k]) BY <1>1, <2>1 DEF LettersInv, InHand, EditRight
  <2>3. k \notin astray => edit'.author = Uid BY <1>1, <1>6, <2>2 DEF CommentRight
  <2> QED BY <1>1, <1>6, <2>3 DEF EditRight, CommentRight, Personally, Letters!Target
<1>19. InHand'
  <2>1. Ahead' = edit.holds /\ Ahead = edit.holds BY <1>1, <1>6 DEF Ahead
  <2>2. ASSUME NEW n \in Loose(Ahead)' PROVE n = k /\ k \notin astray
    <3>1. n \in Loose(Ahead) BY <1>1, <2>1 DEF Loose
    <3> QED BY <1>0, <3>1 DEF LettersInv, InHand, Loose
  <2>3. k \notin astray => Unplaced(k)' BY <1>1, <1>9 DEF Unplaced
  <2>4. Loose(Letters!InFile)' = {} BY <1>1, <1>2 DEF Loose, Letters!InFile
  <2> QED BY <1>1, <1>2, <1>6, <1>7, <1>18, <2>2, <2>3, <2>4 DEF InHand, NoneWaits, OneSaved, Letters!Passing
<1> QED BY <1>10, <1>11, <1>12, <1>13, <1>14, <1>15, <1>16, <1>17, <1>19 DEF LettersInv, Settled

-----------------------------------------------------------------------------
(* ftntoss.                                                                *)
LEMMA ExportedIs ==
  ASSUME NEW j, NEW i
  PROVE  /\ Letters!Exported(j, i).holds = j.holds /\ "way" \in DOMAIN Letters!Exported(j, i)
         /\ Letters!Exported(j, i) \notin AJob
<1>1. PICK w, a : Letters!Exported(j, i) = Letters!Sent(w, a, j.reply, j.holds)
  BY DEF Letters!Exported
<1>2. DOMAIN Letters!Exported(j, i) = {"way", "who", "reply", "holds"} BY <1>1 DEF Letters!Sent
<1>3. \A x \in AJob : "way" \notin DOMAIN x BY DEF AJob
<1> QED BY <1>1, <1>2, <1>3 DEF Letters!Sent

LEMMA SentRightIs == Letters!SentRight <=> \A s \in sent : \A n \in Loose(s.holds) : TookRight(s, meant[n])
BY DEF Letters!SentRight, TookRight, Letters!Meant, Loose

LEMMA KindSame == ASSUME edit' = edit PROVE Letters!Kind' = Letters!Kind
BY DEF Letters!Kind

LEMMA JobKeeps == ASSUME LettersAssumed, LettersInv, Letters!Toss PROVE LettersInv'
<1>1. PICK j, s : /\ j \in jobs /\ s = Letters!Exported(j, Letters!AreaOf(j.addr))
                  /\ jobs' = jobs \ {j} /\ sent' = sent \cup {s}
                  /\ UNCHANGED << world, box, echo, edit, draft, dead, hup, hangups, meant, astray, cut >>
  BY DEF Letters!Toss
<1>2. LetterTypes /\ j \in AJob BY <1>1 DEF LettersInv, LetterTypes
<1>3. s.holds = j.holds /\ "way" \in DOMAIN s BY <1>1, ExportedIs
<1>4. j \notin sent
  <2>1. "way" \notin DOMAIN j BY <1>2 DEF AJob
  <2> QED BY <1>2, <2>1 DEF LetterTypes
<1>5. LetterTypes'
  <2>1. Holding' = Holding BY <1>1 DEF Holding
  <2> QED BY <1>1, <1>2, <1>3, <2>1, SameSets DEF LetterTypes
<1>6. TextsOk'
  BY <1>1, SameSets DEF LettersInv, TextsOk, TextOk, Holding, Letters!IsAddress
<1>7. Delivered'
  BY <1>1 DEF LettersInv, Settled, Delivered, Loose, Letters!TextArrives, Letters!Parent, Letters!Misplaced
<1>8. Queued'
  BY <1>1, SameSets DEF LettersInv, Settled, Queued, Loose, AddressRight, Letters!IsAddress
<1>9. Letters!SentRight'
  <2>1. ASSUME NEW n \in Loose(j.holds) PROVE TookRight(s, meant[n])
    <3>1. AddressRight(j.addr, meant[n]) /\ meant[n].re = j.reply
      BY <1>1 DEF LettersInv, Settled, Queued
    <3> QED BY <1>1, <1>2, <3>1, TossRight DEF LetterTypes
  <2>2. \A x \in sent : \A n \in Loose(x.holds) : TookRight(x, meant[n])
    BY SentRightIs DEF LettersInv, Settled
  <2>3. \A x \in sent' : \A n \in Loose(x.holds) : TookRight(x, meant[n])
    BY <1>1, <1>3, <2>1, <2>2
  <2>4. \A x \in sent' : \A n \in Loose(x.holds)' : TookRight(x, meant[n])'
    BY <1>1, <2>3 DEF Loose, TookRight, Letters!Known
  <2> QED BY <2>4 DEF Letters!SentRight, TookRight, Letters!Meant, Loose
<1>10. Singles'
  <2>1. ASSUME NEW n \in DOMAIN meant \ astray PROVE Single(n)'
    <3>1. InBoxes(n)' = InBoxes(n) /\ InOwn(n)' = InOwn(n) BY <1>1 DEF InBoxes, InOwn
    <3>2. Single(n) BY DEF LettersInv, Settled, Singles
    <3>3. CASE n \notin j.holds
      <4>1. InQueues(n)' = InQueues(n) BY <1>1, <1>3, <3>3 DEF InQueues
      <4> QED BY <1>1, <3>1, <3>2, <4>1 DEF Single, AtMostOne, Letters!Private, Waits
    <3>4. CASE n \in j.holds
      <4>1. j \in InQueues(n) BY <1>1, <3>4 DEF InQueues
      <4>2. InQueues(n) = {j} BY <3>2, <4>1 DEF Single, AtMostOne
      <4>3. InQueues(n)' = {s}
        <5>1. \A x \in (jobs \cup sent) \ {j} : n \notin x.holds BY <4>2 DEF InQueues
        <5>2. j \notin jobs' \cup sent' \/ j = s BY <1>1, <1>4
        <5> QED BY <1>1, <1>3, <3>4, <5>1, <5>2 DEF InQueues
      <4> QED BY <1>1, <3>1, <3>2, <4>2, <4>3 DEF Single, AtMostOne, Letters!Private, Waits
    <3> QED BY <3>3, <3>4
  <2> QED BY <1>1, <2>1 DEF Singles
<1>11. Following'
  <2>1. UNCHANGED << box, echo, edit, astray, cut >> BY <1>1
  <2> QED BY <2>1, KindSame DEF LettersInv, Following, Linked, Clean, Excused, AtText
<1>12. EditIs'
  <2>1. CopyDue => CopyDue'
    <3>1. ASSUME NEW n, InQueues(n) # {} PROVE InQueues(n)' # {}
      <4>1. PICK x \in jobs \cup sent : n \in x.holds BY <3>1 DEF InQueues
      <4>2. CASE x = j
        <5>1. s \in InQueues(n)' BY <1>1, <1>3, <4>1, <4>2 DEF InQueues
        <5> QED BY <5>1
      <4>3. CASE x # j
        <5>1. x \in InQueues(n)' BY <1>1, <4>1, <4>3 DEF InQueues
        <5> QED BY <5>1
      <4> QED BY <4>2, <4>3
    <3>2. \A n : InBoxes(n)' = InBoxes(n) /\ InOwn(n)' = InOwn(n) BY <1>1 DEF InBoxes, InOwn
    <3> QED BY <1>1, <3>1, <3>2 DEF CopyDue, Loose, Letters!Private
  <2>2. UNCHANGED << box, edit, draft, meant, astray, cut >> BY <1>1
  <2> QED BY <2>1, <2>2, KindSame DEF LettersInv, EditIs, EditFits, Excused, AtText, TextIn
<1>13. InHand'
  <2>1. ASSUME NEW n, Unplaced(n) PROVE Unplaced(n)'
    BY <1>1, <1>3, <2>1 DEF Unplaced
  <2>2. \A n : EditRight(edit, meant[n])' <=> EditRight(edit, meant[n])
    BY <1>1, SameSets
    DEF EditRight, MailRight, PostRight, CommentRight, KeptRight, AddressRight, Answers, Letters!Target
  <2>3. \A n : KeptRight(meant[n], dead.conf, dead.re)' <=> KeptRight(meant[n], dead.conf, dead.re)
    BY <1>1 DEF KeptRight, Answers, Letters!Target
  <2>4. Ahead' = Ahead /\ Letters!InFile' = Letters!InFile /\ NoneWaits' = NoneWaits /\ OneSaved' = OneSaved
    BY <1>1 DEF Ahead, Letters!InFile, NoneWaits, OneSaved
  <2>5. Loose(Ahead)' = Loose(Ahead) /\ Loose(Letters!InFile)' = Loose(Letters!InFile) /\ Excused' = Excused
    BY <1>1, <2>4 DEF Loose, Excused
  <2>6. InHand BY DEF LettersInv
  <2> QED BY <1>1, <2>1, <2>2, <2>3, <2>4, <2>5, <2>6 DEF InHand
<1> QED BY <1>5, <1>6, <1>7, <1>8, <1>9, <1>10, <1>11, <1>12, <1>13 DEF LettersInv, Settled

-----------------------------------------------------------------------------
(* A letter on its way is what it was.                                     *)
SameLetter ==
  /\ edit'.cmd = edit.cmd /\ edit'.at = edit.at /\ edit'.to = edit.to /\ edit'.re = edit.re
  /\ edit'.asked = edit.asked /\ edit'.author = edit.author /\ edit'.addr = edit.addr
  /\ edit'.mail = edit.mail /\ edit'.holds = edit.holds /\ edit'.num = edit.num

LEMMA PassIs ==
  ASSUME edit \in AnEdit, NEW next \in {"given", "copied", "stored"}, NEW k \in Nat,
         edit' = [edit EXCEPT !.state = next, !.new = k]
  PROVE  /\ edit' \in AnEdit /\ edit'.state = next /\ edit'.new = k /\ SameLetter
         /\ Letters!Kind' = Letters!Kind
<1>1. edit' \in AnEdit /\ edit'.state = next /\ edit'.new = k /\ SameLetter BY DEF AnEdit, SameLetter
<1> QED BY <1>1 DEF SameLetter, Letters!Kind

LEMMA MovesOn ==
  ASSUME edit \in AnEdit, NEW next \in {"given", "copied", "stored"}, edit' = [edit EXCEPT !.state = next]
  PROVE  /\ edit' \in AnEdit /\ edit'.state = next /\ edit'.new = edit.new /\ SameLetter
         /\ Letters!Kind' = Letters!Kind
<1>1. edit' = [edit EXCEPT !.state = next, !.new = edit.new] /\ edit.new \in Nat BY DEF AnEdit
<1> QED BY <1>1, PassIs

LEMMA FitsThen ==
  ASSUME EditFits(edit), SameLetter, \A c \in Letters!Places : DOMAIN box[c] \subseteq DOMAIN box'[c]
  PROVE  EditFits(edit)'
BY DEF EditFits, SameLetter, Personally, Letters!Places

LEMMA PassingHand ==
  ASSUME LettersInv, edit.state = "saved" \/ edit.state \in Letters!Passing, edit'.state \in Letters!Passing,
         SameLetter, UNCHANGED << draft, dead >>
  PROVE  InHand'
<1>1. edit.holds = Letters!InFile /\ dead = None
  BY DEF LettersInv, InHand, OneSaved, Letters!Passing
<1>2. Letters!InFile' = Letters!InFile /\ edit'.holds = edit.holds BY DEF Letters!InFile, SameLetter
<1>3. Ahead' = {} BY DEF Ahead, Letters!Passing
<1>4. Loose(Ahead)' = {} BY <1>3 DEF Loose
<1> QED BY <1>1, <1>2, <1>4 DEF InHand, NoneWaits, OneSaved, Letters!Passing

LEMMA PassingEdit ==
  ASSUME LettersInv, edit.state = "saved" \/ edit.state \in Letters!Passing, edit'.state \in Letters!Passing,
         SameLetter, EditFits(edit)', cut \subseteq cut', astray \subseteq astray',
         AtText' => TextIn', edit'.state = "given" => CopyDue'
  PROVE  EditIs'
<1>1. edit.cmd = "resume" => edit.holds \subseteq Excused BY DEF LettersInv, EditIs, Letters!Passing
<1>2. edit'.cmd = "resume" => edit'.holds \subseteq Excused' BY <1>1 DEF Excused, SameLetter
<1> QED BY <1>2 DEF EditIs, Letters!Passing

(* The places of P get a text with it.                                     *)
Grows(P, T) ==
  /\ UNCHANGED << world, echo, meant, astray, cut >>
  /\ box' \in [Letters!Places -> Seq(AText)] /\ P \subseteq Letters!Places
  /\ \A c \in Letters!Places : box'[c] = IF c \in P THEN Append(box[c], T[c]) ELSE box[c]
  /\ \A c \in P : T[c] \in AText /\ TextOk(T[c]) /\ T[c].holds = edit.holds
  /\ \A n \in Loose(edit.holds) : \A c \in P : Letters!TextArrives(T[c], c, meant[n])
  /\ AtText => AtText' /\ edit'.to = edit.to /\ edit'.new = edit.new
  /\ \A c \in P \cap Letters!Confs : AtText' /\ edit'.to = c /\ edit'.new = Len(box[c]) + 1

LEMMA GrownIs ==
  ASSUME LettersInv, NEW P, NEW T, Grows(P, T), NEW c \in Letters!Places
  PROVE  /\ box[c] \in Seq(AText) /\ Len(box[c]) \in Nat /\ DOMAIN box[c] = 1 .. Len(box[c])
         /\ \A i \in DOMAIN box[c] : i \in DOMAIN box'[c] /\ box'[c][i] = box[c][i]
         /\ DOMAIN box'[c] = IF c \in P THEN DOMAIN box[c] \cup {Len(box[c]) + 1} ELSE DOMAIN box[c]
         /\ c \in P => box'[c][Len(box[c]) + 1] = T[c]
<1>1. box[c] \in Seq(AText) BY DEF LettersInv, LetterTypes
<1>2. CASE c \notin P BY <1>1, <1>2 DEF Grows
<1>3. CASE c \in P
  <2>1. box'[c] = Append(box[c], T[c]) /\ T[c] \in AText BY <1>3 DEF Grows
  <2>2. Len(box[c]) \in Nat /\ DOMAIN box[c] = 1 .. Len(box[c]) BY <1>1
  <2>3. /\ Len(box'[c]) = Len(box[c]) + 1 /\ box'[c] \in Seq(AText)
        /\ \A i \in 1 .. Len(box[c]) : box'[c][i] = box[c][i]
        /\ box'[c][Len(box[c]) + 1] = T[c]
    BY <1>1, <2>1, AppendProperties
  <2>4. DOMAIN box'[c] = 1 .. Len(box[c]) + 1 BY <2>3
  <2> QED BY <1>1, <1>3, <2>2, <2>3, <2>4
<1> QED BY <1>2, <1>3

LEMMA GrowsRight ==
  ASSUME LettersAssumed, LettersInv, NEW P, NEW T, Grows(P, T)
  PROVE  TextsOk' /\ Delivered' /\ Following'
<1>1. /\ UNCHANGED << world, echo, meant, astray, cut >>
      /\ \A c \in P : TextOk(T[c]) /\ T[c].holds = edit.holds
  BY DEF Grows
<1>2. Holding' = Holding BY <1>1 DEF Holding
<1>3. \A t : TextOk(t)' <=> TextOk(t) BY <1>1, <1>2, SameSets DEF TextOk, Letters!IsAddress
<1>4. \A t, c, m : Letters!TextArrives(t, c, m)' <=> Letters!TextArrives(t, c, m)
  BY <1>1 DEF Letters!TextArrives, Letters!Parent, Letters!Misplaced
<1>5. ASSUME NEW c \in Letters!Places, NEW i \in DOMAIN box'[c]
      PROVE  (i \in DOMAIN box[c] /\ box'[c][i] = box[c][i]) \/ (c \in P /\ i = Len(box[c]) + 1 /\ box'[c][i] = T[c])
  <2>1. /\ \A k \in DOMAIN box[c] : box'[c][k] = box[c][k]
        /\ DOMAIN box'[c] = IF c \in P THEN DOMAIN box[c] \cup {Len(box[c]) + 1} ELSE DOMAIN box[c]
        /\ c \in P => box'[c][Len(box[c]) + 1] = T[c]
    BY GrownIs
  <2> QED BY <2>1
<1>6. TextsOk'
  <2>1. ASSUME NEW c \in Letters!Places, NEW i \in DOMAIN box'[c] PROVE TextOk(box'[c][i])
    BY <1>1, <1>5 DEF LettersInv, TextsOk
  <2> QED BY <1>3, <2>1 DEF TextsOk
<1>7. Delivered'
  <2>1. ASSUME NEW c \in Letters!Places, NEW i \in DOMAIN box'[c], NEW n \in Loose(box'[c][i].holds)
        PROVE  Letters!TextArrives(box'[c][i], c, meant[n])
    <3>1. CASE i \in DOMAIN box[c] /\ box'[c][i] = box[c][i]
      BY <3>1 DEF LettersInv, Settled, Delivered
    <3>2. CASE c \in P /\ box'[c][i] = T[c]
      <4>1. n \in Loose(edit.holds) BY <1>1, <3>2
      <4> QED BY <3>2, <4>1 DEF Grows
    <3> QED BY <1>5, <3>1, <3>2
  <2> QED BY <1>1, <1>4, <2>1 DEF Delivered, Loose
<1>8. Following'
  <2>1. ASSUME NEW c \in Letters!Confs, NEW i \in DOMAIN box'[c]
        PROVE  \/ AtText' /\ c = edit'.to /\ i = edit'.new
               \/ Linked(box[c][i], c, i)'
    <3>0. c \in Letters!Places BY DEF Letters!Places
    <3>1. CASE i \in DOMAIN box[c] /\ box'[c][i] = box[c][i]
      <4>1. CASE Linked(box[c][i], c, i)
        <5>1. \A k \in DOMAIN box[c] : k \in DOMAIN box'[c] /\ box'[c][k] = box[c][k] BY <3>0, GrownIs
        <5> QED BY <1>1, <3>1, <4>1, <5>1 DEF Linked, Clean, Excused
      <4>2. CASE AtText /\ c = edit.to /\ i = edit.new BY <4>2 DEF Grows
      <4> QED BY <3>1, <4>1, <4>2 DEF LettersInv, Following
    <3>2. CASE c \in P /\ i = Len(box[c]) + 1 /\ box'[c][i] = T[c]
      BY <3>2 DEF Grows
    <3> QED BY <1>5, <3>0, <3>1, <3>2
  <2> QED BY <2>1 DEF Following
<1> QED BY <1>6, <1>7, <1>8

(* The texts in a place that have a letter, then.                          *)
LEMMA HoldIs ==
  ASSUME LettersInv, NEW P, NEW T, Grows(P, T), NEW c \in Letters!Places, NEW n
  PROVE  {i \in DOMAIN box'[c] : n \in box'[c][i].holds}
           = {i \in DOMAIN box[c] : n \in box[c][i].holds}
               \cup (IF c \in P /\ n \in edit.holds THEN {Len(box[c]) + 1} ELSE {})
<1>1. /\ \A k \in DOMAIN box[c] : box'[c][k] = box[c][k]
      /\ DOMAIN box'[c] = IF c \in P THEN DOMAIN box[c] \cup {Len(box[c]) + 1} ELSE DOMAIN box[c]
      /\ c \in P => box'[c][Len(box[c]) + 1] = T[c]
  BY GrownIs
<1>2. \A p \in P : T[p].holds = edit.holds BY DEF Grows
<1> QED BY <1>1, <1>2

(* A letter goes its way: a text in the places of P, a job or a letter to  *)
(* a program; its copy is to come.                                         *)
Way(m, P, J, S) ==
  /\ \A j \in J : AddressRight(j.addr, m) /\ m.re = j.reply
  /\ \A s \in S : TookRight(s, m)
  /\ IF Letters!Private(m) THEN Uid \notin P /\ (J \cup S # {} \/ P # {})
     ELSE Uid \notin P \/ (J \cup S = {} /\ P \ {Uid} = {})

Goes(P, T, J, S) ==
  /\ edit.state = "saved" /\ Grows(P, T) /\ UNCHANGED << draft, dead, hup >>
  /\ jobs' = jobs \cup J /\ sent' = sent \cup S
  /\ J \subseteq AJob /\ \A s \in S : "way" \in DOMAIN s
  /\ \A q \in J \cup S : q.holds = edit.holds
  /\ AtMostOne(P \ {Uid}) /\ AtMostOne(J \cup S) /\ (P \ {Uid} = {} \/ J \cup S = {})
  /\ edit' \in AnEdit /\ edit'.state \in Letters!Passing /\ SameLetter
  /\ edit'.state = "given" => world.copy
  /\ \A n \in Loose(edit.holds) :
       Way(meant[n], P, J, S) /\ (edit'.state = "given" <=> world.copy /\ Letters!Private(meant[n]))

LEMMA NowAt ==
  ASSUME LettersInv, NEW P, NEW T, NEW J, NEW S, Goes(P, T, J, S), NEW n \in DOMAIN meant \ astray
  PROVE  /\ n \notin edit.holds => /\ InQueues(n)' = InQueues(n) /\ InBoxes(n)' = InBoxes(n) /\ InOwn(n)' = InOwn(n)
         /\ n \in edit.holds =>
              /\ n \in Loose(edit.holds) /\ InQueues(n)' = J \cup S
              /\ InBoxes(n)' = {<< c, Len(box[c]) + 1 >> : c \in P \ {Uid}}
              /\ InOwn(n)' = IF Uid \in P THEN {Len(box[Uid]) + 1} ELSE {}
<1>1. /\ edit.state = "saved" /\ Grows(P, T) /\ P \subseteq Letters!Places
      /\ \A q \in J \cup S : q.holds = edit.holds
      /\ jobs' = jobs \cup J /\ sent' = sent \cup S
  BY DEF Goes, Grows
<1>2. Uid \in Letters!Places BY DEF Letters!Places
<1>3. \A c \in Letters!Places :
        {i \in DOMAIN box'[c] : n \in box'[c][i].holds}
          = {i \in DOMAIN box[c] : n \in box[c][i].holds}
              \cup (IF c \in P /\ n \in edit.holds THEN {Len(box[c]) + 1} ELSE {})
  BY <1>1, HoldIs
<1>4. CASE n \notin edit.holds
  <2>1. \A c \in Letters!Places : {i \in DOMAIN box'[c] : n \in box'[c][i].holds} = {i \in DOMAIN box[c] : n \in box[c][i].holds}
    BY <1>3, <1>4
  <2>2. InQueues(n)' = InQueues(n) BY <1>1, <1>4 DEF InQueues
  <2>3. InOwn(n)' = InOwn(n) BY <1>2, <2>1 DEF InOwn
  <2>4. InBoxes(n)' = InBoxes(n) BY <2>1 DEF InBoxes
  <2> QED BY <1>4, <2>2, <2>3, <2>4
<1>5. CASE n \in edit.holds
  <2>1. n \in Loose(edit.holds) BY <1>5 DEF Loose, LettersInv, LetterTypes
  <2>2. Unplaced(n) BY <1>1, <2>1 DEF LettersInv, InHand, Ahead
  <2>3. \A c \in Letters!Places : {i \in DOMAIN box'[c] : n \in box'[c][i].holds} = IF c \in P THEN {Len(box[c]) + 1} ELSE {}
    BY <1>3, <1>5, <2>2 DEF Unplaced
  <2>4. InQueues(n)' = J \cup S BY <1>1, <1>5, <2>2 DEF InQueues, Unplaced
  <2>5. InOwn(n)' = IF Uid \in P THEN {Len(box[Uid]) + 1} ELSE {} BY <1>2, <2>3 DEF InOwn
  <2>6. ASSUME NEW x PROVE x \in InBoxes(n)' <=> x \in {<< c, Len(box[c]) + 1 >> : c \in P \ {Uid}}
    <3>1. x \in InBoxes(n)' <=> \E c \in Letters!Places \ {Uid} :
                                  \E i \in {k \in DOMAIN box'[c] : n \in box'[c][k].holds} : x = << c, i >>
      BY DEF InBoxes
    <3> QED BY <1>1, <2>3, <3>1
  <2>7. InBoxes(n)' = {<< c, Len(box[c]) + 1 >> : c \in P \ {Uid}} BY <2>6
  <2> QED BY <1>5, <2>1, <2>4, <2>5, <2>7
<1> QED BY <1>4, <1>5

LEMMA GoesSingly ==
  ASSUME LettersInv, NEW P, NEW T, NEW J, NEW S, Goes(P, T, J, S) PROVE Singles'
<1>1. /\ UNCHANGED << world, meant, astray, cut >> /\ AtMostOne(P \ {Uid}) /\ AtMostOne(J \cup S)
      /\ (P \ {Uid} = {} \/ J \cup S = {}) /\ edit.state = "saved" /\ edit'.holds = edit.holds
  BY DEF Goes, Grows, SameLetter
<1>2. ASSUME NEW n \in DOMAIN meant \ astray PROVE Single(n)'
  <2>1. CASE n \notin edit.holds
    <3>1. Single(n) /\ ~Waits(n) BY <2>1 DEF LettersInv, Settled, Singles, Waits
    <3>2. InQueues(n)' = InQueues(n) /\ InBoxes(n)' = InBoxes(n) /\ InOwn(n)' = InOwn(n) BY <2>1, NowAt
    <3> QED BY <1>1, <3>1, <3>2 DEF Single, AtMostOne, Letters!Private
  <2>2. CASE n \in edit.holds
    <3>1. /\ n \in Loose(edit.holds) /\ InQueues(n)' = J \cup S
          /\ InBoxes(n)' = {<< c, Len(box[c]) + 1 >> : c \in P \ {Uid}}
          /\ InOwn(n)' = IF Uid \in P THEN {Len(box[Uid]) + 1} ELSE {}
      BY <2>2, NowAt
    <3>2. Way(meant[n], P, J, S) /\ (world.copy /\ Letters!Private(meant[n]) => Waits(n)')
      BY <1>1, <2>2, <3>1 DEF Goes, Waits
    <3>3. InBoxes(n)' = {} <=> P \ {Uid} = {} BY <3>1
    <3>4. InOwn(n)' = {} <=> Uid \notin P BY <3>1
    <3>5. AtMostOne(InQueues(n)') /\ AtMostOne(InBoxes(n)') /\ AtMostOne(InOwn(n)')
      BY <1>1, <3>1 DEF AtMostOne
    <3>6. Letters!Private(meant[n])' <=> Letters!Private(meant[n]) BY <1>1 DEF Letters!Private
    <3> QED BY <1>1, <3>1, <3>2, <3>3, <3>4, <3>5, <3>6 DEF Single, AtMostOne, Way
  <2> QED BY <2>1, <2>2
<1> QED BY <1>1, <1>2 DEF Singles

LEMMA GoesKeeps ==
  ASSUME LettersAssumed, LettersInv, NEW P, NEW T, NEW J, NEW S, Goes(P, T, J, S), AtText' => TextIn'
  PROVE  LettersInv'
<1>1. /\ edit.state = "saved" /\ Grows(P, T)
      /\ UNCHANGED << world, echo, draft, dead, hup, meant, astray, cut >>
      /\ box' \in [Letters!Places -> Seq(AText)]
      /\ jobs' = jobs \cup J /\ sent' = sent \cup S
      /\ J \subseteq AJob /\ \A s \in S : "way" \in DOMAIN s
      /\ \A q \in J \cup S : q.holds = edit.holds
      /\ edit' \in AnEdit /\ edit'.state \in Letters!Passing /\ SameLetter /\ edit'.holds = edit.holds
  BY DEF Goes, Grows, SameLetter
<1>2. LetterTypes /\ Holding' = Holding BY <1>1 DEF LettersInv, Holding
<1>3. LetterTypes' BY <1>1, <1>2, SameSets DEF LetterTypes
<1>4. \A n \in Loose(edit.holds) : Way(meant[n], P, J, S) BY DEF Goes
<1>5. Queued'
  <2>1. \A j \in jobs' : \A n \in Loose(j.holds) : AddressRight(j.addr, meant[n]) /\ meant[n].re = j.reply
    BY <1>1, <1>4 DEF LettersInv, Settled, Queued, Way
  <2> QED BY <1>1, <2>1, SameSets DEF Queued, Loose, AddressRight, Letters!IsAddress
<1>6. Letters!SentRight'
  <2>1. \A x \in sent' : \A n \in Loose(x.holds) : TookRight(x, meant[n])
    <3>1. \A x \in sent : \A n \in Loose(x.holds) : TookRight(x, meant[n]) BY SentRightIs DEF LettersInv, Settled
    <3>2. \A x \in S : \A n \in Loose(x.holds) : TookRight(x, meant[n]) BY <1>1, <1>4 DEF Way
    <3>3. sent' = sent \cup S BY <1>1
    <3> QED BY <3>1, <3>2, <3>3
  <2>2. \A x \in sent' : \A n \in Loose(x.holds)' : TookRight(x, meant[n])'
    <3>1. UNCHANGED << world, meant, astray >> BY <1>1
    <3> QED BY <2>1, <3>1 DEF Loose, TookRight, Letters!Known
  <2> QED BY <2>2 DEF Letters!SentRight, TookRight, Letters!Meant, Loose
<1>7. InHand' BY <1>1, PassingHand
<1>8. EditIs'
  <2>1. EditFits(edit) BY <1>1 DEF LettersInv, EditIs
  <2>2. \A c \in Letters!Places : DOMAIN box[c] \subseteq DOMAIN box'[c] BY <1>1, GrownIs
  <2>3. EditFits(edit)' BY <1>1, <2>1, <2>2, FitsThen
  <2>4. ASSUME edit'.state = "given" PROVE CopyDue'
    <3>1. ASSUME NEW n \in Loose(edit.holds)
          PROVE  Letters!Private(meant[n]) /\ InOwn(n)' = {} /\ (InQueues(n)' # {} \/ InBoxes(n)' # {})
      <4>1. n \in DOMAIN meant \ astray /\ n \in edit.holds
        BY <1>2 DEF LetterTypes, Holding, Loose
      <4>2. /\ InQueues(n)' = J \cup S
            /\ InBoxes(n)' = {<< c, Len(box[c]) + 1 >> : c \in P \ {Uid}}
            /\ InOwn(n)' = IF Uid \in P THEN {Len(box[Uid]) + 1} ELSE {}
        BY <4>1, NowAt
      <4>3. Way(meant[n], P, J, S) /\ Letters!Private(meant[n]) BY <2>4 DEF Goes
      <4> QED BY <4>2, <4>3 DEF Way
    <3>2. world.copy BY <2>4 DEF Goes
    <3>3. Loose(edit.holds)' = Loose(edit.holds) BY <1>1 DEF Loose
    <3> QED BY <1>1, <3>1, <3>2, <3>3 DEF CopyDue, Letters!Private
  <2> QED BY <1>1, <2>3, <2>4, PassingEdit
<1> QED BY <1>1, <1>3, <1>5, <1>6, <1>7, <1>8, GrowsRight, GoesSingly DEF LettersInv, Settled

LEMMA EditTyped ==
  ASSUME LettersInv
  PROVE  edit \in AnEdit /\ edit.holds \in Holding /\ edit.holds \in SUBSET Nat
BY DEF LettersInv, LetterTypes, AnEdit

LEMMA WrittenRight ==
  ASSUME LettersInv, edit.state = "saved"
  PROVE  /\ edit \in AnEdit /\ edit.holds \in Holding /\ edit.holds \in SUBSET Nat /\ EditFits(edit)
         /\ \A n \in Loose(edit.holds) : EditRight(edit, meant[n])
BY DEF LettersInv, LetterTypes, EditIs, InHand, Ahead, AnEdit

LEMMA CopyIs ==
  ASSUME LettersInv, NEW to \in Letters!Places \cup {None}
  PROVE  Letters!CopyTo(to) \in AText /\ TextOk(Letters!CopyTo(to)) /\ Letters!CopyTo(to).holds = edit.holds
<1>1. PICK u, t : u = Letters!UserText(Uid) /\ t = [u EXCEPT !.holds = edit.holds, !.re = [num |-> 0, conf |-> to]]
  OBVIOUS
<1>2. edit.holds \in Holding /\ edit.holds \in SUBSET Nat /\ [num |-> 0, conf |-> to] \in Ref
  BY EditTyped DEF Ref
<1>3. /\ t \in AText /\ t.by = Uid /\ t.author = Uid /\ t.mail = None /\ t.from = None /\ t.paren = None
      /\ t.id = None /\ t.holds = edit.holds
  <2>1. /\ u \in AText /\ u.by = Uid /\ u.author = Uid /\ u.mail = None /\ u.from = None /\ u.paren = None
        /\ u.id = None
    BY <1>1, UserTextIs
  <2> QED BY <1>1, <1>2, <2>1 DEF AText
<1>4. TextOk(t) BY <1>2, <1>3 DEF TextOk
<1> QED BY <1>1, <1>3, <1>4 DEF Letters!CopyTo

LEMMA StoredIs ==
  ASSUME LettersInv, edit.state = "saved", NEW t, t = Letters!Stored
  PROVE  /\ t \in AText /\ TextOk(t) /\ t.holds = edit.holds /\ t.re = edit.re
         /\ t.author = edit.author
<1>1. PICK u : u = Letters!UserText(Uid) OBVIOUS
<1>2. t = [u EXCEPT !.author = edit.author, !.re = edit.re, !.holds = edit.holds] BY <1>1 DEF Letters!Stored
<1>3. /\ edit.holds \in Holding /\ edit.holds \in SUBSET Nat /\ edit.re \in {None} \cup Ref
      /\ edit.author \in {None, Uid}
  BY WrittenRight DEF AnEdit
<1>4. /\ t \in AText /\ t.by = Uid /\ t.author = edit.author /\ t.mail = None /\ t.from = None /\ t.paren = None
      /\ t.id = None /\ t.holds = edit.holds /\ t.re = edit.re
  <2>1. /\ u \in AText /\ u.by = Uid /\ u.mail = None /\ u.from = None /\ u.paren = None /\ u.id = None
    BY <1>1, UserTextIs
  <2> QED BY <1>2, <1>3, <2>1 DEF AText
<1>5. TextOk(t) BY <1>3, <1>4 DEF TextOk
<1> QED BY <1>4, <1>5

LEMMA BlankAfter ==
  ASSUME LettersAssumed, LettersInv, edit' = Letters!Blank
  PROVE  edit' \in AnEdit /\ edit'.holds \in Holding /\ edit'.state = "prompt" /\ EditIs'
<1>1. edit' \in AnEdit /\ edit'.state = "prompt" /\ edit'.holds = {}
  BY BlankIs DEF LettersInv, LetterTypes
<1> QED BY <1>1 DEF EditIs, Holding, AtText, Letters!Passing

(* A letter to a queue or a program.                                       *)
LEMMA LeavesKeeps ==
  ASSUME LettersAssumed, LettersInv, edit.state = "saved", Letters!Kind # "text",
         NEW next \in {"given", "copied"}, edit' = [edit EXCEPT !.state = next],
         NEW J, NEW S, jobs' = jobs \cup J, sent' = sent \cup S,
         UNCHANGED << world, box, echo, draft, dead, hup, meant, astray, cut >>,
         J \subseteq AJob, \A s \in S : "way" \in DOMAIN s, \A q \in J \cup S : q.holds = edit.holds,
         AtMostOne(J \cup S), J \cup S # {}, next = "given" => world.copy,
         \A n \in Loose(edit.holds) :
           /\ next = "given" <=> world.copy /\ Letters!Private(meant[n])
           /\ \A j \in J : AddressRight(j.addr, meant[n]) /\ meant[n].re = j.reply
           /\ \A s \in S : TookRight(s, meant[n])
  PROVE  LettersInv'
<1>1. PICK P, T : P = {} /\ T = << >> OBVIOUS
<1>2. edit \in AnEdit /\ box \in [Letters!Places -> Seq(AText)] BY DEF LettersInv, LetterTypes
<1>3. edit' \in AnEdit /\ edit'.state = next /\ SameLetter /\ Letters!Kind' = Letters!Kind BY <1>2, MovesOn
<1>4. ~AtText /\ ~AtText' BY <1>3 DEF AtText, Letters!Passing
<1>5. Grows(P, T) BY <1>1, <1>2, <1>4 DEF Grows
<1>6. \A n \in Loose(edit.holds) : Way(meant[n], P, J, S) BY <1>1 DEF Way
<1>7. edit'.state \in Letters!Passing BY <1>3 DEF Letters!Passing
<1>8. AtMostOne(P \ {Uid}) /\ P \ {Uid} = {} BY <1>1 DEF AtMostOne
<1>9. Goes(P, T, J, S) BY <1>3, <1>5, <1>6, <1>7, <1>8 DEF Goes
<1> QED BY <1>4, <1>9, GoesKeeps

LEMMA QueueKeeps == ASSUME LettersAssumed, LettersInv, Letters!Queue PROVE LettersInv'
<1>1. PICK j, next : /\ edit.state = "saved" /\ Letters!Kind = "ftn"
                     /\ j = [addr |-> edit.addr, reply |-> edit.reply, holds |-> edit.holds]
                     /\ jobs' = jobs \cup {j} /\ sent' = sent \cup {}
                     /\ next = (IF world.copy THEN "given" ELSE "copied") /\ edit' = [edit EXCEPT !.state = next]
                     /\ UNCHANGED << world, box, echo, draft, dead, hup, meant, astray, cut >>
  BY DEF Letters!Queue, Letters!Copied
<1>2. edit.addr # None BY <1>1 DEF Letters!Kind
<1>3. j \in AJob /\ j.holds = edit.holds
  BY <1>1, <1>2, WrittenRight DEF AJob, AnEdit
<1>4. Person # Uid BY PersonIs DEF LettersInv, LetterTypes
<1>5. ASSUME NEW n \in Loose(edit.holds)
      PROVE  Letters!Private(meant[n]) /\ AddressRight(j.addr, meant[n]) /\ meant[n].re = j.reply
  <2>1. EditFits(edit) /\ EditRight(edit, meant[n]) BY <1>1, WrittenRight
  <2>2. MailRight(edit, meant[n]) BY <1>2, <2>1 DEF EditFits, EditRight
  <2> QED BY <1>1, <1>2, <1>4, <2>2 DEF MailRight, AddressRight, Letters!Private
<1>6. PICK J, S : J = {j} /\ S = {} OBVIOUS
<1>7. /\ jobs' = jobs \cup J /\ sent' = sent \cup S
      /\ J \subseteq AJob /\ (\A s \in S : "way" \in DOMAIN s) /\ (\A q \in J \cup S : q.holds = edit.holds)
      /\ AtMostOne(J \cup S) /\ J \cup S # {}
  BY <1>1, <1>3, <1>6 DEF AtMostOne
<1>8. \A n \in Loose(edit.holds) :
        /\ next = "given" <=> world.copy /\ Letters!Private(meant[n])
        /\ \A q \in J : AddressRight(q.addr, meant[n]) /\ meant[n].re = q.reply
        /\ \A s \in S : TookRight(s, meant[n])
  BY <1>1, <1>5, <1>6
<1> QED BY <1>1, <1>7, <1>8, LeavesKeeps

LEMMA HandMailKeeps == ASSUME LettersAssumed, LettersInv, Letters!HandMail PROVE LettersInv'
<1>1. PICK s, next : /\ edit.state = "saved" /\ Letters!Kind = "mail"
                     /\ s = Letters!Sent("mail", edit.mail, None, edit.holds)
                     /\ jobs' = jobs \cup {} /\ sent' = sent \cup {s}
                     /\ next = (IF world.copy THEN "given" ELSE "copied") /\ edit' = [edit EXCEPT !.state = next]
                     /\ UNCHANGED << world, box, echo, draft, dead, hup, meant, astray, cut >>
  BY DEF Letters!HandMail, Letters!HandOn, Letters!Copied
<1>2. edit.addr = None /\ edit.mail # None
  <2>1. edit.mail # None BY <1>1 DEF Letters!Kind
  <2> QED BY <1>1, <2>1, WrittenRight DEF EditFits
<1>3. "way" \in DOMAIN s /\ s.holds = edit.holds /\ s.way = "mail" /\ s.who = edit.mail /\ s.reply = None
  BY <1>1 DEF Letters!Sent
<1>4. Person # Uid BY PersonIs DEF LettersInv, LetterTypes
<1>5. ASSUME NEW n \in Loose(edit.holds) PROVE Letters!Private(meant[n]) /\ TookRight(s, meant[n])
  <2>1. EditFits(edit) /\ EditRight(edit, meant[n]) /\ edit.mail = Person
    BY <1>1, <1>2, WrittenRight DEF AnEdit
  <2>2. MailRight(edit, meant[n]) BY <1>2, <2>1 DEF EditFits, EditRight
  <2>3. meant[n] = Letters!Target("mail", edit.mail, None) BY <1>2, <2>2 DEF MailRight
  <2> QED BY <1>3, <1>4, <2>1, <2>3 DEF TookRight, Letters!Target, Letters!Private
<1>6. PICK J, S : J = {} /\ S = {s} OBVIOUS
<1>7. /\ jobs' = jobs \cup J /\ sent' = sent \cup S
      /\ J \subseteq AJob /\ (\A x \in S : "way" \in DOMAIN x) /\ (\A q \in J \cup S : q.holds = edit.holds)
      /\ AtMostOne(J \cup S) /\ J \cup S # {}
  BY <1>1, <1>3, <1>6 DEF AtMostOne
<1>8. \A n \in Loose(edit.holds) :
        /\ next = "given" <=> world.copy /\ Letters!Private(meant[n])
        /\ \A j \in J : AddressRight(j.addr, meant[n]) /\ meant[n].re = j.reply
        /\ \A x \in S : TookRight(x, meant[n])
  BY <1>1, <1>5, <1>6
<1> QED BY <1>1, <1>7, <1>8, LeavesKeeps

(* Articles have no copy.                                                  *)
LEMMA ArticleKeeps ==
  ASSUME LettersAssumed, LettersInv, edit.state = "saved", Letters!Kind = "news",
         edit' = [edit EXCEPT !.state = "copied"], NEW s, sent' = sent \cup {s},
         UNCHANGED << world, box, jobs, echo, draft, dead, hup, meant, astray, cut >>,
         s = Letters!Sent("group", s.who, s.reply, edit.holds),
         \A n \in Loose(edit.holds) : meant[n] = Letters!Target("group", s.who, s.reply)
  PROVE  LettersInv'
<1>1. PICK J, S, next : J = {} /\ S = {s} /\ next = "copied" OBVIOUS
<1>2. "way" \in DOMAIN s /\ s.holds = edit.holds /\ s.way = "group" BY DEF Letters!Sent
<1>3. /\ jobs' = jobs \cup J /\ sent' = sent \cup S
      /\ J \subseteq AJob /\ (\A x \in S : "way" \in DOMAIN x) /\ (\A q \in J \cup S : q.holds = edit.holds)
      /\ AtMostOne(J \cup S) /\ J \cup S # {} /\ next # "given"
  BY <1>1, <1>2 DEF AtMostOne
<1>4. ASSUME NEW n \in Loose(edit.holds) PROVE ~Letters!Private(meant[n]) /\ TookRight(s, meant[n])
  <2>1. meant[n] = Letters!Target(s.way, s.who, s.reply) /\ meant[n].way = "group"
    BY <1>2 DEF Letters!Target
  <2> QED BY <1>2, <2>1 DEF TookRight, Letters!Private
<1>5. \A n \in Loose(edit.holds) :
        /\ next = "given" <=> world.copy /\ Letters!Private(meant[n])
        /\ \A j \in J : AddressRight(j.addr, meant[n]) /\ meant[n].re = j.reply
        /\ \A x \in S : TookRight(x, meant[n])
  BY <1>1, <1>3, <1>4
<1>6. next \in {"given", "copied"} /\ edit' = [edit EXCEPT !.state = next] BY <1>1
<1> QED BY <1>3, <1>5, <1>6, LeavesKeeps

LEMMA HandArticleKeeps == ASSUME LettersAssumed, LettersInv, Letters!HandArticle PROVE LettersInv'
<1>1. PICK s : /\ edit.state = "saved" /\ Letters!Kind = "news" /\ edit.cmd = "post"
               /\ s = Letters!Sent("group", edit.to, None, edit.holds)
               /\ sent' = sent \cup {s} /\ edit' = [edit EXCEPT !.state = "copied"]
               /\ UNCHANGED << world, box, jobs, echo, draft, dead, hup, meant, astray, cut >>
  BY DEF Letters!HandArticle, Letters!HandOn
<1>2. edit.asked = None BY <1>1 DEF Letters!Kind
<1>3. s.who = edit.to /\ s.reply = None BY <1>1 DEF Letters!Sent
<1>4. ASSUME NEW n \in Loose(edit.holds) PROVE meant[n] = Letters!Target("group", s.who, s.reply)
  <2>1. PostRight(edit, meant[n]) BY <1>1, WrittenRight DEF EditRight
  <2>2. None # Uid BY DEF LettersAssumed, Markings, Letters!Places
  <2> QED BY <1>2, <1>3, <2>1, <2>2 DEF PostRight
<1> QED BY <1>1, <1>3, <1>4, ArticleKeeps

LEMMA HandFollowUpKeeps == ASSUME LettersAssumed, LettersInv, Letters!HandFollowUp PROVE LettersInv'
<1>1. PICK s : /\ edit.state = "saved" /\ Letters!Kind = "news" /\ edit.cmd # "post"
               /\ s = Letters!Sent("group", edit.to, edit.reply, edit.holds)
               /\ sent' = sent \cup {s} /\ edit' = [edit EXCEPT !.state = "copied"]
               /\ UNCHANGED << world, box, jobs, echo, draft, dead, hup, meant, astray, cut >>
  BY DEF Letters!HandFollowUp, Letters!HandOn
<1>2. edit.author = None /\ edit.cmd = "comment" BY <1>1 DEF Letters!Kind
<1>3. s.who = edit.to /\ s.reply = edit.reply BY <1>1 DEF Letters!Sent
<1>4. ASSUME NEW n \in Loose(edit.holds) PROVE meant[n] = Letters!Target("group", s.who, s.reply)
  <2>1. CommentRight(edit, meant[n]) BY <1>1, <1>2, WrittenRight DEF EditRight
  <2>2. None # Uid BY DEF LettersAssumed, Markings, Letters!Places
  <2> QED BY <1>2, <1>3, <2>1, <2>2 DEF CommentRight
<1> QED BY <1>1, <1>3, <1>4, ArticleKeeps

(* save_text: what is stored is what was meant.                            *)
LEMMA StoredArrives ==
  ASSUME LettersAssumed, LettersInv, edit.state = "saved", Letters!Kind = "text", edit.to \in Letters!Places,
         NEW t, t = Letters!Stored, NEW n \in Loose(edit.holds)
  PROVE  /\ Letters!TextArrives(t, edit.to, meant[n])
         /\ edit.to \in Letters!Confs \cup {Uid} => ~Letters!Private(meant[n])
         /\ edit.to = Friend => Letters!Private(meant[n])
<1>1. /\ edit \in AnEdit /\ EditFits(edit) /\ EditRight(edit, meant[n])
      /\ t.re = edit.re /\ t.author = edit.author
  BY WrittenRight, StoredIs
<1>2. edit.addr = None /\ edit.mail = None /\ ~(edit.cmd \in {"post", "comment"} /\ edit.asked = None /\ edit.author = None)
  BY DEF Letters!Kind
<1>3. /\ {Uid, Friend} \cap Letters!Confs = {} /\ Uid # Friend /\ None \notin Letters!Places
      /\ \A x, c : [num |-> x, conf |-> c] # None
  BY DEF LettersAssumed, Markings
<1>4. CASE edit.cmd \in Personally
  <2>1. meant[n] = Letters!Target("box", edit.to, edit.re) /\ edit.to \notin Letters!Confs
    BY <1>1, <1>2, <1>4 DEF EditRight, MailRight, EditFits
  <2>2. Letters!Parent(t, edit.to) = edit.re
    <3>1. CASE edit.re = None BY <1>1, <3>1 DEF Letters!Parent
    <3>2. CASE edit.re \in Ref
      <4>1. edit.re = [num |-> edit.re.num, conf |-> edit.re.conf] /\ edit.re # None BY <1>3, <3>2 DEF Ref
      <4> QED BY <1>1, <2>1, <4>1 DEF Letters!Parent
    <3> QED BY <1>1, <3>1, <3>2 DEF AnEdit
  <2> QED BY <1>3, <2>1, <2>2 DEF Letters!TextArrives, Letters!Target, Letters!Private, Letters!Places
<1>5. CASE edit.cmd = "post"
  <2>1. edit.to \in Letters!Confs /\ edit.re = None /\ PostRight(edit, meant[n])
    BY <1>1, <1>5 DEF EditFits, EditRight
  <2>2. meant[n] = Letters!Target("conf", edit.to, None) BY <1>2, <1>5, <2>1 DEF PostRight
  <2>3. Letters!Parent(t, edit.to) = None BY <1>1, <2>1 DEF Letters!Parent
  <2> QED BY <1>3, <2>1, <2>2, <2>3 DEF Letters!TextArrives, Letters!Target, Letters!Private
<1>6. CASE edit.cmd = "comment"
  <2>1. /\ edit.to \in Letters!Confs /\ edit.at \in Letters!Confs /\ edit.at \in Letters!Places
        /\ edit.re = [num |-> edit.num, conf |-> IF edit.to = edit.at THEN None ELSE edit.at]
        /\ CommentRight(edit, meant[n])
    BY <1>1, <1>6 DEF EditFits, EditRight, Letters!Places
  <2>2. CASE edit.to \in Groups
    <3>1. meant[n] = Letters!Target("group", edit.to, edit.reply) /\ edit.author = None
      BY <2>1, <2>2 DEF CommentRight
    <3> QED BY <1>1, <1>3, <2>1, <2>2, <3>1 DEF Letters!TextArrives, Letters!Misplaced, Letters!Target, Letters!Private
  <2>3. CASE edit.to \notin Groups
    <3>1. meant[n] = Letters!Target("conf", edit.to, [num |-> edit.num, conf |-> edit.at])
      BY <2>1, <2>3 DEF CommentRight
    <3>2. edit.re.num = edit.num /\ edit.re.conf = (IF edit.to = edit.at THEN None ELSE edit.at) /\ edit.re # None
      BY <1>3, <2>1
    <3>3. Letters!Parent(t, edit.to) = [num |-> edit.num, conf |-> edit.at]
      BY <1>1, <1>3, <2>1, <3>2 DEF Letters!Parent
    <3> QED BY <1>3, <2>1, <3>1, <3>3 DEF Letters!TextArrives, Letters!Target, Letters!Private
  <2> QED BY <2>2, <2>3
<1>7. CASE edit.cmd = "resume"
  <2>1. meant[n] = Letters!Target("conf", edit.to, Answers(edit.re, edit.to)) /\ edit.to \in Letters!Confs
    BY <1>1, <1>7 DEF EditRight, KeptRight
  <2>2. Letters!Parent(t, edit.to) = Answers(edit.re, edit.to) BY <1>1 DEF Letters!Parent, Answers
  <2> QED BY <1>3, <2>1, <2>2 DEF Letters!TextArrives, Letters!Target, Letters!Private
<1> QED BY <1>1, <1>4, <1>5, <1>6, <1>7 DEF EditFits, Personally

LEMMA SaveTextKeeps == ASSUME LettersAssumed, LettersInv, Letters!SaveText PROVE LettersInv'
<1>1. PICK next, to, k, t :
        /\ edit.state = "saved" /\ Letters!Kind = "text" /\ to = edit.to /\ to \in Letters!Places
        /\ t = Letters!Stored /\ k = Len(box[to])
        /\ next = (IF world.copy /\ to = Friend THEN "given" ELSE "copied")
        /\ box' = [box EXCEPT ![to] = Append(@, t)]
        /\ edit' = [edit EXCEPT !.state = next, !.new = k + 1]
        /\ UNCHANGED << world, jobs, echo, sent, draft, dead, hup, meant, astray, cut >>
  BY DEF Letters!SaveText, Letters!Copied, Letters!WithText
<1>2. t \in AText /\ TextOk(t) /\ t.holds = edit.holds /\ t.re = edit.re BY <1>1, StoredIs
<1>3. box \in [Letters!Places -> Seq(AText)] /\ box[to] \in Seq(AText) /\ k \in Nat
  BY <1>1 DEF LettersInv, LetterTypes
<1>4. PICK P, T, J, S : P = {to} /\ T = [c \in {to} |-> t] /\ J = {} /\ S = {} OBVIOUS
<1>5. /\ edit' \in AnEdit /\ edit'.state = next /\ edit'.new = k + 1 /\ SameLetter /\ Letters!Kind' = "text"
      /\ edit'.to = to /\ edit'.holds = edit.holds /\ edit'.re = edit.re
  <2>1. next \in {"given", "copied", "stored"} /\ k + 1 \in Nat /\ edit \in AnEdit
    BY <1>1, <1>3, EditTyped
  <2> QED BY <1>1, <2>1, PassIs DEF SameLetter
<1>6. edit'.state \in Letters!Passing /\ AtText' BY <1>1, <1>5 DEF AtText, Letters!Passing
<1>7. /\ {Uid, Friend} \cap Letters!Confs = {} /\ Uid # Friend /\ Letters!Places = Letters!Confs \cup {Uid, Friend}
  BY DEF Letters!Places, LettersAssumed, Markings
<1>8. ASSUME NEW n \in Loose(edit.holds)
      PROVE  Letters!TextArrives(t, to, meant[n]) /\ (Letters!Private(meant[n]) <=> to = Friend)
  <2>1. /\ Letters!TextArrives(t, edit.to, meant[n])
        /\ edit.to \in Letters!Confs \cup {Uid} => ~Letters!Private(meant[n])
        /\ edit.to = Friend => Letters!Private(meant[n])
    BY <1>1, StoredArrives
  <2> QED BY <1>1, <1>7, <2>1
<1>9. Grows(P, T)
  <2>1. PICK s : s = Append(box[to], t) OBVIOUS
  <2>2. s \in Seq(AText) BY <1>2, <1>3, <2>1
  <2>3. box' = [box EXCEPT ![to] = s] BY <1>1, <2>1
  <2>4. /\ box' \in [Letters!Places -> Seq(AText)]
        /\ \A c \in Letters!Places : box'[c] = IF c = to THEN s ELSE box[c]
    BY <1>1, <1>3, <2>2, <2>3
  <2>5. \A c \in Letters!Places : box'[c] = IF c \in P THEN Append(box[c], T[c]) ELSE box[c]
    BY <1>4, <2>1, <2>4
  <2>6. \A c \in P : T[c] \in AText /\ TextOk(T[c]) /\ T[c].holds = edit.holds BY <1>2, <1>4
  <2>7. \A n \in Loose(edit.holds) : \A c \in P : Letters!TextArrives(T[c], c, meant[n]) BY <1>4, <1>8
  <2>8. \A c \in P \cap Letters!Confs : AtText' /\ edit'.to = c /\ edit'.new = Len(box[c]) + 1
    BY <1>1, <1>4, <1>5, <1>6
  <2>9. ~AtText BY <1>1 DEF AtText, Letters!Passing
  <2> QED BY <1>1, <1>4, <2>4, <2>5, <2>6, <2>7, <2>8, <2>9 DEF Grows
<1>10. TextIn'
  <2>1. k + 1 \in DOMAIN box'[to] /\ box'[to][k + 1] = t
    <3>0. to \in Letters!Places BY <1>1
    <3>1. /\ DOMAIN box'[to] = IF to \in P THEN DOMAIN box[to] \cup {Len(box[to]) + 1} ELSE DOMAIN box[to]
          /\ to \in P => box'[to][Len(box[to]) + 1] = T[to]
      BY <1>9, <3>0, GrownIs
    <3>2. to \in P /\ T[to] = t BY <1>4
    <3> QED BY <1>1, <3>1, <3>2
  <2> QED BY <1>1, <1>2, <1>5, <2>1 DEF TextIn
<1>11. Goes(P, T, J, S)
  <2>1. /\ jobs' = jobs \cup J /\ sent' = sent \cup S /\ J \subseteq AJob /\ (\A s \in S : "way" \in DOMAIN s)
        /\ J \cup S = {} /\ (\A q \in J \cup S : q.holds = edit.holds)
        /\ AtMostOne(J \cup S) /\ AtMostOne(P \ {Uid})
    BY <1>1, <1>4 DEF AtMostOne
  <2>2. ASSUME NEW n \in Loose(edit.holds)
        PROVE  Way(meant[n], P, J, S) /\ (edit'.state = "given" <=> world.copy /\ Letters!Private(meant[n]))
    BY <1>1, <1>4, <1>5, <1>7, <1>8 DEF Way
  <2> QED BY <1>1, <1>5, <1>6, <1>9, <2>1, <2>2 DEF Goes
<1> QED BY <1>10, <1>11, GoesKeeps

(* The copy.                                                               *)
LEMMA CopyKeeps == ASSUME LettersAssumed, LettersInv, Letters!Copy PROVE LettersInv'
<1>1. PICK t : /\ edit.state = "given" /\ t = Letters!CopyTo(edit.to)
               /\ box' = [box EXCEPT ![Uid] = Append(@, t)] /\ edit' = [edit EXCEPT !.state = "copied"]
               /\ UNCHANGED << world, jobs, echo, sent, draft, dead, hup, meant, astray, cut >>
  BY DEF Letters!Copy
<1>2. LetterTypes /\ edit \in AnEdit /\ edit.to \in Letters!Places \cup {None} /\ CopyDue /\ EditFits(edit)
  BY <1>1, EditTyped DEF LettersInv, EditIs, AnEdit
<1>3. t \in AText /\ TextOk(t) /\ t.holds = edit.holds BY <1>1, <1>2, CopyIs
<1>4. /\ edit' \in AnEdit /\ edit'.state = "copied" /\ edit'.new = edit.new /\ SameLetter
      /\ Letters!Kind' = Letters!Kind /\ edit'.to = edit.to /\ edit'.holds = edit.holds /\ edit'.re = edit.re
  BY <1>1, <1>2, MovesOn DEF SameLetter
<1>5. PICK P, T : P = {Uid} /\ T = [c \in {Uid} |-> t] OBVIOUS
<1>6. /\ Uid \in Letters!Places /\ Uid \notin Letters!Confs
  BY DEF Letters!Places, LettersAssumed, Markings
<1>7. Grows(P, T)
  <2>1. PICK s : s = Append(box[Uid], t) OBVIOUS
  <2>2. s \in Seq(AText) /\ box \in [Letters!Places -> Seq(AText)] BY <1>2, <1>3, <1>6, <2>1 DEF LetterTypes
  <2>3. box' = [box EXCEPT ![Uid] = s] BY <1>1, <2>1
  <2>4. /\ box' \in [Letters!Places -> Seq(AText)]
        /\ \A c \in Letters!Places : box'[c] = IF c \in P THEN Append(box[c], T[c]) ELSE box[c]
    BY <1>5, <1>6, <2>1, <2>2, <2>3
  <2>5. \A c \in P : T[c] \in AText /\ TextOk(T[c]) /\ T[c].holds = edit.holds BY <1>3, <1>5
  <2>6. ASSUME NEW n \in Loose(edit.holds) PROVE Letters!TextArrives(t, Uid, meant[n])
    BY <1>2 DEF CopyDue, Letters!Private, Letters!TextArrives
  <2>7. \A n \in Loose(edit.holds) : \A c \in P : Letters!TextArrives(T[c], c, meant[n]) BY <1>5, <2>6
  <2>8. AtText => AtText' BY <1>1, <1>4 DEF AtText, Letters!Passing
  <2> QED BY <1>1, <1>4, <1>5, <1>6, <2>4, <2>5, <2>7, <2>8 DEF Grows
<1>8. TextsOk' /\ Delivered' /\ Following' BY <1>7, GrowsRight
<1>9. Holding' = Holding BY <1>1 DEF Holding
<1>10. LetterTypes'
  <2>1. box' \in [Letters!Places -> Seq(AText)] BY <1>7 DEF Grows
  <2> QED BY <1>1, <1>2, <1>4, <1>9, <2>1, SameSets DEF LetterTypes
<1>11. Queued' BY <1>1, SameSets DEF LettersInv, Settled, Queued, Loose, AddressRight, Letters!IsAddress
<1>12. Letters!SentRight'
  BY <1>1 DEF LettersInv, Settled, Letters!SentRight, Letters!Meant, Letters!Known
<1>13. Singles'
  <2>1. ASSUME NEW n \in DOMAIN meant \ astray PROVE Single(n)'
    <3>1. \A c \in Letters!Places \ {Uid} : {i \in DOMAIN box'[c] : n \in box'[c][i].holds} = {i \in DOMAIN box[c] : n \in box[c][i].holds}
      BY <1>5, <1>7, HoldIs
    <3>2. InQueues(n)' = InQueues(n) /\ InBoxes(n)' = InBoxes(n) BY <1>1, <3>1 DEF InQueues, InBoxes
    <3>3. InOwn(n)' = InOwn(n) \cup (IF n \in edit.holds THEN {Len(box[Uid]) + 1} ELSE {})
      <4>1. {i \in DOMAIN box'[Uid] : n \in box'[Uid][i].holds}
              = {i \in DOMAIN box[Uid] : n \in box[Uid][i].holds}
                  \cup (IF Uid \in P /\ n \in edit.holds THEN {Len(box[Uid]) + 1} ELSE {})
        BY <1>6, <1>7, HoldIs
      <4> QED BY <1>5, <4>1 DEF InOwn
    <3>4. Single(n) BY DEF LettersInv, Settled, Singles
    <3>5. Letters!Private(meant[n])' <=> Letters!Private(meant[n]) BY <1>1 DEF Letters!Private
    <3>6. CASE n \notin edit.holds
      BY <1>1, <3>2, <3>3, <3>4, <3>5, <3>6 DEF Single, AtMostOne, Waits
    <3>7. CASE n \in edit.holds
      <4>1. n \in Loose(edit.holds) BY <1>2, <3>7 DEF Loose, LetterTypes
      <4>2. /\ world.copy /\ Letters!Private(meant[n]) /\ InOwn(n) = {}
            /\ (InQueues(n) # {} \/ InBoxes(n) # {})
        BY <1>2, <4>1 DEF CopyDue
      <4>3. InOwn(n)' = {Len(box[Uid]) + 1} BY <3>3, <3>7, <4>2
      <4> QED BY <1>1, <3>2, <3>4, <3>5, <4>2, <4>3 DEF Single, AtMostOne
    <3> QED BY <3>6, <3>7
  <2> QED BY <1>1, <2>1 DEF Singles
<1>14. edit.state \in Letters!Passing /\ edit'.state \in Letters!Passing BY <1>1, <1>4 DEF Letters!Passing
<1>15. EditIs'
  <2>1. \A c \in Letters!Places : DOMAIN box[c] \subseteq DOMAIN box'[c] BY <1>7, GrownIs
  <2>2. EditFits(edit)' BY <1>2, <1>4, <2>1, FitsThen
  <2>3. ASSUME AtText' PROVE TextIn'
    <3>1. AtText BY <1>1, <1>4, <2>3 DEF AtText, Letters!Passing
    <3>2. TextIn BY <3>1 DEF LettersInv, EditIs
    <3>3. edit.to \in Letters!Places /\ edit.new \in DOMAIN box[edit.to] BY <3>2 DEF TextIn
    <3>4. \A i \in DOMAIN box[edit.to] : i \in DOMAIN box'[edit.to] /\ box'[edit.to][i] = box[edit.to][i]
      BY <1>7, <3>3, GrownIs
    <3>5. edit.new \in DOMAIN box'[edit.to] /\ box'[edit.to][edit.new] = box[edit.to][edit.new] BY <3>3, <3>4
    <3>6. PICK t2 : t2 = box'[edit.to][edit.new] /\ t2.holds = edit.holds /\ t2.re = edit.re BY <3>2, <3>5 DEF TextIn
    <3> QED BY <1>4, <3>3, <3>5, <3>6 DEF TextIn
  <2> QED BY <1>1, <1>4, <1>14, <2>2, <2>3, PassingEdit
<1>16. InHand' BY <1>1, <1>4, <1>14, PassingHand
<1> QED BY <1>8, <1>10, <1>11, <1>12, <1>13, <1>15, <1>16 DEF LettersInv, Settled

LEMMA NoCopyKeeps == ASSUME LettersAssumed, LettersInv, Letters!NoCopy PROVE LettersInv'
<1>1. /\ edit.state = "given" /\ Letters!Kind # "text" /\ edit' = [edit EXCEPT !.state = "copied"]
      /\ cut' = cut \cup edit.holds
      /\ UNCHANGED << world, box, jobs, echo, sent, draft, dead, hup, hangups, meant, astray >>
  BY DEF Letters!NoCopy
<1>2. Still /\ edit \in AnEdit /\ EditFits(edit) BY <1>1, EditTyped DEF Still, LettersInv, EditIs
<1>3. /\ edit' \in AnEdit /\ edit'.state = "copied" /\ SameLetter /\ Letters!Kind' = Letters!Kind
      /\ edit'.holds = edit.holds
  BY <1>1, <1>2, MovesOn DEF SameLetter
<1>4. edit.state \in Letters!Passing /\ edit'.state \in Letters!Passing BY <1>1, <1>3 DEF Letters!Passing
<1>5. InHand' BY <1>1, <1>3, <1>4, PassingHand
<1>6. EditIs'
  <2>1. EditFits(edit)' BY <1>1, <1>2, <1>3, FitsThen
  <2>2. ~AtText' BY <1>1, <1>3 DEF AtText
  <2> QED BY <1>1, <1>3, <1>4, <2>1, <2>2, PassingEdit
<1>7. edit.holds \subseteq cut' \cup astray' BY <1>1
<1> QED BY <1>1, <1>2, <1>3, <1>5, <1>6, <1>7, Quietly DEF LettersInv, LetterTypes

LEMMA UnlinkKeeps == ASSUME LettersAssumed, LettersInv, Letters!Unlink PROVE LettersInv'
<1>1. /\ edit.state = "copied" /\ draft' = None
      /\ UNCHANGED << world, box, jobs, echo, sent, dead, hup, hangups, meant, astray, cut >>
  BY DEF Letters!Unlink
<1>2. Still /\ edit \in AnEdit /\ edit.holds \in Holding /\ EditFits(edit) /\ dead = None
  BY <1>1, EditTyped DEF Still, LettersInv, EditIs, InHand
<1>3. Letters!InFile' = {} BY <1>1 DEF Letters!InFile
<1>4. Loose(Letters!InFile)' = {} BY <1>3 DEF Loose
<1>5. TextsOk' /\ Settled' BY <1>1, <1>2, StillRight
<1>6. AtText => Letters!Kind = "text" /\ TextIn BY <1>1 DEF AtText, LettersInv, EditIs
<1>7. CASE Letters!Kind = "text" /\ edit.cmd \in {"post", "comment"}
  <2>1. edit' = [edit EXCEPT !.state = "stored"] BY <1>7 DEF Letters!Unlink
  <2>2. /\ edit' \in AnEdit /\ edit'.state = "stored" /\ edit'.new = edit.new /\ SameLetter
        /\ edit'.holds = edit.holds /\ edit'.to = edit.to /\ edit'.cmd = edit.cmd /\ edit'.re = edit.re
    BY <1>2, <2>1, MovesOn DEF SameLetter
  <2>3. AtText /\ AtText' BY <1>1, <1>7, <2>2 DEF AtText, Letters!Passing
  <2>4. Following' BY <1>2, <2>2, <2>3, StillFollowing
  <2>5. LetterTypes' BY <1>1, <1>2, <2>2, StillTypes DEF LettersInv, LetterTypes
  <2>6. EditIs'
    <3>1. EditFits(edit)' BY <1>1, <1>2, <2>2, FitsThen
    <3>2. TextIn' BY <1>1, <1>6, <2>2, <2>3 DEF TextIn
    <3> QED BY <1>1, <1>7, <2>2, <3>1, <3>2 DEF EditIs
  <2>7. InHand'
    <3>1. Ahead' = {} BY <1>3, <2>2 DEF Ahead, Letters!Passing
    <3>2. Loose(Ahead)' = {} BY <3>1 DEF Loose
    <3> QED BY <1>1, <1>2, <1>4, <2>2, <3>2 DEF InHand, NoneWaits, OneSaved, Letters!Passing
  <2> QED BY <1>5, <2>4, <2>5, <2>6, <2>7 DEF LettersInv
<1>8. CASE ~(Letters!Kind = "text" /\ edit.cmd \in {"post", "comment"})
  <2>1. edit' = Letters!Blank BY <1>8 DEF Letters!Unlink
  <2>2. edit' \in AnEdit /\ edit'.holds \in Holding /\ edit'.state = "prompt" BY <2>1, BlankAfter
  <2>3. ~AtText \/ edit.to \notin Letters!Confs \/ edit.holds \subseteq Excused'
    <3>1. ASSUME AtText PROVE edit.cmd = "resume" \/ edit.cmd \in Personally
      BY <1>2, <1>6, <1>8, <3>1 DEF EditFits, Personally
    <3>2. edit.cmd = "resume" => edit.holds \subseteq Excused BY <1>1 DEF LettersInv, EditIs
    <3>3. edit.cmd \in Personally => edit.to \notin Letters!Confs BY <1>2 DEF EditFits
    <3> QED BY <1>1, <3>1, <3>2, <3>3 DEF Excused
  <2>4. Following' BY <1>2, <2>3, StillFollowing
  <2>5. LetterTypes' BY <1>1, <1>2, <2>2, StillTypes DEF LettersInv, LetterTypes
  <2>6. EditIs' /\ InHand' BY <1>1, <1>2, <1>4, <2>2, PutAway
  <2> QED BY <1>5, <2>4, <2>5, <2>6 DEF LettersInv
<1> QED BY <1>7, <1>8

-----------------------------------------------------------------------------
(* The text that is commented gets its reply pointer, the network its job. *)
SameText(t, u) ==
  /\ t.by = u.by /\ t.author = u.author /\ t.mail = u.mail /\ t.from = u.from /\ t.paren = u.paren
  /\ t.id = u.id /\ t.re = u.re /\ t.holds = u.holds /\ u.links \subseteq t.links

LEMMA LinkIs ==
  ASSUME NEW b \in [Letters!Places -> Seq(AText)], NEW c \in Letters!Places, NEW n \in DOMAIN b[c], NEW i \in Nat, NEW d,
         d = [b EXCEPT ![c][n].links = @ \cup {i}]
  PROVE  /\ d \in [Letters!Places -> Seq(AText)] /\ i \in d[c][n].links
         /\ \A e \in Letters!Places : DOMAIN d[e] = DOMAIN b[e] /\ \A k \in DOMAIN b[e] : SameText(d[e][k], b[e][k])
<1>1. b[c] \in Seq(AText) OBVIOUS
<1>2. PICK t, u, s : /\ t = b[c][n] /\ u = [t EXCEPT !.links = @ \cup {i}]
                     /\ s = [b[c] EXCEPT ![n] = u]
  OBVIOUS
<1>3. d = [b EXCEPT ![c] = s] BY <1>2
<1>4. t \in AText /\ t.links \in SUBSET Nat
  <2>1. t \in AText BY <1>1, <1>2
  <2> QED BY <2>1 DEF AText
<1>5. u \in AText /\ SameText(u, t) /\ i \in u.links
  <2>1. t.links \cup {i} \in SUBSET Nat BY <1>4
  <2>2. u = [t EXCEPT !.links = t.links \cup {i}] BY <1>2
  <2> QED BY <1>4, <2>1, <2>2 DEF AText, SameText
<1>6. s \in Seq(AText) /\ DOMAIN s = DOMAIN b[c] /\ s[n] = u /\ \A k \in DOMAIN b[c] : k # n => s[k] = b[c][k]
  BY <1>1, <1>2, <1>5
<1>7. d \in [Letters!Places -> Seq(AText)] /\ d[c] = s /\ \A e \in Letters!Places : e # c => d[e] = b[e]
  BY <1>3, <1>6
<1>8. \A x : SameText(x, x) BY DEF SameText
<1> QED BY <1>2, <1>5, <1>6, <1>7, <1>8

LEMMA FinishKeeps == ASSUME LettersAssumed, LettersInv, Letters!Finish PROVE LettersInv'
<1>1. /\ edit.state = "stored" /\ edit' = Letters!Blank
      /\ box' = (IF Letters!Linked THEN [box EXCEPT ![edit.at][edit.num].links = @ \cup {edit.new}] ELSE box)
      /\ echo' = (IF edit.to \in Ftn THEN echo \cup {<< edit.to, edit.new >>} ELSE echo)
      /\ UNCHANGED << world, jobs, sent, draft, dead, hup, meant, astray, cut >>
  BY DEF Letters!Finish
<1>2. /\ LetterTypes /\ EditFits(edit) /\ edit \in AnEdit /\ dead = None /\ Loose(Letters!InFile) = {}
      /\ edit.cmd \in {"post", "comment"} /\ draft = None
      /\ box[edit.to][edit.new].re = edit.re
  BY <1>1 DEF LettersInv, LetterTypes, EditIs, AtText, TextIn, InHand, NoneWaits
<1>3. /\ box' \in [Letters!Places -> Seq(AText)]
      /\ \A c \in Letters!Places : DOMAIN box'[c] = DOMAIN box[c] /\ \A i \in DOMAIN box[c] : SameText(box'[c][i], box[c][i])
      /\ Letters!Linked => edit.num \in DOMAIN box[edit.at] /\ edit.new \in box'[edit.at][edit.num].links
  <2>1. CASE Letters!Linked
    <3>1. edit.at \in Letters!Places /\ edit.num \in DOMAIN box[edit.at] /\ edit.new \in Nat
      BY <1>2, <2>1 DEF EditFits, Letters!Linked, Letters!Places, AnEdit
    <3>2. box \in [Letters!Places -> Seq(AText)] BY <1>2 DEF LetterTypes
    <3>3. box' = [box EXCEPT ![edit.at][edit.num].links = @ \cup {edit.new}] BY <1>1, <2>1
    <3>4. PICK b, d, at, num, new : b = box /\ d = box' /\ at = edit.at /\ num = edit.num /\ new = edit.new
      OBVIOUS
    <3>5. /\ b \in [Letters!Places -> Seq(AText)] /\ at \in Letters!Places /\ num \in DOMAIN b[at] /\ new \in Nat
          /\ d = [b EXCEPT ![at][num].links = @ \cup {new}]
      BY <3>1, <3>2, <3>3, <3>4
    <3>6. /\ d \in [Letters!Places -> Seq(AText)] /\ new \in d[at][num].links
          /\ \A c \in Letters!Places : DOMAIN d[c] = DOMAIN b[c] /\ \A k \in DOMAIN b[c] : SameText(d[c][k], b[c][k])
      BY <3>5, LinkIs
    <3> QED BY <3>1, <3>4, <3>6
  <2>2. CASE ~Letters!Linked BY <1>1, <1>2, <2>2 DEF LetterTypes, SameText
  <2> QED BY <2>1, <2>2
<1>4. Holding' = Holding /\ \A X : X \in Holding' <=> X \in Holding BY <1>1 DEF Holding
<1>5. edit' \in AnEdit /\ edit'.holds \in Holding /\ edit'.state = "prompt" /\ EditIs' BY <1>1, BlankAfter DEF LettersInv
<1>6. LetterTypes' BY <1>1, <1>2, <1>3, <1>4, <1>5, SameSets DEF LetterTypes
<1>7. TextsOk'
  <2>1. ASSUME NEW c \in Letters!Places, NEW i \in DOMAIN box[c] PROVE TextOk(box'[c][i])
    <3>1. TextOk(box[c][i]) /\ SameText(box'[c][i], box[c][i]) BY <1>3 DEF LettersInv, TextsOk
    <3> QED BY <3>1 DEF TextOk, SameText
  <2>2. \A t : TextOk(t)' <=> TextOk(t) BY <1>1, <1>4, SameSets DEF TextOk, Letters!IsAddress
  <2> QED BY <1>3, <2>1, <2>2 DEF TextsOk
<1>8. Delivered'
  <2>1. ASSUME NEW c \in Letters!Places, NEW i \in DOMAIN box[c], NEW n \in Loose(box'[c][i].holds)
        PROVE  Letters!TextArrives(box'[c][i], c, meant[n])
    <3>1. SameText(box'[c][i], box[c][i]) BY <1>3
    <3>2. Letters!TextArrives(box[c][i], c, meant[n]) BY <3>1 DEF LettersInv, Settled, Delivered, SameText
    <3> QED BY <3>1, <3>2 DEF Letters!TextArrives, Letters!Parent, Letters!Misplaced, SameText
  <2>2. \A t, c, m : Letters!TextArrives(t, c, m)' <=> Letters!TextArrives(t, c, m)
    BY <1>1 DEF Letters!TextArrives, Letters!Parent, Letters!Misplaced
  <2> QED BY <1>1, <1>3, <2>1, <2>2 DEF Delivered, Loose
<1>9. Queued' BY <1>1, SameSets DEF LettersInv, Settled, Queued, Loose, AddressRight, Letters!IsAddress
<1>10. Letters!SentRight'
  BY <1>1 DEF LettersInv, Settled, Letters!SentRight, Letters!Meant, Letters!Known
<1>11. Singles'
  <2>1. \A c \in Letters!Places : \A n : {i \in DOMAIN box'[c] : n \in box'[c][i].holds} = {i \in DOMAIN box[c] : n \in box[c][i].holds}
    BY <1>3 DEF SameText
  <2>2. ASSUME NEW n PROVE InQueues(n)' = InQueues(n) /\ InBoxes(n)' = InBoxes(n) /\ InOwn(n)' = InOwn(n)
    <3>1. InQueues(n)' = InQueues(n) BY <1>1 DEF InQueues
    <3>2. InBoxes(n)' = InBoxes(n) BY <2>1 DEF InBoxes
    <3>3. InOwn(n)' = InOwn(n) BY <2>1 DEF InOwn, Letters!Places
    <3> QED BY <3>1, <3>2, <3>3
  <2>3. ASSUME NEW n, Single(n) PROVE Single(n)'
    <3>1. Waits(n) = FALSE BY <1>1 DEF Waits
    <3> QED BY <1>1, <2>2, <2>3, <3>1 DEF Single, AtMostOne, Letters!Private
  <2> QED BY <1>1, <2>3 DEF LettersInv, Settled, Singles
<1>12. Following'
  <2>1. ASSUME NEW c \in Letters!Confs, NEW i \in DOMAIN box[c] PROVE Linked(box[c][i], c, i)'
    <3>1. c \in Letters!Places BY DEF Letters!Places
    <3>2. SameText(box'[c][i], box[c][i]) BY <1>3, <3>1
    <3>3. CASE Linked(box[c][i], c, i)
      <4>1. \A k \in DOMAIN box[c] : k \in DOMAIN box'[c] /\ box[c][k].links \subseteq box'[c][k].links
        BY <1>3, <3>1 DEF SameText
      <4>2. echo \subseteq echo' BY <1>1
      <4> QED BY <1>1, <3>2, <3>3, <4>1, <4>2 DEF Linked, Clean, Excused, SameText
    <3>4. CASE c = edit.to /\ i = edit.new
      <4>1. box'[c][i].re = edit.re BY <1>2, <3>2, <3>4 DEF SameText
      <4>2. c \in Ftn => << c, i >> \in echo' BY <1>1, <3>4
      <4>3. ASSUME edit.re # None, edit.re.conf = None
            PROVE  edit.re.num \in DOMAIN box'[c] /\ i \in box'[c][edit.re.num].links
        <5>1. /\ edit.cmd = "comment" /\ edit.at \in Letters!Confs
              /\ edit.re = [num |-> edit.num, conf |-> IF edit.to = edit.at THEN None ELSE edit.at]
          BY <1>2, <4>3 DEF EditFits
        <5>2. edit.at # None BY <5>1 DEF Letters!Places, LettersAssumed, Markings
        <5>3. edit.re.num = edit.num /\ edit.to = edit.at BY <4>3, <5>1, <5>2
        <5>4. Letters!Linked BY <5>1, <5>3 DEF Letters!Linked
        <5> QED BY <1>3, <3>1, <3>4, <5>3, <5>4
      <4> QED BY <4>1, <4>2, <4>3 DEF Linked
    <3> QED BY <3>3, <3>4 DEF LettersInv, Following
  <2> QED BY <1>3, <2>1 DEF Following, Letters!Places
<1>13. InHand'
  <2>1. Letters!InFile' = {} BY <1>1, <1>2 DEF Letters!InFile
  <2>2. Ahead' = {} BY <1>5, <2>1 DEF Ahead, Letters!Passing
  <2> QED BY <1>1, <1>2, <1>5, <2>1, <2>2 DEF InHand, NoneWaits, OneSaved, Loose, Letters!Passing
<1> QED BY <1>5, <1>6, <1>7, <1>8, <1>9, <1>10, <1>11, <1>12, <1>13 DEF LettersInv, Settled

-----------------------------------------------------------------------------
LEMMA LettersNext ==
  ASSUME LettersAssumed, LettersInv, [Letters!Next]_(Letters!vars) PROVE LettersInv'
<1>1. CASE UNCHANGED Letters!vars
  <2>1. Still /\ UNCHANGED << edit, draft, dead, hup >> BY <1>1 DEF Still, Letters!vars
  <2>2. Person' = Person /\ Full' = Full /\ Short' = Short BY <2>1, SameSets DEF Still
  <2>3. LetterTypes'
    <3>1. edit \in AnEdit /\ edit.holds \in Holding /\ (draft = None \/ draft \in Holding)
          /\ dead \in {None, Bad} \cup AKeep /\ hup \in {"exec_logout", "abort_edit"}
      BY DEF LettersInv, LetterTypes
    <3> QED BY <2>1, <3>1, StillTypes DEF LettersInv
  <2>4. TextsOk' /\ Settled' BY <2>1, StillRight
  <2>5. UNCHANGED << box, jobs, sent, meant, astray, cut, echo >> BY <1>1 DEF Letters!vars
  <2>6. Following'
    <3>1. UNCHANGED << box, echo, edit, astray, cut >> BY <2>1, <2>5
    <3> QED BY <3>1, KindSame DEF LettersInv, Following, Linked, Clean, Excused, AtText
  <2>7. EditIs'
    <3>1. \A n : InQueues(n)' = InQueues(n) /\ InBoxes(n)' = InBoxes(n) /\ InOwn(n)' = InOwn(n)
      BY <2>5 DEF InQueues, InBoxes, InOwn
    <3>2. CopyDue => CopyDue' BY <2>1, <2>5, <3>1 DEF Still, CopyDue, Loose, Letters!Private
    <3> QED BY <2>1, <2>5, <3>2, KindSame DEF LettersInv, EditIs, EditFits, Excused, AtText, TextIn
  <2>8. InHand'
    <3>1. \A n : Unplaced(n)' <=> Unplaced(n) BY <2>5 DEF Unplaced
    <3>2. \A n : EditRight(edit, meant[n])' <=> EditRight(edit, meant[n])
      BY <2>1, <2>2, <2>5
      DEF EditRight, MailRight, PostRight, CommentRight, KeptRight, AddressRight, Answers, Letters!Target, Letters!IsAddress
    <3>3. \A n : KeptRight(meant[n], dead.conf, dead.re)' <=> KeptRight(meant[n], dead.conf, dead.re)
      BY <2>1, <2>5 DEF KeptRight, Answers, Letters!Target
    <3>4. /\ Ahead' = Ahead /\ Letters!InFile' = Letters!InFile /\ NoneWaits' = NoneWaits /\ OneSaved' = OneSaved
          /\ Excused' = Excused
      BY <2>1, <2>5 DEF Ahead, Letters!InFile, NoneWaits, OneSaved, Excused
    <3>5. Loose(Ahead)' = Loose(Ahead) /\ Loose(Letters!InFile)' = Loose(Letters!InFile)
      BY <2>5, <3>4 DEF Loose
    <3>6. InHand BY DEF LettersInv
    <3> QED BY <2>1, <2>5, <3>1, <3>2, <3>3, <3>4, <3>5, <3>6 DEF InHand
  <2> QED BY <2>3, <2>4, <2>6, <2>7, <2>8 DEF LettersInv
<1>2. CASE Letters!Next
  <2>1. CASE Letters!MailUser \/ Letters!MailFtn \/ Letters!MailOut \/ Letters!Post
    BY <2>1, MailUserKeeps, MailFtnKeeps, MailOutKeeps, PostKeeps
  <2>2. CASE Letters!Personal \/ Letters!Comment \/ Letters!Reply \/ Letters!Move
    BY <2>2, PersonalKeeps, CommentKeeps, ReplyKeeps, MoveKeeps
  <2>3. CASE Letters!Crash \/ Letters!Cancel \/ Letters!Save \/ Letters!Fail \/ Letters!Gone
    BY <2>3, CrashKeeps, CancelKeeps, SaveKeeps, FailureKeeps, GoneKeeps
  <2>4. CASE Letters!SaveText \/ Letters!Finish \/ Letters!Queue \/ Letters!Toss
    BY <2>4, SaveTextKeeps, FinishKeeps, QueueKeeps, JobKeeps
  <2>8. CASE Letters!Copy \/ Letters!NoCopy \/ Letters!Unlink \/ Letters!LeftOver
    BY <2>8, CopyKeeps, NoCopyKeeps, UnlinkKeeps, LeftOverKeeps
  <2>5. CASE Letters!HandMail \/ Letters!HandArticle \/ Letters!HandFollowUp
    BY <2>5, HandMailKeeps, HandArticleKeeps, HandFollowUpKeeps
  <2>6. CASE Letters!Hangup \/ Letters!AbortEdit \/ Letters!AbortNothing
    BY <2>6, HangupKeeps, AbortEditKeeps, AbortNothingKeeps
  <2>7. CASE Letters!Login \/ Letters!Resume \/ Letters!ResumeNothing
    BY <2>7, LoginKeeps, ResumeKeeps, ResumeNothingKeeps
  <2> QED BY <1>2, <2>1, <2>2, <2>3, <2>4, <2>5, <2>6, <2>7, <2>8 DEF Letters!Next
<1> QED BY <1>1, <1>2

-----------------------------------------------------------------------------
(* What the invariant says of the letters.                                 *)
LEMMA CountIs ==
  ASSUME NEW Q, AtMostOne(Q)
  PROVE  Letters!Cardinality(Q) = IF Q = {} THEN 0 ELSE 1
<1>1. Letters!Cardinality(Q) = Cardinality(Q) BY DEF Cardinality, Letters!Cardinality
<1>2. CASE Q = {} BY <1>1, <1>2, FS_EmptySet
<1>3. CASE Q # {}
  <2>1. PICK x : Q = {x} BY <1>3 DEF AtMostOne
  <2> QED BY <1>1, <1>3, <2>1, FS_Singleton
<1> QED BY <1>2, <1>3

LEMMA InvTexts == ASSUME LettersInv PROVE Letters!TextsArrive
BY DEF LettersInv, Settled, Delivered, Letters!TextsArrive, Letters!Meant, Loose

LEMMA InvOnce == ASSUME LettersInv PROVE Letters!Once
<1>1. ASSUME NEW n \in DOMAIN meant \ astray
      PROVE  /\ Letters!Holders(n) <= 1
             /\ IF Letters!Private(meant[n]) THEN Letters!Copies(n) <= IF world.copy THEN Letters!Holders(n) ELSE 0
                ELSE Letters!Holders(n) + Letters!Copies(n) <= 1
             /\ ~(edit.state \in Letters!Passing /\ n \in edit.holds) =>
                  /\ Letters!Holders(n) + Letters!Copies(n) > 0 => n \notin Letters!InFile
                  /\ Letters!Private(meant[n]) /\ world.copy /\ n \notin cut => Letters!Copies(n) = Letters!Holders(n)
  <2>1. Single(n) BY DEF LettersInv, Settled, Singles
  <2>2. Letters!Holders(n) = Letters!Cardinality(InQueues(n)) + Letters!Cardinality(InBoxes(n))
    BY DEF Letters!Holders, InQueues, InBoxes
  <2>3. Letters!Copies(n) = Letters!Cardinality(InOwn(n)) BY DEF Letters!Copies, InOwn
  <2>4. /\ Letters!Cardinality(InQueues(n)) = IF InQueues(n) = {} THEN 0 ELSE 1
        /\ Letters!Cardinality(InBoxes(n)) = IF InBoxes(n) = {} THEN 0 ELSE 1
        /\ Letters!Cardinality(InOwn(n)) = IF InOwn(n) = {} THEN 0 ELSE 1
    BY <2>1, CountIs DEF Single
  <2>5. ASSUME ~(edit.state \in Letters!Passing /\ n \in edit.holds), n \in Letters!InFile
        PROVE  InQueues(n) = {} /\ InBoxes(n) = {} /\ InOwn(n) = {}
    <3>1. n \in Loose(Letters!InFile) BY <2>5 DEF Loose, LettersInv, LetterTypes
    <3>2. ~NoneWaits BY <3>1 DEF LettersInv, InHand
    <3>3. edit.state \notin Letters!Passing BY <2>5 DEF LettersInv, InHand, OneSaved
    <3>4. OneSaved \/ edit.state = "off"
      BY <3>2, <3>3 DEF NoneWaits, OneSaved, LettersInv, LetterTypes, AnEdit, Letters!Passing
    <3>5. n \in Loose(Ahead) BY <3>1, <3>3, <3>4 DEF LettersInv, InHand, OneSaved, Ahead
    <3>6. Unplaced(n) BY <3>5 DEF LettersInv, InHand
    <3> QED BY <3>6 DEF Unplaced, InQueues, InBoxes, InOwn, Letters!Places
  <2>6. InQueues(n) = {} \/ InBoxes(n) = {} BY <2>1 DEF Single
  <2>7. Waits(n) => edit.state \in Letters!Passing /\ n \in edit.holds BY DEF Waits, Letters!Passing
  <2>8. IF Letters!Private(meant[n])
        THEN /\ InOwn(n) # {} => world.copy /\ (InQueues(n) # {} \/ InBoxes(n) # {})
             /\ world.copy /\ (InQueues(n) # {} \/ InBoxes(n) # {}) => InOwn(n) # {} \/ n \in cut \/ Waits(n)
        ELSE InOwn(n) = {} \/ (InQueues(n) = {} /\ InBoxes(n) = {})
    BY <2>1 DEF Single
  <2> QED BY <2>2, <2>3, <2>4, <2>5, <2>6, <2>7, <2>8
<1> QED BY <1>1 DEF Letters!Once

LEMMA InvFollowed == ASSUME LettersInv PROVE Letters!Followed
<1>1. edit.state \notin Letters!Passing \cup {"stored"} => ~AtText BY DEF AtText
<1> QED BY <1>1 DEF LettersInv, Following, Linked, Clean, Excused, Letters!Followed, Letters!IsFollowed

(* Every letter that nothing kept from it is only where it was meant to    *)
(* be, once, and answers what it was written in answer to; its writer has  *)
(* a copy where he wants one; and what belongs to a text in a conference   *)
(* is done, for every set of systems.                                      *)
THEOREM LettersGoWhereMeant ==
  ASSUME LettersAssumed PROVE Letters!Spec => []Letters!LettersArrive
<1>1. Letters!Init => LettersInv BY LettersInits
<1>2. LettersInv /\ [Letters!Next]_(Letters!vars) => LettersInv' BY LettersNext
<1>3. LettersInv => Letters!LettersArrive
  BY InvTexts, InvOnce, InvFollowed DEF LettersInv, Settled, Letters!LettersArrive
<1> QED BY <1>1, <1>2, <1>3, PTL DEF Letters!Spec
=============================================================================
