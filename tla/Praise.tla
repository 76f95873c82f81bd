------------------------------- MODULE Praise -------------------------------
(***************************************************************************)
(* What belongs to a conference beside its texts: its description and the  *)
(* praises of texts, lines of one file (CONFXTRA_FILE).  A praise is added *)
(* under the lock of the file; one is taken back, and the description is   *)
(* changed, by writing the whole file anew without it.                     *)
(***************************************************************************)
EXTENDS Integers, Sequences, FiniteSets, SequencesExt, FiniteSetsExt

CONSTANTS
  Users,
  Creator,    \* the user who may change the description
  Texts,
  Nobody,     \* nobody has an inode locked
  MaxOps      \* bound: commands

VARIABLES
  name,       \* the inode that the name of the file leads to, 0 for none
  inode,      \* the lines of each
  lock,       \* the user who has it locked
  pc, job,    \* what the sessions are at
  \* history:
  ops,
  praised,    \* the praises that were given and not taken back
  dropped,    \* praises that went with a description
  shuffled,   \* a description was added behind praises, or removed
  raced       \* the file was rewritten from a copy that had become old

disk    == << name, inode, lock >>
session == << pc, job >>
history == << praised, dropped, shuffled, raced >>
vars    == << disk, session, ops, history >>

Hiss  == [is |-> "hiss"]
Desc  == [is |-> "desc"]
Value == [is |-> "value"]
Praise(u, t) == [is |-> "praise", user |-> u, text |-> t]
NoJob == [op |-> "none"]

Init ==
  /\ name = 0 /\ inode = << >> /\ lock = << >>
  /\ pc = [u \in Users |-> "idle"] /\ job = [u \in Users |-> NoJob]
  /\ ops = 0 /\ praised = {} /\ dropped = {} /\ shuffled = FALSE /\ raced = FALSE

-----------------------------------------------------------------------------
(* The sections of the file.                                               *)
At(s, line) == {i \in DOMAIN s : s[i] = line}
Lowest(S) == IF S = {} THEN 0 ELSE Min(S)

(* The praises that cmd_like looks at: up to the next header.              *)
Block(s) ==
  LET h == Lowest(At(s, Hiss))
      next == Lowest({i \in At(s, Hiss) \cup At(s, Desc) : i > h})
  IN IF h = 0 THEN {} ELSE {s[i] : i \in h + 1 .. (IF next = 0 THEN Len(s) ELSE next - 1)}

(* get_conf_likes: wherever they are.                                      *)
Praises(s) == SelectSeq(s, LAMBDA line : line.is = "praise")

(* write_confxtra_section: in its old place, else at the end.              *)
WithDescription(s) ==
  LET d == Lowest(At(s, Desc)) IN
  IF d = 0 THEN s \o << Desc, Value >> ELSE SubSeq(s, 1, d) \o << Value >> \o SubSeq(s, d + 2, Len(s))

(* remove_confxtra_section: the header, and the two lines after it.        *)
SkipSection(acc, line) ==
  IF acc.skip = 0 /\ line = Desc THEN [acc EXCEPT !.skip = 2]
  ELSE IF acc.skip > 0 THEN [acc EXCEPT !.skip = @ - 1] ELSE [acc EXCEPT !.out = Append(@, line)]
WithoutDescription(s) == FoldLeft(SkipSection, [out |-> << >>, skip |-> 0], s).out

(* A file is written from its beginning over what has been added to it     *)
(* since it was cut; lines are taken to be of one length.                  *)
Over(new, old) == new \o SubSeq(old, Len(new) + 1, Len(old))

-----------------------------------------------------------------------------
(* Who has read the file and has yet to write it.                          *)
Rewriting == {"truncate", "rewrite", "rename"}

(* Where u goes; the copies of others are old now, and so is what somebody *)
(* is about to add when the file was replaced.                             *)
Goto(u, p, j) == pc' = [pc EXCEPT ![u] = p] /\ job' = [job EXCEPT ![u] = j]
GotoWriting(u, p, j, old) ==
  /\ pc' = [pc EXCEPT ![u] = p]
  /\ job' = [v \in Users |-> IF v = u THEN j
                             ELSE IF pc[v] \in old THEN [job[v] EXCEPT !.stale = TRUE] ELSE job[v]]

Asks(u) == pc[u] = "idle" /\ ops < MaxOps /\ ops' = ops + 1
Cut     == \E v \in Users : pc[v] = "rewrite"

(* cmd_like and cmd_unlike begin alike: the file is made, then locked.     *)
Open(u, op, t) ==
  /\ Asks(u)
  /\ \/ name # 0 /\ UNCHANGED disk
     \/ name = 0 /\ name' = 1 /\ inode' = << << >> >> /\ lock' = << Nobody >>
  /\ Goto(u, "wait", [op |-> op, line |-> Praise(u, t), fd |-> name'])
  /\ UNCHANGED history

GiveUp(u) ==
  /\ pc[u] = "wait" /\ lock[job[u].fd] # Nobody /\ Goto(u, "idle", NoJob)
  /\ UNCHANGED << disk, ops, history >>

(* Mutant: the lock is not waited for.                                     *)
LikeUnlocked(u) ==
  LET buf == inode[job[u].fd] IN
  /\ pc[u] = "wait" /\ job[u].op = "like"
  /\ \/ job[u].line \in Block(buf) /\ Goto(u, "idle", NoJob) /\ UNCHANGED lock
     \/ /\ job[u].line \notin Block(buf) /\ lock' = [lock EXCEPT ![job[u].fd] = u]
        /\ Goto(u, "append", [fd |-> job[u].fd, stale |-> Cut \/ job[u].fd # name,
                              line |-> job[u].line, first |-> At(buf, Hiss) = {}])
  /\ UNCHANGED << name, inode, ops, history >>

(* One praise is enough; the file stays locked until a new one is added.   *)
Like(u) ==
  LET buf == inode[job[u].fd] IN
  /\ pc[u] = "wait" /\ job[u].op = "like" /\ lock[job[u].fd] = Nobody
  /\ \/ job[u].line \in Block(buf) /\ Goto(u, "idle", NoJob) /\ UNCHANGED lock
     \/ /\ job[u].line \notin Block(buf) /\ lock' = [lock EXCEPT ![job[u].fd] = u]
        /\ Goto(u, "append", [fd |-> job[u].fd, stale |-> Cut \/ job[u].fd # name,
                              line |-> job[u].line, first |-> At(buf, Hiss) = {}])
  /\ UNCHANGED << name, inode, ops, history >>

(* fopen with "a", by name: at the end of the file that is there now.      *)
AppendLike(u) ==
  LET j == job[u] IN
  /\ pc[u] = "append"
  /\ inode' = [inode EXCEPT ![name] = @ \o (IF j.first THEN << Hiss >> ELSE << >>) \o << j.line >>]
  /\ lock' = [lock EXCEPT ![j.fd] = Nobody]
  /\ praised' = praised \cup {j.line} /\ dropped' = dropped \ {j.line}
  /\ raced' = (raced \/ j.stale)
  /\ GotoWriting(u, "idle", NoJob, Rewriting)
  /\ UNCHANGED << name, ops, shuffled >>

(* cmd_unlike lets go of the lock before it changes the file.              *)
Unlike(u) ==
  LET buf == inode[job[u].fd]
      new == SelectSeq(buf, LAMBDA line : line # job[u].line)
  IN
  /\ pc[u] = "wait" /\ job[u].op = "unlike" /\ lock[job[u].fd] = Nobody
  /\ IF new = buf THEN Goto(u, "idle", NoJob)
     ELSE Goto(u, "truncate", [stale |-> Cut \/ job[u].fd # name, line |-> job[u].line, out |-> new])
  /\ UNCHANGED << disk, ops, history >>

Truncate(u) ==
  /\ pc[u] = "truncate" /\ inode' = [inode EXCEPT ![name] = << >>]
  /\ GotoWriting(u, "rewrite", [job[u] EXCEPT !.stale = FALSE] @@ [fd |-> name],
                 Rewriting \cup {"append"})
  /\ raced' = (raced \/ job[u].stale)
  /\ UNCHANGED << name, lock, ops, praised, dropped, shuffled >>

Rewrite(u) ==
  /\ pc[u] = "rewrite"
  /\ inode' = [inode EXCEPT ![job[u].fd] = Over(job[u].out, @)]
  /\ GotoWriting(u, "idle", NoJob, Rewriting \cup {"append"})
  /\ praised' = praised \ {job[u].line}
  /\ raced' = (raced \/ job[u].stale)
  /\ UNCHANGED << name, lock, ops, dropped, shuffled >>

(* cmd_change_cdesc, cmd_mod_conf, cmd_create_conf: a copy of the file,    *)
(* which is then renamed over it.                                          *)
CopyWith(u) ==
  LET s == IF name = 0 THEN << >> ELSE inode[name] IN
  /\ Asks(u) /\ u = Creator
  /\ Goto(u, "rename", [stale |-> Cut, out |-> WithDescription(s), lost |-> {},
                        shuffles |-> At(s, Desc) = {} /\ At(s, Hiss) # {}])
  /\ UNCHANGED << disk, history >>

CopyWithout(u) ==
  LET s == inode[name]
      out == WithoutDescription(s)
  IN
  /\ name # 0 /\ Asks(u) /\ u = Creator
  /\ Goto(u, "rename", [stale |-> Cut, out |-> out, shuffles |-> TRUE,
                        lost |-> ToSet(Praises(s)) \ ToSet(Praises(out))])
  /\ UNCHANGED << disk, history >>

Rename(u) ==
  /\ pc[u] = "rename"
  /\ inode' = Append(inode, job[u].out) /\ lock' = Append(lock, Nobody) /\ name' = Len(inode')
  /\ GotoWriting(u, "idle", NoJob, Rewriting \cup {"append"})
  /\ dropped' = dropped \cup job[u].lost
  /\ shuffled' = (shuffled \/ job[u].shuffles)
  /\ raced' = (raced \/ job[u].stale)
  /\ UNCHANGED << ops, praised >>

(* A session ends: its lock is free, a file it has cut stays empty.        *)
Die(u) ==
  /\ pc[u] # "idle" /\ Goto(u, "idle", NoJob)
  /\ lock' = [i \in DOMAIN lock |-> IF lock[i] = u THEN Nobody ELSE lock[i]]
  /\ raced' = (raced \/ pc[u] = "rewrite")
  /\ UNCHANGED << name, inode, ops, praised, dropped, shuffled >>

Next ==
  \E u \in Users :
    \/ \E t \in Texts, op \in {"like", "unlike"} : Open(u, op, t)
    \/ GiveUp(u) \/ Like(u) \/ AppendLike(u) \/ Unlike(u) \/ Truncate(u) \/ Rewrite(u)
    \/ CopyWith(u) \/ CopyWithout(u) \/ Rename(u) \/ Die(u)

Spec == Init /\ [][Next]_vars

-----------------------------------------------------------------------------
Now == IF name = 0 THEN << >> ELSE Praises(inode[name])

(* cmd_like, cmd_unlike: whatever sessions do at a time, the praises shown *)
(* are those given and not taken back, each of them once; as long as no    *)
(* file was rewritten from an old copy, and but for those that went with a *)
(* description.  When one was put behind praises or removed, cmd_like does *)
(* not see all of them, and one may be given twice.                        *)
PraisesKept ==
  ~raced /\ ~Cut =>
    /\ ToSet(Now) = praised \ dropped
    /\ ~shuffled => \A i, j \in DOMAIN Now : Now[i] = Now[j] => i = j
=============================================================================
