------------------------------ MODULE Posting ------------------------------
(***************************************************************************)
(* How texts get their numbers.  CONF_FILE holds one line per conference   *)
(* with its last_text.  A session that saves a text (save_text; send_news  *)
(* and the other tossers that use open_file do the same) locks CONF_FILE,  *)
(* reads it, writes the file of text last_text + 1, writes CONF_FILE back  *)
(* and closes it.  A moderator who changes a conference (cmd_mod_conf)     *)
(* copies its line, answers questions, and stores the line.  ftntoss does  *)
(* not lock: it renames a new file over CONF_FILE, then writes the text.   *)
(*                                                                         *)
(* A lock (flock) belongs to the inode that was opened, not to the name    *)
(* CONF_FILE, and it ends with the process that holds it.                  *)
(***************************************************************************)
EXTENDS Integers, Sequences

CONSTANTS
  Confs,        \* the conferences
  Sessions,     \* processes that save texts with save_text
  Moderators,   \* processes that run cmd_mod_conf
  Tossers,      \* ftntoss processes
  None,         \* no process
  Posted,       \* the conferences texts are posted in,
  Edited,       \* and those that moderators change
  MaxPosts      \* bound: texts that anybody begins to save

Procs == Sessions \cup Moderators \cup Tossers

ASSUME ProcsAssumption ==
  /\ None \notin Procs
  /\ Sessions \cap Moderators = {} /\ Sessions \cap Tossers = {}
  /\ Moderators \cap Tossers = {}
ASSUME ConfsAssumption == Confs # {} /\ Posted \subseteq Confs /\ Edited \subseteq Confs
ASSUME MaxPostsAssumption == MaxPosts \in Nat

VARIABLES
  conf_file,   \* the inode that the name CONF_FILE leads to
  inode,       \* its content, last_text per conference, and that of old ones
  holder,      \* per inode, the process that has it locked
  text,        \* per conference, what the text files hold that exist
  posts,       \* texts begun so far; a text is known by its place in them
  ftnlock,     \* the tosser that created FTNTOSS_LOCKFILE
  pc,          \* per process, where it is
  conf,        \* ... the conference it works on
  fd,          \* ... the inode it has open
  buf,         \* ... what it is going to write to CONF_FILE
  mine,        \* ... the text it saves
  copy         \* ... the last_text a moderator copied

table == << conf_file, inode, holder >>
local == << conf, fd, buf, mine, copy >>
vars  == << table, text, posts, ftnlock, pc, local >>

Texts == 1 .. MaxPosts
Empty == 0      \* the file is created, nothing is written yet

Labels == {"ready", "lock", "wait", "create", "write", "publish", "done",
           "ask", "store", "rename", "file"}

(* What CONF_FILE says now.                                                *)
Last == inode[conf_file]

(* The number of the text a process saves.                                 *)
Number(p) == buf[p][conf[p]]

(* The text file of that number now holds x.                               *)
TextFile(p, x) ==
  text' = [text EXCEPT ![conf[p]] =
             [n \in DOMAIN @ \cup {Number(p)} |-> IF n = Number(p) THEN x ELSE @[n]]]

Go(p, from, to) == pc[p] = from /\ pc' = [pc EXCEPT ![p] = to]

Init ==
  /\ conf_file = 1
  /\ inode = << [c \in Confs |-> 0] >>
  /\ holder = << None >>
  /\ text = [c \in Confs |-> <<>>]
  /\ posts = 0
  /\ ftnlock = None
  /\ pc = [p \in Procs |-> "ready"]
  /\ conf = [p \in Procs |-> CHOOSE c \in Confs : TRUE]
  /\ fd = [p \in Procs |-> 1]
  /\ buf = [p \in Procs |-> [c \in Confs |-> 0]]
  /\ mine = [p \in Procs |-> 0]
  /\ copy = [p \in Procs |-> 0]

-----------------------------------------------------------------------------
(* open_file(CONF_FILE): open, then flock, again and again for 30 seconds. *)

NewText(p, c) ==
  /\ posts < MaxPosts
  /\ posts' = posts + 1
  /\ mine' = [mine EXCEPT ![p] = posts + 1]
  /\ conf' = [conf EXCEPT ![p] = c]

Save(s, c) ==
  /\ Go(s, "ready", "lock")
  /\ NewText(s, c)
  /\ fd' = [fd EXCEPT ![s] = conf_file]
  /\ UNCHANGED << table, text, ftnlock, buf, copy >>

(* A moderator first has his copy of the line, then his questions.         *)
Ask(m, c) ==
  /\ Go(m, "ready", "ask")
  /\ holder[conf_file] = None
  /\ conf' = [conf EXCEPT ![m] = c]
  /\ copy' = [copy EXCEPT ![m] = Last[c]]
  /\ UNCHANGED << table, text, posts, ftnlock, fd, buf, mine >>

Answered(m) ==
  /\ Go(m, "ask", "lock")
  /\ fd' = [fd EXCEPT ![m] = conf_file]
  /\ UNCHANGED << table, text, posts, ftnlock, conf, buf, mine, copy >>

(* Mutant: last_text is not counted up.                                    *)
ReplacedSame(p) ==
  [inode[fd[p]] EXCEPT ![conf[p]] = IF p \in Sessions THEN @ ELSE copy[p]]

(* replace_conf in the buffer just read: one more text, or the copy.       *)
Replaced(p) ==
  [inode[fd[p]] EXCEPT ![conf[p]] = IF p \in Sessions THEN @ + 1 ELSE copy[p]]

(* Mutant: somebody else's lock does not stop anybody.                     *)
LockAnyway(p) ==
  /\ pc[p] \in {"lock", "wait"}
  /\ holder' = [holder EXCEPT ![fd[p]] = p]
  /\ buf' = [buf EXCEPT ![p] = Replaced(p)]
  /\ pc' = [pc EXCEPT ![p] = IF p \in Sessions THEN "create" ELSE "store"]
  /\ UNCHANGED << conf_file, inode, text, posts, ftnlock, conf, fd, mine, copy >>

Lock(p) ==
  /\ pc[p] \in {"lock", "wait"}
  /\ holder[fd[p]] = None
  /\ holder' = [holder EXCEPT ![fd[p]] = p]
  /\ buf' = [buf EXCEPT ![p] = Replaced(p)]
  /\ pc' = [pc EXCEPT ![p] = IF p \in Sessions THEN "create" ELSE "store"]
  /\ UNCHANGED << conf_file, inode, text, posts, ftnlock, conf, fd, mine, copy >>

Wait(p) ==
  /\ Go(p, "lock", "wait")
  /\ holder[fd[p]] # None
  /\ UNCHANGED << table, text, posts, ftnlock, local >>

(* Mutant: there is no end to the waiting.                                 *)
GiveUpNever(p) == FALSE /\ UNCHANGED vars

GiveUp(p) ==
  /\ Go(p, "wait", "ready")
  /\ UNCHANGED << table, text, posts, ftnlock, local >>

(* write_file and close_file on CONF_FILE.                                 *)
WriteConf(p) ==
  /\ inode' = [inode EXCEPT ![fd[p]] = buf[p]]
  /\ holder' = [holder EXCEPT ![fd[p]] = None]
  /\ UNCHANGED << conf_file, text, posts, ftnlock, local >>

-----------------------------------------------------------------------------
(* The rest of save_text.                                                  *)

(* The text file is opened with O_CREAT, and no O_EXCL.                    *)
Create(s) ==
  /\ Go(s, "create", "write")
  /\ IF Number(s) \in DOMAIN text[conf[s]] THEN UNCHANGED text ELSE TextFile(s, Empty)
  /\ UNCHANGED << table, posts, ftnlock, local >>

(* Mutant: CONF_FILE is written before the text.                           *)
WriteTextLater(s) ==
  /\ Go(s, "write", "publish")
  /\ UNCHANGED << table, text, posts, ftnlock, local >>

WriteText(s) ==
  /\ Go(s, "write", "publish")
  /\ TextFile(s, mine[s])
  /\ UNCHANGED << table, posts, ftnlock, local >>

Publish(s) == Go(s, "publish", "done") /\ WriteConf(s)

(* The others are notified and the number is returned.                     *)
Announce(p) ==
  /\ Go(p, "done", "ready")
  /\ ftnlock' = IF p = ftnlock THEN None ELSE ftnlock
  /\ UNCHANGED << table, text, posts, local >>

(* Every early return of save_text leaves CONF_FILE open, hence locked     *)
(* until the process ends, and the text file as it is.                     *)
SaveFails(s) ==
  /\ pc[s] \in {"create", "write", "publish"}
  /\ pc' = [pc EXCEPT ![s] = "ready"]
  /\ UNCHANGED << table, text, posts, ftnlock, local >>

(* conf_store_entry stores a moderator's line.                             *)
Store(m) == Go(m, "store", "ready") /\ WriteConf(m)

-----------------------------------------------------------------------------
(* ftntoss, one process at a time: it begins by creating FTNTOSS_LOCKFILE. *)

(* Mutant: FTNTOSS_LOCKFILE is overwritten when it exists.                 *)
TossUnlocked(t, c) ==
  /\ Go(t, "ready", "rename")
  /\ ftnlock' = t
  /\ NewText(t, c)
  /\ buf' = [buf EXCEPT ![t] = [Last EXCEPT ![c] = @ + 1]]
  /\ UNCHANGED << table, text, fd, copy >>

(* rewrite_conf_last_text reads CONF_FILE, locked or not, ...              *)
Toss(t, c) ==
  /\ Go(t, "ready", "rename")
  /\ ftnlock = None /\ ftnlock' = t
  /\ NewText(t, c)
  /\ buf' = [buf EXCEPT ![t] = [Last EXCEPT ![c] = @ + 1]]
  /\ UNCHANGED << table, text, fd, copy >>

(* ... and gives the name to a new file.                                   *)
Rename(t) ==
  /\ Go(t, "rename", "file")
  /\ inode' = Append(inode, buf[t])
  /\ holder' = Append(holder, None)
  /\ conf_file' = Len(inode) + 1
  /\ UNCHANGED << text, posts, ftnlock, local >>

(* The rest of send_ftn: fopen(path, "w").                                 *)
TossText(t) ==
  /\ Go(t, "file", "done")
  /\ TextFile(t, mine[t])
  /\ UNCHANGED << table, posts, ftnlock, local >>

(* The lock file of a dead process is removed by hand.                     *)
RemoveLock(t) ==
  /\ ftnlock = t /\ pc[t] = "ready"
  /\ ftnlock' = None
  /\ UNCHANGED << table, text, posts, pc, local >>

-----------------------------------------------------------------------------
(* cmd_delete_text, by the author.                                         *)
Delete(c, n) ==
  /\ n <= Last[c] /\ text[c][n] # Empty
  /\ text' = [text EXCEPT ![c] = [m \in DOMAIN @ \ {n} |-> @[m]]]
  /\ UNCHANGED << table, posts, ftnlock, pc, local >>

(* A process dies, and with it its locks; another one takes its name.      *)
Die(p) ==
  /\ pc' = [pc EXCEPT ![p] = "ready"]
  /\ holder' = [i \in DOMAIN holder |-> IF holder[i] = p THEN None ELSE holder[i]]
  /\ UNCHANGED << conf_file, inode, text, posts, ftnlock, local >>

-----------------------------------------------------------------------------
SessionStep(s) ==
  Lock(s) \/ Wait(s) \/ GiveUp(s) \/ Create(s) \/ WriteText(s) \/ Publish(s) \/ Announce(s)

ModeratorStep(m) == Answered(m) \/ Lock(m) \/ Wait(m) \/ GiveUp(m) \/ Store(m)

TosserStep(t) == Rename(t) \/ TossText(t) \/ Announce(t)

Next ==
  \/ \E s \in Sessions :
       SessionStep(s) \/ SaveFails(s) \/ \E c \in Posted : Save(s, c)
  \/ \E m \in Moderators : ModeratorStep(m) \/ \E c \in Edited : Ask(m, c)
  \/ \E t \in Tossers : TosserStep(t) \/ RemoveLock(t) \/ \E c \in Posted : Toss(t, c)
  \/ \E c \in Confs : \E n \in DOMAIN text[c] : Delete(c, n)
  \/ \E p \in Procs : Die(p)

(* A process runs on; nobody has to save a text, to answer or to die.      *)
Spec ==
  /\ Init /\ [][Next]_vars
  /\ \A s \in Sessions : WF_vars(SessionStep(s))

-----------------------------------------------------------------------------
TypeOK ==
  /\ conf_file \in DOMAIN inode
  /\ inode \in Seq([Confs -> Nat])
  /\ holder \in Seq(Procs \cup {None}) /\ Len(holder) = Len(inode)
  /\ DOMAIN text = Confs
  /\ \A c \in Confs : /\ DOMAIN text[c] \subseteq Nat \ {0}
                       /\ \A n \in DOMAIN text[c] : text[c][n] \in Texts \cup {Empty}
  /\ posts \in 0 .. MaxPosts
  /\ ftnlock \in Tossers \cup {None}
  /\ pc \in [Procs -> Labels]
  /\ conf \in [Procs -> Confs]
  /\ fd \in [Procs -> DOMAIN inode]
  /\ buf \in [Procs -> [Confs -> Nat]]
  /\ mine \in [Procs -> 0 .. MaxPosts]
  /\ copy \in [Procs -> Nat]

(* When save_text or send_ftn is about to return a number, CONF_FILE       *)
(* counts that number and the file of that number holds the text just      *)
(* saved, unless its author was quick to delete it: nobody else was given  *)
(* the number, and nobody took the count back.                             *)
Announced ==
  \A p \in Sessions \cup Tossers : pc[p] = "done" =>
    /\ Number(p) <= Last[conf[p]]
    /\ Number(p) \in DOMAIN text[conf[p]] => text[conf[p]][Number(p)] = mine[p]

(* The conferences are the logs they promise to be: numbers are given one  *)
(* after the other, a number counts only when its text is written, and no  *)
(* published text is replaced, whoever dies or fails on the way.           *)
NoText == 0
LogOf(c) == [n \in 1 .. Last[c] |-> IF n \in DOMAIN text[c] THEN text[c][n] ELSE NoText]
Log == INSTANCE TextLog WITH log <- [c \in Confs |-> LogOf(c)]
ImplementsTextLog == Log!Spec

(* A session that saves a text comes back, whoever sits on the lock: after *)
(* 30 seconds save_text returns an error.                                  *)
SaveEnds == \A s \in Sessions : pc[s] = "lock" ~> pc[s] = "ready"
=============================================================================
