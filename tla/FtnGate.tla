------------------------------ MODULE FtnGate ------------------------------
(***************************************************************************)
(* One FTN conference and the programs that move its messages: sessions    *)
(* that save texts and queue them for export, ftnqueue-runner, which cron  *)
(* starts over and over, ftntoss, which runs under one lock file, and      *)
(* CrashMail, which puts messages into the area's spool.                   *)
(*                                                                         *)
(* A process can be killed at every step: its lock file stays, and so does *)
(* what it has half done.  Old locks are reported by mail, once, with a    *)
(* second file as marker.                                                  *)
(***************************************************************************)
EXTENDS FtnPlan

CONSTANTS
  Tossers,    \* processes that run ftntoss by hand or from cron
  Runners,    \* processes that run ftnqueue-runner
  None,
  Spools,     \* what may be in the spool at first
  Arrivals,   \* bound: what CrashMail may put in the spool later: [id, reply, re, bad]
  MaxText,    \* bound: the last text that a session saves
  MaxMsg,     \* bound: the last number in the spool that CrashMail uses
  MaxRuns,    \* bound: commands started by hand, without those that are killed
  MaxStops    \* bound: kills, signals, failures and deletions

Procs == Tossers \cup Runners

(* A message as build_spool_index reads it from a file of the area; its    *)
(* MSGID was made here or elsewhere.                                       *)
Ids     == {"none", "own", "net"} \X Nat
Header  == [id : Ids, reply : Ids, re : BOOLEAN, bad : BOOLEAN]
Msgs    == [file : Nat \ {0}, id : Ids, reply : Ids, re : BOOLEAN, bad : BOOLEAN]

(* A spool is a directory: it has a file once.                             *)
ASSUME ProcsAssumption ==
  IsFiniteSet(Procs) /\ Tossers \cap Runners = {} /\ None \notin Procs
ASSUME SpoolsAssumption ==
  /\ \A s \in Spools : /\ IsFiniteSet(s) /\ s \subseteq Msgs
                       /\ \A m, k \in s : m.file = k.file => m = k
  /\ Arrivals \subseteq Header

(* At first text 1 is there, and only it can have an MSGID in the spool.   *)
ASSUME OwnAssumption == \A s \in Spools : \A m \in s : m.id[1] = "own" => m.id[2] <= 1

VARIABLES
  last,       \* last_text of the conference in CONF_FILE
  texts,      \* every text ever written: [id, reply, local, com]
  deleted,    \* the texts that do not exist any more
  links,      \* the comment links in the text files: << text, comment >>
  spool,      \* the files of the area: [file, id, reply, re, bad]
  saved,      \* texts that were saved and are not queued yet
  queue,      \* the export jobs
  exported,   \* the texts whose job was done
  lock,       \* FTNTOSS_LOCKFILE: [held, by, old]
  marker,     \* FTNTOSS_LOCK_NOTIFY_FILE
  mails,      \* warnings mailed about the lock that is there
  failed,     \* warnings that could not be mailed
  rundir,     \* runner.lock
  st,         \* the processes
  runs, stops

conf == << last, texts, deleted, links >>
files == << spool, saved, queue, exported >>
locks == << lock, marker, mails, failed >>
vars == << conf, files, locks, rundir, st, runs, stops >>

Kinds == {"all", "unsafe", "one"}
Labels == {"idle", "lock", "warn", "mail", "scan", "index", "loop", "write", "link", "free",
           "next", "path", "put", "rm"}

Idle == [pc |-> "idle", kind |-> "all", at |-> 0, refs |-> <<>>, known |-> {}, items |-> <<>>,
         told |-> {}, pos |-> 1, changed |-> FALSE, num |-> 0, done |-> FALSE,
         late |-> FALSE, jobs |-> {}, file |-> 0, reply |-> NoId]

Existing == DOMAIN texts \ deleted
Stored   == [n \in Existing |-> texts[n]]
MaxFile  == Max({1} \cup { m.file : m \in spool })

Init ==
  /\ last = 1
  /\ texts = [n \in {1} |-> [id |-> NoId, reply |-> NoId, local |-> TRUE, com |-> 0]]
  /\ deleted = {} /\ links = {}
  /\ spool \in Spools
  /\ saved = {} /\ queue = {} /\ exported = {}
  /\ lock = [held |-> FALSE, by |-> None, old |-> FALSE]
  /\ marker = FALSE /\ mails = 0 /\ failed = 0
  /\ rundir = FALSE
  /\ st = [p \in Procs |-> Idle]
  /\ runs = 0 /\ stops = 0

-----------------------------------------------------------------------------
(* Sessions and CrashMail.                                                 *)

(* The texts when number n has been written.                               *)
With(n, text) == [k \in DOMAIN texts \cup {n} |-> IF k = n THEN text ELSE texts[k]]

(* The text, then its job; a session that ends in between queues nothing.  *)
SaveText ==
  /\ last < MaxText
  /\ \E com \in {0} \cup Existing :
       /\ texts' = With(last + 1, [id |-> NoId, reply |-> NoId, local |-> TRUE, com |-> com])
       /\ links' = IF com = 0 THEN links ELSE links \cup {<< com, last + 1 >>}
  /\ last' = last + 1
  /\ saved' = saved \cup {last + 1}
  /\ UNCHANGED << deleted, spool, queue, exported, locks, rundir, st, runs, stops >>

QueueExport(n) ==
  /\ n \in saved
  /\ saved' = saved \ {n} /\ queue' = queue \cup {n}
  /\ UNCHANGED << conf, spool, exported, locks, rundir, st, runs, stops >>

(* A stop: something that may happen MaxStops times.                       *)
Stop == stops < MaxStops /\ stops' = stops + 1

SessionEnds(n) ==
  /\ Stop /\ n \in saved
  /\ saved' = saved \ {n}
  /\ UNCHANGED << conf, spool, queue, exported, locks, rundir, st, runs >>

DeleteText(n) ==
  /\ Stop /\ n \in Existing
  /\ deleted' = deleted \cup {n}
  /\ links' = { l \in links : l[1] # n }
  /\ UNCHANGED << last, texts, files, locks, rundir, st, runs >>

(* A message with an MSGID of this system is the echo of one that was      *)
(* exported.                                                               *)
Arrive ==
  /\ MaxFile < MaxMsg
  /\ \E a \in Arrivals :
       /\ a.id[1] = "own" => a.id[2] <= 1 \/ \E m \in spool : m.id = a.id
       /\ spool' = spool \cup {[file |-> MaxFile + 1, id |-> a.id, reply |-> a.reply,
                                re |-> a.re, bad |-> a.bad]}
  /\ UNCHANGED << conf, saved, queue, exported, locks, rundir, st, runs, stops >>

-----------------------------------------------------------------------------
(* The lock.                                                               *)

At(p, label) == st[p].pc = label
Goto(p, label) == st' = [st EXCEPT ![p].pc = label]

(* Where a command goes that did not get the lock: the runner keeps its    *)
(* job and takes the next one.                                             *)
Refused(p) == IF p \in Runners THEN "next" ELSE "idle"

AcquireAnyway(p) ==
  /\ At(p, "lock")
  /\ lock' = [held |-> TRUE, by |-> p, old |-> FALSE]
  /\ Goto(p, IF p \in Runners THEN "path" ELSE "scan")
  /\ UNCHANGED << conf, files, marker, mails, failed, rundir, runs, stops >>

Acquire(p) ==
  /\ At(p, "lock") /\ ~lock.held
  /\ lock' = [held |-> TRUE, by |-> p, old |-> FALSE]
  /\ marker' = FALSE /\ mails' = 0
  /\ st' = [q \in Procs |->
              IF q = p THEN [st[q] EXCEPT !.pc = IF p \in Runners THEN "path" ELSE "scan"]
              ELSE [st[q] EXCEPT !.late = @ \/ st[q].pc \in {"warn", "mail"}]]
  /\ UNCHANGED << conf, files, failed, rundir, runs, stops >>

Busy(p) ==
  /\ At(p, "lock") /\ lock.held
  /\ st' = [st EXCEPT ![p].pc = IF lock.old THEN "warn" ELSE Refused(p), ![p].late = FALSE]
  /\ UNCHANGED << conf, files, locks, rundir, runs, stops >>

MarkAnyway(p) ==
  /\ At(p, "warn")
  /\ marker' = TRUE
  /\ Goto(p, "mail")
  /\ UNCHANGED << conf, files, lock, mails, failed, rundir, runs, stops >>

Mark(p) ==
  /\ At(p, "warn")
  /\ marker' = TRUE
  /\ Goto(p, IF marker THEN Refused(p) ELSE "mail")
  /\ UNCHANGED << conf, files, lock, mails, failed, rundir, runs, stops >>

SendLockMail(p) ==
  /\ At(p, "mail")
  /\ \/ mails' = (IF st[p].late THEN mails ELSE mails + 1) /\ UNCHANGED << marker, failed, stops >>
     \/ Stop /\ failed' = failed + 1 /\ marker' = FALSE /\ UNCHANGED mails
  /\ Goto(p, Refused(p))
  /\ UNCHANGED << conf, files, lock, rundir, runs >>

ReleaseDone(p) ==
  /\ At(p, "free")
  /\ lock' = [held |-> FALSE, by |-> None, old |-> FALSE]
  /\ st' = [st EXCEPT ![p] =
              IF p \in Tossers THEN Idle
              ELSE [Idle EXCEPT !.pc = "rm", !.jobs = st[p].jobs, !.at = st[p].at]]
  /\ UNCHANGED << conf, files, marker, mails, failed, rundir, runs, stops >>

Release(p) ==
  /\ At(p, "free")
  /\ lock' = [held |-> FALSE, by |-> None, old |-> FALSE]
  /\ st' = [st EXCEPT ![p] =
              IF p \in Tossers THEN Idle
              ELSE [Idle EXCEPT !.pc = IF st[p].done THEN "rm" ELSE "next", !.jobs = st[p].jobs,
                                !.at = st[p].at]]
  /\ UNCHANGED << conf, files, marker, mails, failed, rundir, runs, stops >>

Age ==
  /\ lock.held /\ ~lock.old
  /\ lock' = [lock EXCEPT !.old = TRUE]
  /\ UNCHANGED << conf, files, marker, mails, failed, rundir, st, runs, stops >>

(* The operator removes the files of processes that are dead.              *)
RemoveLock ==
  /\ lock.held /\ lock.by = None /\ mails > 0
  /\ lock' = [held |-> FALSE, by |-> None, old |-> FALSE]
  /\ UNCHANGED << conf, files, marker, mails, failed, rundir, st, runs, stops >>

-----------------------------------------------------------------------------
(* Imports.                                                                *)

Start(p) ==
  /\ At(p, "idle") /\ runs < MaxRuns
  /\ runs' = runs + 1
  /\ \E k \in Kinds : st' = [st EXCEPT ![p] = [Idle EXCEPT !.pc = "lock", !.kind = k]]
  /\ UNCHANGED << conf, files, locks, rundir, stops >>

(* CONF_FILE is read, then the texts up to the last one it names.          *)
Scan(p) ==
  /\ At(p, "scan")
  /\ LET refs == ScanExisting(Stored, last)
     IN  st' = [st EXCEPT ![p].pc = "index", ![p].at = last, ![p].refs = refs,
                          ![p].known = IdsOf(refs)]
  /\ UNCHANGED << conf, files, locks, rundir, runs, stops >>

Index(p) ==
  /\ At(p, "index")
  /\ LET items == SpoolItems(spool)
         plan  == BuildPlan(items, st[p].refs, st[p].at + 1, st[p].kind = "unsafe")
         one   == { i \in DOMAIN items : OneAllowed(items[i], plan, st[p].refs, st[p].at) }
     IN  \/ ~Readable(spool) /\ Goto(p, "free")
         \/ /\ Readable(spool) /\ st[p].kind # "one"
            /\ st' = [st EXCEPT ![p].pc = "loop", ![p].items = items, ![p].told = IdsOf(plan)]
         \/ /\ Readable(spool) /\ st[p].kind = "one"
            /\ \/ \E i \in one : st' = [st EXCEPT ![p].pc = "loop", ![p].items = << items[i] >>]
               \/ one # DOMAIN items /\ Goto(p, "free")
  /\ UNCHANGED << conf, files, locks, rundir, runs, stops >>

Unsafe(p) == st[p].kind = "unsafe"

(* The next message to import from here on; the number is taken at once.   *)
Found(p) ==
  { i \in st[p].pos .. Len(st[p].items) : Importable(st[p].items[i], st[p].refs, Unsafe(p)) }

Count(p) ==
  /\ At(p, "loop") /\ Found(p) # {}
  /\ last' = last + 1
  /\ st' = [st EXCEPT ![p].pc = "write", ![p].pos = Min(Found(p)), ![p].num = last + 1]
  /\ UNCHANGED << texts, deleted, links, files, locks, rundir, runs, stops >>

Item(p)   == st[p].items[st[p].pos]
Parent(p) == FindText(st[p].refs, Item(p).reply)

WriteTextTop(p) ==
  /\ At(p, "write")
  /\ texts' = With(st[p].num, [id |-> Item(p).id, reply |-> Item(p).reply, local |-> FALSE,
                                com |-> IF Parent(p) = 0 THEN last - 1 ELSE Parent(p)])
  /\ Goto(p, "link")
  /\ UNCHANGED << last, deleted, links, files, locks, rundir, runs, stops >>

WriteText(p) ==
  /\ At(p, "write")
  /\ texts' = With(st[p].num, [id |-> Item(p).id, reply |-> Item(p).reply, local |-> FALSE,
                                com |-> Parent(p)])
  /\ Goto(p, "link")
  /\ UNCHANGED << last, deleted, links, files, locks, rundir, runs, stops >>

(* The link is appended to a file that may have been deleted meanwhile, and*)
(* that then has no header.                                                *)
Link(p) ==
  /\ At(p, "link")
  /\ links' = IF Parent(p) = 0 THEN links ELSE links \cup {<< Parent(p), st[p].num >>}
  /\ st' = [st EXCEPT ![p].pc = IF st[p].kind = "one" THEN "free" ELSE "loop",
                      ![p].pos = @ + 1, ![p].changed = TRUE,
                      ![p].refs = << [id |-> Item(p).id, num |-> st[p].num] >> \o @]
  /\ UNCHANGED << last, texts, deleted, files, locks, rundir, runs, stops >>

PassOnce(p) ==
  /\ At(p, "loop") /\ Found(p) = {}
  /\ st' = [st EXCEPT ![p] = [@ EXCEPT !.pc = "free", !.done = TRUE]]
  /\ UNCHANGED << conf, files, locks, rundir, runs, stops >>

(* Another pass as long as the last one has imported something.            *)
Pass(p) ==
  /\ At(p, "loop") /\ Found(p) = {}
  /\ st' = [st EXCEPT ![p] = IF st[p].changed
                             THEN [@ EXCEPT !.pos = 1, !.changed = FALSE]
                             ELSE [@ EXCEPT !.pc = "free", !.done = TRUE]]
  /\ UNCHANGED << conf, files, locks, rundir, runs, stops >>

(* A file that cannot be written ends the import.                          *)
ImportFails(p) ==
  /\ Stop /\ \/ st[p].pc \in {"write", "link"}
             \/ st[p].pc = "loop" /\ Found(p) # {}
  /\ Goto(p, "free")
  /\ UNCHANGED << conf, files, locks, rundir, runs >>

-----------------------------------------------------------------------------
(* ftnqueue-runner and the export of one text.                             *)

RunQueue(r) ==
  /\ At(r, "idle") /\ ~rundir /\ queue # {}
  /\ rundir' = TRUE
  /\ st' = [st EXCEPT ![r] = [Idle EXCEPT !.pc = "next", !.jobs = queue]]
  /\ UNCHANGED << conf, files, locks, runs, stops >>

NextJob(r) ==
  /\ At(r, "next") /\ st[r].jobs \cap queue # {}
  /\ LET job == Min(st[r].jobs \cap queue)
     IN  st' = [st EXCEPT ![r] = [Idle EXCEPT !.pc = "lock", !.at = job,
                                  !.jobs = { j \in st[r].jobs : j > job }]]
  /\ UNCHANGED << conf, files, locks, rundir, runs, stops >>

QueueDoneStays(r) ==
  /\ At(r, "next") /\ st[r].jobs \cap queue = {}
  /\ st' = [st EXCEPT ![r] = Idle]
  /\ UNCHANGED << conf, files, locks, rundir, runs, stops >>

(* The script removes runner.lock when it ends, whoever has made it.       *)
QueueDone(r) ==
  /\ At(r, "next") /\ st[r].jobs \cap queue = {}
  /\ rundir' = FALSE
  /\ st' = [st EXCEPT ![r] = Idle]
  /\ UNCHANGED << conf, files, locks, runs, stops >>

(* The number of the new file, and the MSGID that the text comments: the   *)
(* stored one, else the one made up from the number of the parent, also    *)
(* when the parent is gone.                                                *)
ExportPath(r) ==
  /\ At(r, "path")
  /\ LET n == st[r].at
         com == texts[n].com
         stored == IF com \in Existing /\ texts[com].id # NoId THEN texts[com].id ELSE Own(com)
     IN  IF n \in Existing
         THEN st' = [st EXCEPT ![r].pc = "put", ![r].file = MaxFile + 1,
                               ![r].reply = IF com = 0 THEN NoId ELSE stored]
         ELSE Goto(r, "free")
  /\ UNCHANGED << conf, files, locks, rundir, runs, stops >>

Message(r, bad) ==
  [file |-> st[r].file, id |-> Own(st[r].at), reply |-> st[r].reply, re |-> FALSE, bad |-> bad]

(* The file is opened for writing: one that has come meanwhile is lost.    *)
Put(m) == { k \in spool : k.file # m.file } \cup {m}

ExportPut(r) ==
  /\ At(r, "put")
  /\ spool' = Put(Message(r, FALSE))
  /\ st' = [st EXCEPT ![r].pc = "free", ![r].done = TRUE]
  /\ UNCHANGED << conf, saved, queue, exported, locks, rundir, runs, stops >>

RemoveJob(r) ==
  /\ At(r, "rm")
  /\ queue' = queue \ {st[r].at}
  /\ exported' = exported \cup {st[r].at}
  /\ Goto(r, "next")
  /\ UNCHANGED << conf, spool, saved, locks, rundir, runs, stops >>

ExportFails(r) ==
  /\ Stop /\ st[r].pc \in {"path", "put"}
  /\ Goto(r, "free")
  /\ UNCHANGED << conf, files, locks, rundir, runs >>

-----------------------------------------------------------------------------
(* Kills and signals.                                                      *)

(* A message may be half written, and readable or not.                     *)
Kill(p) ==
  /\ Stop /\ ~At(p, "idle")
  /\ st' = [st EXCEPT ![p] = Idle]
  /\ lock' = IF lock.by = p THEN [lock EXCEPT !.by = None] ELSE lock
  /\ runs' = IF p \in Tossers THEN runs - 1 ELSE runs
  /\ \/ UNCHANGED spool
     \/ At(p, "put") /\ \E bad \in BOOLEAN : spool' = Put(Message(p, bad))
  /\ UNCHANGED << conf, saved, queue, exported, marker, mails, failed, rundir >>

(* The trap removes runner.lock, and the script goes on.                   *)
SignalRunner(r) ==
  /\ Stop /\ ~At(r, "idle") /\ rundir
  /\ rundir' = FALSE
  /\ UNCHANGED << conf, files, locks, st, runs >>

Step(p) == Acquire(p) \/ Busy(p) \/ Mark(p) \/ SendLockMail(p) \/ Release(p)

Import(p) == Scan(p) \/ Count(p) \/ WriteText(p) \/ Link(p) \/ Pass(p)

Export(r) == RunQueue(r) \/ NextJob(r) \/ QueueDone(r) \/ ExportPath(r) \/ ExportPut(r) \/ RemoveJob(r)

Next ==
  \/ SaveText \/ Arrive \/ Age \/ RemoveLock
  \/ \E n \in 1 .. last : QueueExport(n) \/ SessionEnds(n) \/ DeleteText(n)
  \/ \E p \in Procs : Step(p) \/ Kill(p)
  \/ \E p \in Tossers : Start(p) \/ Import(p) \/ Index(p) \/ ImportFails(p)
  \/ \E r \in Runners : Export(r) \/ ExportFails(r) \/ SignalRunner(r)

(* Every process that runs comes to an end, and cron starts the runner     *)
(* again.  (For Index, which is enabled whenever an import is at its index,*)
(* weak fairness is said without ENABLED.)                                 *)
Runs(p) == Step(p) \/ (p \in Tossers /\ Import(p)) \/ (p \in Runners /\ Export(p))

Fairness ==
  /\ \A p \in Procs : WF_vars(Runs(p))
  /\ \A p \in Tossers : []<>~At(p, "index")

Spec == Init /\ [][Next]_vars /\ Fairness

-----------------------------------------------------------------------------
(* The variables keep their types, the lock its one owner.                 *)
TypeOK ==
  /\ last \in Nat /\ DOMAIN texts \subseteq 1 .. last /\ deleted \subseteq DOMAIN texts
  /\ links \subseteq (1 .. last) \X (1 .. last)
  /\ saved \cup queue \cup exported \subseteq DOMAIN texts
  /\ lock.held \/ (lock.by = None /\ ~lock.old)
  /\ \A p \in Procs :
       /\ st[p].pc \in Labels
       /\ (lock.by = p) <=>
            (st[p].pc \in {"scan", "index", "loop", "write", "link", "free", "path", "put"})

(* A message is in the conference once, whoever imports and dies when, and *)
(* a text that was written here does not come back beside itself           *)
(* (scan_existing_skl_msgids and the list that the import carries on), as  *)
(* long as the MSGIDs made from the numbers of texts differ.               *)
Distinct ==
  \A m, n \in Existing :
    m # n /\ TextId(texts[m], m) # NoId => TextId(texts[m], m) # TextId(texts[n], n)

NoDuplicates == last < Serials => Distinct

(* A text comments an earlier text, the one that its message names as      *)
(* REPLY, and is listed as a comment there: links are missing only when an *)
(* import was cut short, or is just about to write one.                    *)
Unlinked ==
  { n \in Existing : texts[n].com \in Existing /\ << texts[n].com, n >> \notin links }
ThreadsTrue ==
  /\ \A n \in Existing :
       /\ texts[n].com < n
       /\ ~texts[n].local /\ texts[n].com \in Existing =>
            TextId(texts[texts[n].com], texts[n].com) = texts[n].reply
  /\ Cardinality({ n \in Unlinked : \A p \in Tossers : ~(At(p, "link") /\ st[p].num = n) })
       <= stops

(* What can be imported: topics, and comments whose parents are there or   *)
(* can be imported themselves.                                             *)
Reachable(items, known) ==
  LET reach[k \in 0 .. Len(items)] ==
        IF k = 0 THEN known
        ELSE reach[k - 1] \cup
             { m.id : m \in { m \in ToSet(items) :
                 m.id # NoId /\ ((m.reply = NoId /\ ~m.re) \/ m.reply \in reach[k - 1]) } }
  IN  reach[Len(items)]

(* An import that ends has brought in all that can be imported, and this   *)
(* is what --diagnose would have said when it began.                       *)
ImportAsPlanned ==
  \A p \in Tossers :
    At(p, "free") /\ st[p].done /\ st[p].kind # "one" =>
      LET now == IdsOf(st[p].refs)
      IN  /\ now = st[p].known \cup st[p].told
          /\ now = IF Unsafe(p) THEN st[p].known \cup IdsOf(st[p].items)
                   ELSE Reachable(st[p].items, st[p].known)

(* A job is removed only when its message is in the spool, and no other    *)
(* export writes over it.                                                  *)
ExportsKept == \A n \in exported : \E m \in spool : m.id = Own(n) /\ ~m.bad

(* A lock is reported once, unless a report could not be mailed.           *)
WarnedOnce == mails <= 1 + failed

(* A job is done in the end, as long as nothing is killed or fails.        *)
QueuedIsExported == \A n \in 2 .. MaxText : n \in queue ~> (n \notin queue \/ stops > 0)
=============================================================================
