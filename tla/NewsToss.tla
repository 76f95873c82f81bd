------------------------------ MODULE NewsToss ------------------------------
(***************************************************************************)
(* newstoss copies a newsgroup from the news spool into a conference.  It  *)
(* keeps no record of what it has copied: an article is new if its file is *)
(* not older than the file of the conference's last text.                  *)
(***************************************************************************)
EXTENDS Integers, Sequences, FiniteSetsExt, Functions

CONSTANTS
  Refs,        \* the article each article refers to, 0 for none
  Gap,         \* missing articles in a row that first_news takes for all: 4
  MaxArticle,  \* bound: articles that arrive
  MaxTime,     \* bound: seconds
  MaxRuns,     \* bound: runs of newstoss
  MaxChange    \* bound: articles expired, texts changed and deleted, failures

VARIABLES
  now,
  spool,       \* the articles in the spool, with the time of their files
  active,      \* the last article of the active file
  texts,       \* the conference: the article of each text
  files,       \* the texts whose file exists, with its time
  pc, job,     \* newstoss
  \* history:
  runs, changes,
  due,         \* the articles that the run has to copy
  lost,        \* articles that failed, and that a text stored since hides
  excused      \* articles that may be missed, or come twice

group == << spool, active >>
conf  == << texts, files >>
bounds == << runs, changes >>
history == << due, lost, excused >>
vars  == << now, group, conf, pc, job, bounds, history >>

Bottom == [last |-> 0, high |-> 0, first |-> 1, to |-> 0, mtime |-> 0, list |-> {}, stuck |-> FALSE]

Init ==
  /\ now = 1 /\ spool = << >> /\ active = 0
  /\ texts = << >> /\ files = << >> /\ pc = "idle" /\ job = Bottom
  /\ runs = 0 /\ changes = 0 /\ due = {} /\ lost = {} /\ excused = {}

Old == {texts[t].art : t \in DOMAIN texts}

(* A file has its name and its time.                                       *)
With(fs, n) == [m \in {n} \cup DOMAIN fs |-> IF m = n THEN now ELSE fs[m]]

-----------------------------------------------------------------------------
(* The world.                                                              *)
Tick == now < MaxTime /\ now' = now + 1 /\ UNCHANGED << group, conf, pc, job, bounds, history >>

(* An article that comes while newstoss runs is older than its last text.  *)
Arrive ==
  /\ active < MaxArticle /\ active' = active + 1
  /\ spool' = With(spool, active + 1)
  /\ excused' = excused \cup IF pc = "idle" THEN {} ELSE {active + 1}
  /\ UNCHANGED << now, conf, pc, job, bounds, due, lost >>

Change == changes < MaxChange /\ changes' = changes + 1

(* Old articles go first, others are cancelled: when Gap in a row are      *)
(* missing, first_news may pass over those before them.                    *)
Hidden(there) ==
  {m \in there : \E k \in m + 1 .. active - Gap + 1 : (k .. k + Gap - 1) \cap there = {}}
Expire(n) ==
  /\ Change /\ spool' = Restrict(spool, DOMAIN spool \ {n})
  /\ excused' = excused \cup {n} \cup Hidden(DOMAIN spool \ {n})
  /\ UNCHANGED << now, active, conf, pc, job, runs, due, lost >>

(* A footnote or a "like" on the last text makes it younger than the       *)
(* articles that wait; without it all articles are new.                    *)
Touch(t) ==
  /\ Change /\ files' = [files EXCEPT ![t] = now]
  /\ excused' = excused \cup IF t = Len(texts) THEN DOMAIN spool \ Old ELSE {}
  /\ UNCHANGED << now, group, texts, pc, job, runs, due, lost >>

Delete(t) ==
  /\ Change /\ files' = Restrict(files, DOMAIN files \ {t})
  /\ excused' = excused \cup IF t = Len(texts) THEN Old ELSE {}
  /\ UNCHANGED << now, group, texts, pc, job, runs, due, lost >>

-----------------------------------------------------------------------------
(* main: CONF_FILE, then the active file.                                  *)
Start ==
  /\ pc = "idle" /\ runs < MaxRuns /\ runs' = runs + 1 /\ pc' = "active"
  /\ job' = [Bottom EXCEPT !.last = Len(texts)]
  /\ UNCHANGED << changes, now, group, conf, history >>

ReadActive ==
  /\ pc = "active" /\ pc' = "search" /\ job' = [job EXCEPT !.high = active, !.to = active]
  /\ due' = DOMAIN spool \ lost /\ UNCHANGED << now, group, conf, bounds, lost, excused >>

(* first_news: a binary search that takes Gap missing articles in a row    *)
(* for all of them.                                                        *)
Probe(mid) == {n \in DOMAIN spool : n \in mid - Gap + 1 .. mid}
Search ==
  LET mid == (job.first + job.to) \div 2
  IN
  /\ pc = "search" /\ job.first < job.to
  /\ job' = IF Probe(mid) = {} THEN [job EXCEPT !.first = mid + 1] ELSE [job EXCEPT !.to = Max(Probe(mid))]
  /\ UNCHANGED << now, group, conf, pc, bounds, history >>

Found ==
  /\ pc = "search" /\ job.to <= job.first /\ pc' = "open"
  /\ UNCHANGED << now, group, conf, job, bounds, history >>

(* The message ids of the conference are read at the first article there   *)
(* is, and so is the time of the last text.                                *)
Known == {t \in DOMAIN files : t <= job.last}
Open ==
  /\ pc = "open" /\ job.first <= job.high /\ job.first \in DOMAIN spool
  /\ pc' = "import"
  /\ job' = [job EXCEPT !.list = Known,
                        !.mtime = IF job.last \in DOMAIN files THEN files[job.last] ELSE 0]
  /\ UNCHANGED << now, group, conf, bounds, history >>

(* find_ref: the first text with the id, else none.                        *)
FindRef(list, r) ==
  LET hits == {t \in list : texts[t].art = r} IN IF hits = {} THEN 0 ELSE Min(hits)

(* Mutant: what came in the same second is taken to be old.                *)
NewerOnly(time, mtime) == time > mtime

NotOlder(time, mtime) == time >= mtime

(* The next article is there, and new.                                     *)
Wanted ==
  /\ pc = "import" /\ job.first <= job.high /\ job.first \in DOMAIN spool
  /\ NotOlder(spool[job.first], job.mtime)

Stored == Len(texts) > job.last    \* the run has stored a text

(* send_news: the number, the text, the count, under the lock of CONF_FILE,*)
(* and the link in the text that it comments on.  When that is deleted, or *)
(* the end fails, the new text does not get into the list.                 *)
Import ==
  LET n   == job.first
      t   == Len(texts) + 1
      com == FindRef(job.list, Refs[n])
  IN
  /\ Wanted /\ ~job.stuck
  /\ texts' = Append(texts, [art |-> n, com |-> com])
  /\ files' = With(files, t)
  /\ \E new \in {{t}, {}} :
       /\ new # {} => com = 0 \/ com \in DOMAIN files
       /\ job' = [job EXCEPT !.first = @ + 1, !.list = @ \cup new]
  /\ lost' = lost \cup {m \in DOMAIN spool : m < n /\ m \notin Old}
  /\ excused' = excused \cup IF spool[n] = now THEN {n} ELSE {}
  /\ UNCHANGED << now, group, pc, bounds, due >>

(* It fails before the text counts, because CONF_FILE is locked or later;  *)
(* then newstoss itself keeps CONF_FILE locked, so that all the rest fails,*)
(* too.  main goes on with the next article.                               *)
ImportFails ==
  /\ Wanted
  /\ \/ job.stuck /\ UNCHANGED changes
     \/ ~job.stuck /\ Change
  /\ \/ job' = [job EXCEPT !.first = @ + 1]
     \/ job' = [job EXCEPT !.first = @ + 1, !.stuck = TRUE]
  /\ due' = due \ {job.first}
  /\ lost' = lost \cup IF Stored THEN {job.first} ELSE {}
  /\ UNCHANGED << now, group, conf, pc, runs, excused >>

(* newstoss leaves at once, or is killed.                                  *)
Die ==
  /\ pc # "idle" /\ Change /\ pc' = "idle" /\ job' = Bottom
  /\ due' = {}
  /\ lost' = lost \cup IF Stored THEN DOMAIN spool \ Old ELSE {}
  /\ UNCHANGED << now, group, conf, runs, excused >>

Pass ==
  LET n == job.first IN
  /\ n <= job.high /\ pc \in {"open", "import"}
  /\ (n \in DOMAIN spool => pc = "import" /\ ~Wanted)
  /\ job' = [job EXCEPT !.first = @ + 1]
  /\ UNCHANGED << now, group, conf, pc, bounds, history >>

Done ==
  /\ pc \in {"open", "import"} /\ job.first > job.high /\ pc' = "idle" /\ job' = Bottom
  /\ UNCHANGED << now, group, conf, bounds, history >>

Next ==
  \/ Tick \/ Arrive \/ \E n \in DOMAIN spool : Expire(n)
  \/ \E t \in DOMAIN files : Touch(t) \/ Delete(t)
  \/ Start \/ ReadActive \/ Search \/ Found \/ Open \/ Import \/ ImportFails \/ Pass \/ Done \/ Die

Spec == Init /\ [][Next]_vars

-----------------------------------------------------------------------------
(* main: when a run is over every article that it had to copy has become a *)
(* text and none has become two, and a follow-up comments on the text of   *)
(* the article it refers to.  What a run failed to copy, or left when it   *)
(* died, the next one has to, if no text was stored that is younger.       *)
(* Excused are articles that come during a run, in the second they are     *)
(* copied in, or before the last text is changed or removed, and those     *)
(* before a gap that first_news takes for the beginning.                   *)
NewsOnce ==
  /\ pc = "idle" => due \ excused \subseteq Old
  /\ \A s, t \in DOMAIN texts : texts[s].art = texts[t].art /\ s # t => texts[s].art \in excused
  /\ \A t \in DOMAIN texts : texts[t].com # 0 => texts[texts[t].com].art = Refs[texts[t].art]
=============================================================================
