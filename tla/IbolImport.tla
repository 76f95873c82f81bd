----------------------------- MODULE IbolImport -----------------------------
(***************************************************************************)
(* ibolimport keeps the cache of InterBBS one-liners: it goes through the  *)
(* files of an echo area that are above the checkpoint (or, to rebuild,    *)
(* through all), adds those whose MSGID is not in the cache, and moves the *)
(* checkpoint.  It may be killed at any point, and a file that cannot be   *)
(* read today may be read tomorrow.                                        *)
(***************************************************************************)
EXTENDS Integers, Sequences

CONSTANTS
  Ids,         \* MSGIDs
  None,        \* no such file; also a message that is no one-liner
  MaxFile,     \* bound: files that arrive
  MaxRuns      \* bound: runs of ibolimport

VARIABLES
  area,        \* the MSGID in each file
  unreadable,  \* the files that cannot be read now
  cache,       \* the lines of the cache, with their MSGIDs, or None
  state,       \* the checkpoint, or None
  pc, job,     \* ibolimport
  \* history:
  runs,
  passed       \* files a rebuild could not read and the checkpoint was above

disk == << cache, state >>
vars == << area, unreadable, disk, pc, job, runs, passed >>

NoJob == [op |-> "none"]
Highest == Len(area)
Checkpoint == IF state = None THEN 0 ELSE state
Lines == IF cache = None THEN << >> ELSE cache

Line(id) == [id |-> id, whole |-> TRUE]
Torn     == [id |-> None, whole |-> FALSE]     \* it does not parse

(* load_cache_ids: a line that was cut off in its text, which comes last,  *)
(* counts; one that was cut off before does not.                           *)
Known(lines) == {lines[i].id : i \in DOMAIN lines} \ {None}

Init ==
  /\ area = << >> /\ unreadable = {} /\ cache = None /\ state = None
  /\ pc = "idle" /\ job = NoJob /\ runs = 0 /\ passed = {}

-----------------------------------------------------------------------------
Arrive(id) ==
  /\ Highest < MaxFile /\ area' = Append(area, id)
  /\ UNCHANGED << unreadable, disk, pc, job, runs, passed >>

Spoil(n)  == /\ unreadable' = unreadable \cup {n} /\ UNCHANGED << area, disk, pc, job, runs, passed >>
Mend(n)   == /\ unreadable' = unreadable \ {n} /\ UNCHANGED << area, disk, pc, job, runs, passed >>

(* The cache is removed by hand.                                           *)
RemoveCache ==
  /\ pc = "idle" /\ cache' = None /\ UNCHANGED << area, unreadable, state, pc, job, runs, passed >>

Begin(j) == /\ pc = "idle" /\ runs < MaxRuns /\ runs' = runs + 1 /\ pc' = "import" /\ job' = j

(* collect_msg_files first; a checkpoint above the area, or one without a  *)
(* cache, is refused.  A line that was cut off is ended.                   *)
Update ==
  /\ Highest >= Checkpoint /\ (state # None => cache # None)
  /\ Begin([op |-> "update", next |-> Checkpoint + 1, high |-> Highest,
            ids |-> Known(Lines), failed |-> {}, out |-> << >>])
  /\ cache' = Lines /\ UNCHANGED << area, unreadable, state, passed >>

Rebuild ==
  /\ Begin([op |-> "rebuild", next |-> 1, high |-> Highest, ids |-> {}, failed |-> {}, out |-> << >>])
  /\ UNCHANGED << area, unreadable, disk, passed >>

(* Mutant: one-liners with a MSGID in the cache are added all the same.    *)
NewAnyway(id, ids) == id # None
New(id, ids) == id # None /\ id \notin ids

(* One file.  The lines wait in the buffer of the output file.             *)
ImportFile ==
  LET n == job.next
      id == area[n]
  IN
  /\ pc = "import" /\ n <= job.high /\ UNCHANGED << area, unreadable, disk, pc, runs, passed >>
  /\ \/ n \in unreadable /\ job' = [job EXCEPT !.next = n + 1, !.failed = @ \cup {n}]
     \/ n \notin unreadable /\ ~New(id, job.ids) /\ job' = [job EXCEPT !.next = n + 1]
     \/ /\ n \notin unreadable /\ New(id, job.ids)
        /\ job' = [job EXCEPT !.next = n + 1, !.ids = @ \cup {id}, !.out = Append(@, Line(id))]

(* The new lines are at the end of the cache.  The rebuilt cache takes the *)
(* place of the old one in one step.                                       *)
Install ==
  /\ pc = "import" /\ job.next > job.high /\ pc' = "state"
  /\ cache' = IF job.op = "rebuild" THEN job.out ELSE cache \o job.out
  /\ passed' = IF job.op = "rebuild" THEN job.failed \cap (1 .. Checkpoint) ELSE passed
  /\ UNCHANGED << area, unreadable, state, job, runs >>

Moves(failed) == failed = {}

WriteState ==
  /\ pc = "state" /\ pc' = "idle" /\ job' = NoJob
  /\ state' = IF Moves(job.failed) THEN job.high ELSE state
  /\ UNCHANGED << area, unreadable, cache, runs, passed >>

(* What there may be of new lines, when the writing ends anywhere.         *)
Pieces(out) ==
  {SubSeq(out, 1, k) : k \in 0 .. Len(out)} \cup
  UNION {{Append(SubSeq(out, 1, k - 1), l) : l \in {Torn, [out[k] EXCEPT !.whole = FALSE]}} :
           k \in 1 .. Len(out)}

(* A death, or a write that fails: the temporary file is not installed; of *)
(* the new lines some are in the cache, and the last may be cut off.       *)
Die ==
  /\ pc # "idle" /\ pc' = "idle" /\ job' = NoJob
  /\ cache' \in IF pc = "import" /\ job.op = "update" THEN {cache \o new : new \in Pieces(job.out)} ELSE {cache}
  /\ UNCHANGED << area, unreadable, state, runs, passed >>

Next ==
  \/ \E id \in Ids \cup {None} : Arrive(id)
  \/ \E n \in 1 .. Highest : Spoil(n) \/ Mend(n)
  \/ RemoveCache \/ Update \/ Rebuild \/ ImportFile \/ Install \/ WriteState \/ Die

Spec == Init /\ [][Next]_vars

-----------------------------------------------------------------------------
(* run_import: no one-liner is in the cache twice, and every one up to the *)
(* checkpoint is in it, if only in part, whatever was killed and whatever  *)
(* could not be read at the time; but a file that a rebuild could not read *)
(* is not tried again if the checkpoint was above it, and a removed cache  *)
(* waits for a rebuild.                                                    *)
IbolOnce ==
  cache # None =>
    /\ \A i, j \in DOMAIN cache : cache[i].id = cache[j].id /\ i # j => cache[i].id = None
    /\ \A n \in 1 .. Checkpoint \ passed : area[n] \in Known(cache) \cup {None}
=============================================================================
