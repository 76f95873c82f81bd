-------------------------------- MODULE Files --------------------------------
(***************************************************************************)
(* The files of a conference and .index, which has a line for each of them *)
(* with what somebody said of it.  Uploading and deleting a file take no   *)
(* lock; both then make the index anew from a list of the directory, by    *)
(* way of .newindex (rebuild_index_file), while others describe files.     *)
(*                                                                         *)
(* A name is a sequence of words.  open_file gives up on a file that has   *)
(* been locked for 30 seconds, and who gives up leaves the files it has    *)
(* locked until the session ends.                                          *)
(***************************************************************************)
EXTENDS Integers, Sequences, FiniteSets, SequencesExt, FiniteSetsExt

CONSTANTS
  Users, Nobody,
  Names,        \* of files
  Said,         \* descriptions, none of them empty or with a colon
  MaxOps        \* bound: commands

VARIABLES
  stored,       \* the files in the directory
  inode,        \* .index and .newindex, as files: [lines, holder]
  at,           \* the inode each of the two names is for, 0 if none
  pc, job,      \* the sessions
  hears,        \* who does not ignore the signals for news
  avail,        \* who is marked in ACTIVE_FILE as not to be disturbed
  ops,
  \* history:
  told,         \* per name what was said of it last
  excused,      \* names of which what was said may be lost
  uneven,       \* the index may be anything: two were made at once, or one was not finished
  failed        \* whose last transfer left in the middle of its command, or
                \* could not take the mark back

disk    == << stored, inode, at >>
session == << pc, job >>
ears    == << hears, avail >>
history == << told, excused, uneven, failed >>
vars    == << disk, session, ears, ops, history >>

Index == "index"
New   == "new"
NoJob == [op |-> "none"]
Line(n, d) == [name |-> n, desc |-> d]
Lines(f) == IF at[f] = 0 THEN << >> ELSE inode[at[f]].lines
Listed(lines) == {lines[i].name : i \in DOMAIN lines}

Init ==
  /\ stored = {} /\ inode = << >> /\ at = [f \in {Index, New} |-> 0]
  /\ pc = [u \in Users |-> "idle"] /\ job = [u \in Users |-> NoJob]
  /\ hears = Users /\ avail = {} /\ ops = 0
  /\ told = [n \in Names |-> ""] /\ excused = {} /\ uneven = FALSE /\ failed = {}

Goto(u, p, j) == pc' = [pc EXCEPT ![u] = p] /\ job' = [job EXCEPT ![u] = j]
Counts == ops < MaxOps /\ ops' = ops + 1

(* open_file with OPEN_CREATE: the lock is taken, or waited for.           *)
Opened(f) == IF at[f] # 0 THEN at[f] ELSE Len(inode) + 1
Free(i)   == i \notin DOMAIN inode \/ inode[i].holder = Nobody
Created(f) == IF at[f] # 0 THEN inode ELSE Append(inode, [lines |-> << >>, holder |-> Nobody])
Open(u, f, got, wait) ==
  LET i == Opened(f) IN
  /\ at' = [at EXCEPT ![f] = i]
  /\ IF Free(i)
     THEN inode' = [Created(f) EXCEPT ![i].holder = u] /\ Goto(u, got, [job[u] EXCEPT ![f] = i])
     ELSE inode' = inode /\ Goto(u, wait, [job[u] EXCEPT ![f] = i])

Wait(u, f, got) ==
  LET i == job[u][f] IN
  /\ Free(i) /\ inode' = [inode EXCEPT ![i].holder = u] /\ Goto(u, got, job[u]) /\ UNCHANGED at

(* set_avail, which fails when ACTIVE_FILE is locked for thirty seconds.   *)
Unmark(u) == \/ avail' = avail \ {u} /\ failed' = failed \ {u}
             \/ avail' = avail /\ failed' = failed \cup {u}

(* Mutant: who has sent files stays marked.                                *)
DoneBusy(u) == UNCHANGED << avail, failed >>
Done(u)     == IF job[u].op = "upload" THEN Unmark(u) ELSE UNCHANGED << avail, failed >>
GivesUp(u, f) == ~Free(job[u][f])
Rebuild(op) == [op |-> op, index |-> 0, new |-> 0, remo |-> FALSE, buf |-> << >>]

-----------------------------------------------------------------------------
(* The program that receives the files is run with the news ignored.       *)
Upload(u) ==
  /\ pc[u] = "idle" /\ Counts
  /\ hears' = hears \ {u} /\ avail' \in {avail, avail \cup {u}} /\ Goto(u, "upload", NoJob)
  /\ UNCHANGED << disk, history >>

(* Where the session is cannot be found out: cmd_upload leaves at once.    *)
UploadBusy(u) ==
  /\ pc[u] = "idle" /\ Counts /\ avail' \in {avail, avail \cup {u}} /\ failed' = failed \cup {u}
  /\ UNCHANGED << disk, session, hears, told, excused, uneven >>

UploadFails(u) ==
  /\ pc[u] = "upload" /\ Goto(u, "idle", NoJob)
  /\ hears' = hears \cup {u} /\ Unmark(u)
  /\ UNCHANGED << disk, ops, told, excused, uneven >>

Uploaded(u) == \E S \in SUBSET Names :
  /\ pc[u] = "upload" /\ Goto(u, "rebuild", Rebuild("upload"))
  /\ stored' = stored \cup S /\ hears' = hears \cup {u} /\ failed' = failed \ {u}
  /\ UNCHANGED << inode, at, avail, ops, told, excused, uneven >>

(* Files that no index is made for.                                        *)
Strays(S) ==
  /\ stored' = stored \cup S
  /\ IF S \subseteq stored THEN UNCHANGED << excused, uneven >> ELSE uneven' = TRUE /\ excused' = Names

(* The way back is gone: cmd_upload leaves everything as it set it.        *)
UploadedLost(u) == \E S \in SUBSET Names :
  /\ pc[u] = "upload" /\ Goto(u, "idle", NoJob) /\ Strays(S) /\ failed' = failed \cup {u}
  /\ UNCHANGED << inode, at, ears, ops, told >>

(* cmd_download leaves everything as it set it when it cannot begin, and   *)
(* the mark when there is no way back or ACTIVE_FILE is locked: both times,*)
(* the signals stay blocked.                                               *)
Download(u) ==
  /\ pc[u] = "idle" /\ Counts
  /\ \/ hears' = hears \cup {u} /\ avail' = avail \ {u} /\ failed' = failed \ {u}
     \/ /\ hears' \in {hears \cup {u}, hears \ {u}} /\ avail' \in {avail, avail \cup {u}}
        /\ failed' = failed \cup {u}
  /\ UNCHANGED << disk, session, told, excused, uneven >>

Unlink(u, n) ==
  /\ pc[u] = "idle" /\ Counts /\ stored' = stored \ {n} /\ Goto(u, "rebuild", Rebuild("unlink"))
  /\ UNCHANGED << inode, at, ears, history >>

-----------------------------------------------------------------------------
(* cmd_describe looks the file up, asks, and looks for its line again: the *)
(* first that has the name, and a colon after it, anywhere in it.          *)
Describe(u, n) ==
  /\ pc[u] = "idle" /\ n \in stored /\ at[Index] # 0 /\ Free(at[Index]) /\ Counts
  /\ n \in Listed(Lines(Index)) /\ Goto(u, "ask", [op |-> "describe", name |-> n])
  /\ UNCHANGED << disk, ears, history >>

Fits(n) == {i \in DOMAIN Lines(Index) : IsSuffix(n, Lines(Index)[i].name)}
MadeBy(v) == pc[v] \in {"copy", "store", "waitstore", "write", "finish"}
Raced(u)  == \E v \in Users \ {u} : MadeBy(v)

DescribeStore(u) ==
  LET n == job[u].name
      i == Min(Fits(n))
      m == Lines(Index)[i].name
  IN
  /\ pc[u] = "ask" /\ at[Index] # 0 /\ Free(at[Index]) /\ Fits(n) # {}
  /\ \E d \in Said : inode' = [inode EXCEPT ![at[Index]].lines[i].desc = d]
                     /\ told' = [told EXCEPT ![n] = d]
  /\ excused' = IF m # n THEN excused \cup {m, n} ELSE
                IF Raced(u) \/ uneven THEN excused \cup {n} ELSE excused \ {n}
  /\ Goto(u, "idle", NoJob) /\ UNCHANGED << stored, at, ears, ops, uneven, failed >>

(* The line is gone: the index stays locked.                               *)
DescribeLost(u) ==
  /\ pc[u] = "ask" /\ at[Index] # 0 /\ Free(at[Index]) /\ Fits(job[u].name) = {}
  /\ inode' = [inode EXCEPT ![at[Index]].holder = u]
  /\ Goto(u, "idle", NoJob) /\ UNCHANGED << stored, at, ears, ops, history >>

(* Nothing is typed, or the index cannot be opened.                        *)
DescribeNothing(u) ==
  /\ pc[u] = "ask" /\ Goto(u, "idle", NoJob) /\ UNCHANGED << disk, ears, ops, history >>

-----------------------------------------------------------------------------
(* rebuild_index_file.                                                     *)
OpenIndex(u) ==
  /\ pc[u] = "rebuild" /\ Open(u, Index, "opennew", "waitindex")
  /\ UNCHANGED << stored, ears, ops, history >>

WaitIndex(u) == pc[u] = "waitindex" /\ Wait(u, Index, "opennew")
                /\ UNCHANGED << stored, ears, ops, history >>

OpenNew(u) ==
  /\ pc[u] = "opennew" /\ Open(u, New, "list", "waitnew")
  /\ UNCHANGED << stored, ears, ops, history >>

WaitNew(u) == pc[u] = "waitnew" /\ Wait(u, New, "list")
              /\ UNCHANGED << stored, ears, ops, history >>

DescOf(lines, n) ==
  LET S == {i \in DOMAIN lines : lines[i].name = n} IN IF S = {} THEN "" ELSE lines[Min(S)].desc

(* Mutant: what was said of the file is not taken over.                    *)
EntryBare(lines, n) == Line(n, "")
Entry(lines, n)     == Line(n, DescOf(lines, n))

(* Of what .newindex has already, what is longer than the new lines stays. *)
Over(lines, old) == lines \o SubSeq(old, Len(lines) + 1, Len(old))

Fresh(u) == LET files == SetToSeq(stored)
            IN  [k \in DOMAIN files |-> Entry(inode[job[u].index].lines, files[k])]

List(u) ==
  LET j == job[u]
      lines == Fresh(u)
      old   == inode[j.new].lines
      clean == at[New] = j.new /\ at[Index] = j.index /\ old = << >> /\ ~Raced(u)
  IN
  /\ pc[u] = "list"
  /\ inode' = [inode EXCEPT ![j.new]   = [lines |-> Over(lines, old), holder |-> Nobody],
                            ![j.index].holder = Nobody]
  /\ told' = [n \in Names |-> IF n \in stored THEN told[n] ELSE ""]
  /\ excused' = IF clean THEN excused \cap stored ELSE Names
  /\ uneven' = ~clean
  /\ Goto(u, "copy", [j EXCEPT !.remo = (stored = {})])
  /\ UNCHANGED << stored, at, ears, ops, failed >>

(* What a session that stops leaves of the file it writes.                 *)
Partly(u, f, lines) == [inode EXCEPT ![job[u][f]].lines = Over(lines, @)]
Begun(u) ==
  CASE pc[u] = "list"  -> {Partly(u, New, SubSeq(Fresh(u), 1, k)) : k \in 0 .. Cardinality(stored)}
    [] pc[u] = "write" -> {inode, Partly(u, Index, job[u].buf), [inode EXCEPT ![job[u].index].lines = job[u].buf]}
    [] OTHER -> {inode}

(* A lock is not to be had, or, later, a file cannot be read or written.   *)
RebuildFails(u) ==
  /\ \/ pc[u] = "waitindex" /\ GivesUp(u, Index)
     \/ pc[u] = "waitnew" /\ GivesUp(u, New)
     \/ pc[u] = "list"
  /\ Goto(u, "idle", NoJob) /\ Done(u) /\ uneven' = TRUE /\ excused' = Names
  /\ inode' \in Begun(u) /\ UNCHANGED << stored, at, hears, ops, told >>

(* copy_file.                                                              *)
CopyRead(u) ==
  /\ pc[u] = "copy" /\ at[New] # 0 /\ Free(at[New])
  /\ inode' = [inode EXCEPT ![at[New]].holder = u]
  /\ Goto(u, "store", [job[u] EXCEPT !.new = at[New], !.buf = Lines(New)])
  /\ UNCHANGED << stored, at, ears, ops, history >>

CopyOpen(u) ==
  /\ pc[u] = "store" /\ Open(u, Index, "write", "waitstore")
  /\ UNCHANGED << stored, ears, ops, history >>

CopyWait(u) == pc[u] = "waitstore" /\ Wait(u, Index, "write")
               /\ UNCHANGED << stored, ears, ops, history >>

CopyWrite(u) ==
  LET j == job[u] IN
  /\ pc[u] = "write"
  /\ inode' = [inode EXCEPT ![j.index] = [lines |-> j.buf, holder |-> Nobody],
                            ![j.new].holder = Nobody]
  /\ Goto(u, "finish", j) /\ UNCHANGED << stored, at, ears, ops, history >>

CopyFails(u) ==
  /\ \/ pc[u] = "copy" /\ (at[New] # 0 => ~Free(at[New]))
     \/ pc[u] = "waitstore" /\ GivesUp(u, Index)
  /\ Goto(u, "finish", job[u]) /\ uneven' = TRUE /\ excused' = Names
  /\ UNCHANGED << disk, ears, ops, told, failed >>

Finish(u) ==
  /\ pc[u] = "finish"
  /\ at' = [f \in {Index, New} |-> IF f = New \/ job[u].remo THEN 0 ELSE at[f]]
  /\ Done(u) /\ Goto(u, "idle", NoJob)
  /\ UNCHANGED << stored, inode, hears, ops, told, excused, uneven >>

-----------------------------------------------------------------------------
(* A session ends, by a logout, a hangup or a death; its locks go with it, *)
(* and its user is back at the prompt in a new one.                        *)
Freed(u, nodes) == [i \in DOMAIN nodes |-> IF nodes[i].holder = u THEN [nodes[i] EXCEPT !.holder = Nobody]
                                           ELSE nodes[i]]
Leaves(u) ==
  /\ Goto(u, "idle", NoJob)
  /\ hears' = hears \cup {u} /\ avail' = avail \ {u} /\ failed' = failed \ {u}
  /\ UNCHANGED << at, ops, told >>

Ends(u) ==
  /\ pc[u] \in {"idle", "ask"} /\ Leaves(u) /\ inode' = Freed(u, inode)
  /\ UNCHANGED << stored, excused, uneven >>

(* cmd_upload waits for the program.                                       *)
EndsSending(u) == \E S \in SUBSET Names :
  pc[u] = "upload" /\ Leaves(u) /\ inode' = Freed(u, inode) /\ Strays(S)

(* From before critical to after non_critical.                             *)
EndsMaking(u) ==
  /\ pc[u] \notin {"idle", "ask", "upload"} /\ Leaves(u)
  /\ \E nodes \in Begun(u) : inode' = Freed(u, nodes)
  /\ uneven' = TRUE /\ excused' = Names /\ UNCHANGED stored

(* write_file writes, and only then cuts off what was longer: the rest of  *)
(* it reads as one more line.                                              *)
EndsDescribing(u) == \E d \in Said, more \in BOOLEAN :
  /\ pc[u] = "ask" /\ at[Index] # 0 /\ Free(at[Index]) /\ Fits(job[u].name) # {} /\ Leaves(u)
  /\ LET lines == [Lines(Index) EXCEPT ![Min(Fits(job[u].name))].desc = d]
         rest  == Line(job[u].name, "")
     IN  inode' = Freed(u, [inode EXCEPT ![at[Index]].lines = IF more THEN Append(lines, rest) ELSE lines])
  /\ uneven' = TRUE /\ excused' = Names /\ UNCHANGED stored

Next ==
  \E u \in Users :
    \/ Upload(u) \/ UploadBusy(u) \/ UploadFails(u) \/ Uploaded(u) \/ UploadedLost(u) \/ Download(u)
    \/ \E n \in Names : Unlink(u, n) \/ Describe(u, n)
    \/ DescribeStore(u) \/ DescribeLost(u) \/ DescribeNothing(u)
    \/ OpenIndex(u) \/ WaitIndex(u) \/ OpenNew(u) \/ WaitNew(u) \/ RebuildFails(u)
    \/ List(u) \/ CopyRead(u) \/ CopyOpen(u) \/ CopyWait(u) \/ CopyWrite(u) \/ CopyFails(u)
    \/ Finish(u)
    \/ Ends(u) \/ EndsSending(u) \/ EndsMaking(u) \/ EndsDescribing(u)

Spec == Init /\ [][Next]_vars

-----------------------------------------------------------------------------
(* When nobody changes the files or makes an index, it has the files there *)
(* are, with what was said of them last: unless two indexes were made at a *)
(* time, or one was given up, cut off or never begun (uneven), or it was   *)
(* said while an index was being made, or of a file whose name ends        *)
(* another's.                                                              *)
Resting == \A u \in Users : pc[u] \in {"idle", "ask"}
FilesListed ==
  Resting /\ ~uneven =>
    /\ Listed(Lines(Index)) = stored /\ Len(Lines(Index)) = Cardinality(stored)
    /\ \A n \in stored \ excused : DescOf(Lines(Index), n) = told[n]

(* Who is at the prompt hears of news, and is not marked, but after a      *)
(* transfer whose command returned in the middle, or could not take the    *)
(* mark back.                                                              *)
NewsHeard == \A u \in Users : pc[u] = "idle" /\ u \notin failed => u \in hears /\ u \notin avail
=============================================================================
