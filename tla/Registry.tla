------------------------------ MODULE Registry ------------------------------
(***************************************************************************)
(* What ACTIVE_FILE promises to the sessions that share it: each of them   *)
(* adds one entry at a time, or takes one entry of one user away, and no   *)
(* other entry is touched.                                                 *)
(***************************************************************************)
EXTENDS Integers, SequencesExt

CONSTANTS
  Users,   \* the user ids
  Procs    \* the process ids

Entry == [user : Users, pid : Procs]

VARIABLE entries

Init == entries = <<>>

Add(e) == entries' = Append(entries, e)

TakeAway(u) == \E i \in DOMAIN entries :
               entries[i].user = u /\ entries' = RemoveAt(entries, i)

Next == \/ \E e \in Entry : Add(e)
        \/ \E u \in Users : TakeAway(u)

Spec == Init /\ [][Next]_entries
=============================================================================
