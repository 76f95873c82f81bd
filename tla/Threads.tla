------------------------------ MODULE Threads ------------------------------
(***************************************************************************)
(* A session that follows comments: the stack of comments waiting to be    *)
(* read (COM_STACK), the stack of texts read (rstack) that "back" goes     *)
(* along, and the stack of texts to have unread again at logout (ustack).  *)
(* Several commands run along a tree or over all unread texts one text at  *)
(* a time, while others delete texts and the line may be hung up.          *)
(*                                                                         *)
(* The texts the user is through with are the plain sets the interval      *)
(* lists of module Reading implement.                                      *)
(***************************************************************************)
EXTENDS Integers, Sequences, FiniteSets, SequencesExt

CONSTANTS
  Order,      \* the conferences after the mailbox, in the order of CONFS_FILE
  Mailbox,    \* conference 0
  NoConf,     \* -1, no conference
  Boards,     \* the trees of texts to begin with
  Match,      \* texts with the subject or author that is asked for
  Blocked,    \* texts by authors on the user's blocklist
  Menus,      \* bound: the sets of commands (and of what others do) of one behaviour
  MaxText,    \* bound: texts ever posted in a conference
  Limit,      \* bound: the same for each of them, [Confs -> 0 .. MaxText]
  MaxRead,    \* bound: length of the stack of texts read
  MaxAsked,   \* bound: length of the stack of texts to unread at logout
  MaxDelete   \* bound: texts deleted

VARIABLES
  parent,        \* per conference the header of each text: what it comments
  files,         \* per conference the texts whose file exists
  read,          \* per conference the texts marked as read
  subs,          \* the conferences subscribed to
  Current_conf, Last_conf, Last_text, Current_text,
  cstack, rstack, ustack,
  pc, job,
  menu,          \* the commands of this behaviour
  \* history:
  lastFrom,      \* the conference Last_text was a text of when it was set
  wanted,        \* texts asked to be unread at logout
  missed         \* those of which a logout could not mark them

board   == << parent, files, menu >>
place   == << Current_conf, Last_conf, Last_text, Current_text, lastFrom >>
stacks  == << cstack, rstack, ustack >>
asked   == << wanted, missed >>
control == << pc, job, asked >>
vars    == << board, read, subs, place, stacks, control >>

Confs == {Mailbox} \cup ToSet(Order)
Text(c, n) == [conf |-> c, num |-> n]
Nothing == Text(Mailbox, 0)
NoJob == [op |-> "none"]

LastOf(c) == Len(parent[c])

(* A text is commented after it is there: in its own conference, a comment *)
(* has the greater number.                                                 *)
ASSUME OrderAssumption == Order \in Seq(ToSet(Order))
ASSUME BoardsAssumption ==
  \A b \in Boards :
    /\ b \in [Confs -> Seq([conf : Confs, num : Nat])]
    /\ \A c \in Confs : \A n \in DOMAIN b[c] : b[c][n].conf = c => b[c][n].num < n
    /\ \A c \in Confs : Len(b[c]) <= MaxText
ASSUME BoundsAssumption == MaxText \in Nat /\ Limit \in [Confs -> 0 .. MaxText]

(* Those entries of a sequence that are in a set, in their order.          *)
Kept(s, S) ==
  LET kept[i \in 0 .. Len(s)] ==
        IF i = 0 THEN << >> ELSE IF s[i] \in S THEN Append(kept[i - 1], s[i]) ELSE kept[i - 1]
  IN kept[Len(s)]

(* The comment lines at the end of text n: only those written in its own   *)
(* conference are linked.                                                  *)
Comments(c, n) ==
  Kept([m \in 1 .. LastOf(c) |-> m], {m \in 1 .. LastOf(c) : parent[c][m] = Text(c, n)})

(* The mailbox if there is mail or the user begins there anyway, else the  *)
(* first conference with an unread text.                                   *)
Unheard == {i \in DOMAIN Order : parent[Order[i]] # << >>}
set_first_conf ==
  IF parent[Mailbox] # << >> \/ Unheard = {} THEN Mailbox
  ELSE Order[CHOOSE i \in Unheard : \A j \in Unheard : i <= j]

Init ==
  /\ parent \in Boards
  /\ files = [c \in Confs |-> 1 .. Len(parent[c])]
  /\ read = [c \in Confs |-> {}]
  /\ subs = Confs
  /\ Current_conf \in {Mailbox, set_first_conf}
  /\ Last_conf = Current_conf /\ lastFrom = Current_conf
  /\ Last_text = 0 /\ Current_text = 0
  /\ cstack = <<>> /\ rstack = <<>> /\ ustack = <<>>
  /\ pc = "command" /\ job = NoJob /\ wanted = {} /\ missed = {}
  /\ menu \in Menus

-----------------------------------------------------------------------------
(* What the commands are made of.                                          *)

Mark(r, c, S)   == IF c \in subs THEN [r EXCEPT ![c] = @ \cup S] ELSE r
Unmark(r, c, S) == IF c \in subs THEN [r EXCEPT ![c] = @ \ S] ELSE r

(* next_text: the first unread text; missing ones on the way are marked.   *)
(* In the mailbox it is not looked for.                                    *)
Left(c)    == IF c \in subs THEN (1 .. LastOf(c)) \ read[c] ELSE {}
There(c)   == IF c = Mailbox THEN Left(c) ELSE Left(c) \cap files[c]
NextOf(c)  == IF There(c) = {} THEN 0 ELSE CHOOSE n \in There(c) : \A m \in There(c) : n <= m
Passed(c)  == {n \in Left(c) \ There(c) : There(c) = {} \/ n < NextOf(c)}

(* more_conf: the mailbox, else the conferences ahead, then those behind.  *)
Here == IF Current_conf = Mailbox THEN 0 ELSE CHOOSE i \in DOMAIN Order : Order[i] = Current_conf
Others == Kept(SubSeq(Order, Here + 1, Len(Order)) \o SubSeq(Order, 1, Here - 1), subs)
WithNews == {i \in DOMAIN Others : NextOf(Others[i]) # 0}
FirstNews == CHOOSE i \in WithNews : \A j \in WithNews : i <= j
MoreConf == IF There(Mailbox) # {} THEN Mailbox
            ELSE IF WithNews = {} THEN NoConf ELSE Others[FirstNews]
Looked == IF There(Mailbox) # {} THEN {}
          ELSE {Others[i] : i \in IF WithNews = {} THEN DOMAIN Others ELSE 1 .. FirstNews}
AfterMoreConf(r) == [c \in Confs |-> IF c \in Looked THEN r[c] \cup Passed(c) ELSE r[c]]

(* next_text has been asked: the missing texts it passed are read.         *)
Found(c) == [read EXCEPT ![c] = @ \cup Passed(c)]

(* Mutant: texts that are read already are not stacked.                    *)
StackedUnread(c, n) ==
  IF c = Mailbox \/ n \notin files[c] THEN << >>
  ELSE Reverse(Kept(Comments(c, n), files[c] \ read[c]))

(* The comments of a text that are there, the first on top; those that are *)
(* not are marked as read.                                                 *)
Stacked(c, n) ==
  IF c = Mailbox \/ n \notin files[c] THEN << >>
  ELSE Reverse(Kept(Comments(c, n), files[c]))
Gone(c, n) ==
  IF c = Mailbox \/ n \notin files[c] THEN {} ELSE ToSet(Comments(c, n)) \ files[c]

(* The stack holds numbers; the conference they were pushed in is history. *)
Entries(c, s) == [i \in DOMAIN s |-> Text(c, s[i])]

(* display_text stacks only unread comments, and none of a blocked author. *)
Unblocked(c, n, what, none) == IF Text(c, n) \in Blocked THEN none ELSE what
Follow(c, n) == Unblocked(c, n, Kept(Stacked(c, n), (1 .. LastOf(c)) \ read[c]), << >>)
FollowGone(c, n) == Unblocked(c, n, Gone(c, n), {})

(* set_conf                                                                *)
SetConf(c) == Current_conf' = c /\ Last_conf' = c

(* next_comment, next_text, readall, readsome: show it, mark it, keep it.  *)
ReadHere(t, r, under) ==
  LET c == Current_conf IN
  /\ read' = Mark(r, c, FollowGone(c, t) \cup {t})
  /\ cstack' = under \o Entries(c, Follow(c, t))
  /\ \/ "back_text" \in menu /\ Len(rstack) < MaxRead /\ rstack' = Append(rstack, Text(c, t))
     \/ "back_text" \notin menu /\ UNCHANGED rstack   \* nothing will look at it
  /\ Current_text' = t /\ Last_text' = t /\ lastFrom' = c

-----------------------------------------------------------------------------
(* Other users.                                                            *)

(* cmd_delete_text, or the expiry of old texts.                            *)
Delete(c, n) ==
  /\ "delete" \in menu
  /\ Cardinality(UNION {{Text(d, m) : m \in (1 .. LastOf(d)) \ files[d]} : d \in Confs}) < MaxDelete
  /\ files' = [files EXCEPT ![c] = @ \ {n}]
  /\ UNCHANGED << parent, menu, read, subs, place, stacks, control >>

Posted(c, p) ==
  /\ LastOf(c) < Limit[c]
  /\ parent' = [parent EXCEPT ![c] = Append(@, p)]
  /\ files' = [files EXCEPT ![c] = @ \cup {LastOf(c) + 1}]
  /\ UNCHANGED menu

Post(c, p) == "post" \in menu /\ Posted(c, p) /\ UNCHANGED << read, subs, place, stacks, control >>

-----------------------------------------------------------------------------
(* Reading.                                                                *)

Command(name) == pc = "command" /\ name \in menu

cmd_next_text ==
  LET t == NextOf(Current_conf) IN
  /\ Command("next_text") /\ Last_conf' = Current_conf
  /\ IF t = 0
     THEN /\ cstack' = <<>> /\ read' = Found(Current_conf)
          /\ UNCHANGED << Last_text, Current_text, lastFrom, rstack >>
     ELSE ReadHere(t, Found(Current_conf), <<>>)
  /\ UNCHANGED << board, subs, Current_conf, ustack, control >>

cmd_next_comment ==
  /\ Command("next_comment") /\ Last_conf' = Current_conf
  /\ \/ cstack # <<>> /\ ReadHere(Last(cstack).num, read, Front(cstack))
     \/ cstack = <<>> /\ UNCHANGED << read, Last_text, Current_text, lastFrom, cstack, rstack >>
  /\ UNCHANGED << board, subs, Current_conf, ustack, control >>

(* readall and readsome: comments, else the next text, else elsewhere.     *)
BeginAll(all) ==
  /\ Command("readall") /\ pc' = "all" /\ job' = [op |-> "all", all |-> all]
  /\ UNCHANGED << board, read, subs, place, stacks, asked >>

AllStep ==
  LET t == IF cstack # <<>> THEN Last(cstack).num ELSE NextOf(Current_conf) IN
  /\ pc = "all"
  /\ \/ /\ t # 0
        /\ IF cstack # <<>> THEN ReadHere(t, read, Front(cstack))
                            ELSE ReadHere(t, Found(Current_conf), <<>>)
        /\ UNCHANGED << Current_conf, Last_conf, control >>
     \/ /\ t = 0 /\ job.all /\ MoreConf # NoConf
        /\ SetConf(MoreConf) /\ read' = AfterMoreConf(Found(Current_conf))
        /\ UNCHANGED << Last_text, Current_text, lastFrom, cstack, rstack, control >>
     \/ /\ t = 0 /\ (job.all => MoreConf = NoConf)
        /\ read' = IF job.all THEN AfterMoreConf(Found(Current_conf)) ELSE Found(Current_conf)
        /\ pc' = "command" /\ job' = NoJob
        /\ UNCHANGED << place, cstack, rstack, asked >>
  /\ UNCHANGED << board, subs, ustack >>

(* parse_text: a number or "last" in this conference, "followed-up" where  *)
(* the last text was.                                                      *)
Commented == IF Last_text = 0 \/ Last_text \notin files[Last_conf] THEN Nothing
             ELSE parent[Last_conf][Last_text]

ParseText(a) == CASE a.is = "number"   -> Text(Current_conf, a.num)
                  [] a.is = "last"     -> Text(Current_conf, Current_text)
                  [] a.is = "followed" -> IF Commented.num = 0 THEN Text(Last_conf, 0) ELSE Commented

cmd_read_text(a) ==
  LET t == ParseText(a) IN
  /\ Command("read_text") /\ Last_conf' = t.conf
  /\ IF t.num # 0 /\ t.num \in files[t.conf]
     THEN /\ read' = Mark(read, t.conf, FollowGone(t.conf, t.num))
          /\ Last_text' = t.num /\ lastFrom' = t.conf
     ELSE UNCHANGED << read, Last_text, lastFrom >>
  /\ UNCHANGED << board, subs, Current_conf, Current_text, stacks, control >>

(* A comment on the last text, or on another one: linked and read at once. *)
cmd_comment(a) ==
  LET t == IF a.is = "default" THEN Text(Current_conf, Last_text) ELSE ParseText(a)
      n == LastOf(Current_conf) + 1
  IN
  /\ Command("comment") /\ Current_conf # Mailbox
  /\ a.is = "default" => Last_conf = Current_conf
  /\ t.num \in files[Current_conf]
  /\ Posted(Current_conf, Text(Current_conf, t.num))
  /\ read' = Mark(read, Current_conf, {n})
  /\ Last_text' = n /\ lastFrom' = Current_conf
  /\ Last_conf' = IF a.is = "default" THEN Last_conf ELSE t.conf
  /\ UNCHANGED << subs, Current_conf, Current_text, stacks, control >>

-----------------------------------------------------------------------------
(* Going elsewhere.                                                        *)

(* Mutant: the comments of the old conference stay on the stack.           *)
EnterKeeping(c) ==
  /\ SetConf(c) /\ UNCHANGED cstack
  /\ Current_text' = LastOf(c) /\ Last_text' = LastOf(c) /\ lastFrom' = c

Enter(c) ==
  /\ SetConf(c) /\ cstack' = <<>>
  /\ Current_text' = LastOf(c) /\ Last_text' = LastOf(c) /\ lastFrom' = c

cmd_next_conf ==
  /\ Command("next_conf") /\ read' = AfterMoreConf(read)
  /\ IF MoreConf = NoConf THEN UNCHANGED << place, cstack >> ELSE Enter(MoreConf)
  /\ UNCHANGED << board, subs, rstack, ustack, control >>

(* Who is not a member is asked to join: the list begins with what is gone *)
(* below the first text.                                                   *)
cmd_change_conf(c) ==
  /\ Command("change_conf") /\ Enter(c)
  /\ subs' = subs \cup {c}
  /\ read' = IF c \in subs THEN read
             ELSE [read EXCEPT ![c] = {n \in 1 .. LastOf(c) : \A m \in files[c] : n < m}]
  /\ UNCHANGED << board, rstack, ustack, control >>

cmd_unsubscribe(c) ==
  /\ Command("unsubscribe") /\ c \in subs \ {Mailbox}
  /\ subs' = subs \ {c} /\ read' = [read EXCEPT ![c] = {}]
  /\ IF c = Current_conf THEN SetConf(Mailbox) /\ cstack' = <<>>
                         ELSE UNCHANGED << Current_conf, Last_conf, cstack >>
  /\ UNCHANGED << board, Last_text, Current_text, lastFrom, rstack, ustack, control >>

-----------------------------------------------------------------------------
(* Along a tree: jump_over and jump_tree mark it as read, goto_text and    *)
(* unread_tree as unread.                                                  *)

(* tree_top: up to the first text whose comment is elsewhere or gone.      *)
TreeTop(c, n) ==
  LET top[m \in 0 .. MaxText] ==
        IF m \in files[c] /\ parent[c][m].conf = c /\ parent[c][m].num \in files[c]
        THEN top[parent[c][m].num] ELSE m
  IN top[n]

(* The texts below n, comment after comment, all of them there.  Letters   *)
(* have none: no comment lines are looked for in the mailbox.              *)
Tree(c, n) ==
  LET below[m \in 0 .. MaxText] ==
        m \in files[c] /\ (m = n \/ (c # Mailbox /\ parent[c][m].conf = c
                                      /\ parent[c][m].num \in 1 .. m - 1 /\ below[parent[c][m].num]))
  IN {m \in n .. LastOf(c) : below[m]}

BeginWalk(mark, root) ==
  /\ pc' = "walk" /\ cstack' = <<>>
  /\ job' = [op |-> "walk", mark |-> mark, root |-> root, next |-> root, tree |-> Tree(Current_conf, root),
             last |-> LastOf(Current_conf), before |-> read[Current_conf]]
  /\ UNCHANGED << board, read, subs, rstack, ustack, asked >>

cmd_jump_over ==
  /\ Command("jump_over") /\ Last_text # 0
  /\ BeginWalk("read", Last_text) /\ UNCHANGED place

cmd_jump_tree ==
  /\ Command("jump_tree") /\ Current_conf # Mailbox /\ Last_text # 0
  /\ BeginWalk("read", TreeTop(Current_conf, Last_text)) /\ UNCHANGED place

cmd_goto_text(a) ==
  LET t == ParseText(a) IN
  /\ Command("goto_text") /\ Current_conf # Mailbox
  /\ Last_conf' = t.conf
  /\ IF t.num \in files[Current_conf]
     THEN BeginWalk("unread", t.num)
     ELSE /\ cstack' = <<>>
          /\ UNCHANGED << board, read, subs, rstack, ustack, control >>
  /\ UNCHANGED << Current_conf, Last_text, Current_text, lastFrom >>

cmd_unread_tree(n) ==
  LET t == IF n = 0 THEN Last_text ELSE n IN
  /\ Command("unread_tree") /\ Current_conf # Mailbox /\ t \in files[Current_conf]
  /\ BeginWalk("unread", TreeTop(Current_conf, t)) /\ UNCHANGED place

(* One round of the loop: mark, stack_text, pop_comment.                   *)
WalkStep ==
  LET c == Current_conf
      stack == cstack \o Entries(c, Stacked(c, job.next))
      marked == IF job.mark = "read" THEN Mark(read, c, {job.next}) ELSE Unmark(read, c, {job.next})
  IN
  /\ pc = "walk"
  /\ read' = Mark(marked, c, Gone(c, job.next))
  /\ IF stack = <<>>
     THEN cstack' = <<>> /\ pc' = "command" /\ job' = NoJob
     ELSE cstack' = Front(stack) /\ job' = [job EXCEPT !.next = Last(stack).num] /\ UNCHANGED pc
  /\ UNCHANGED << board, subs, place, rstack, ustack, asked >>

-----------------------------------------------------------------------------
(* Over all unread texts: jumpsub, jumpuser and the packet of sendbatch    *)
(* mark them as read one by one, keep those they do not mean, and mark     *)
(* these as unread again; sendbatch asks whether to mark them after all.   *)

BeginSweep(confs, match, ask) ==
  /\ Command("sweep") /\ pc' = "sweep"
  /\ job' = [op |-> "sweep", confs |-> confs, match |-> match, ask |-> ask, hit |-> FALSE,
             kept |-> <<>>, back |-> 1,
             due |-> (UNION {{Text(c, n) : n \in There(c)} : c \in ToSet(confs)}) \ match]
  /\ UNCHANGED << board, read, subs, place, stacks, asked >>

cmd_jumpsub   == BeginSweep(<< Current_conf >>, Match, FALSE)
cmd_sendbatch == BeginSweep(<< Mailbox >> \o Kept(Order, subs), {}, TRUE)

SweepStep ==
  LET c == Head(job.confs)
      n == NextOf(c)
      matches == Text(c, n) \in job.match
      opens == n \in files[c]
  IN
  /\ pc = "sweep" /\ job.confs # <<>>
  /\ IF n = 0
     THEN /\ job' = [job EXCEPT !.confs = Tail(@)] /\ read' = Found(c)
     ELSE /\ job' = [job EXCEPT !.hit = @ \/ (opens /\ matches),
                                !.kept = IF job.ask \/ (opens /\ ~matches)
                                         THEN Append(@, Text(c, n)) ELSE @]
          /\ read' = Mark(Found(c), c, {n})
  /\ UNCHANGED << board, subs, place, stacks, pc, asked >>

Swept    == pc = "sweep" /\ job.confs = <<>>
Restored == job.back > Len(job.kept)

(* Mutant: the list is gone along two at a time.                           *)
RestoreSkips ==
  /\ Swept /\ ~Restored
  /\ read' = Unmark(read, job.kept[job.back].conf, {job.kept[job.back].num})
  /\ job' = [job EXCEPT !.back = @ + 2]
  /\ UNCHANGED << board, subs, place, stacks, pc, asked >>

RestoreStep ==
  /\ Swept /\ ~Restored
  /\ read' = Unmark(read, job.kept[job.back].conf, {job.kept[job.back].num})
  /\ job' = [job EXCEPT !.back = @ + 1]
  /\ UNCHANGED << board, subs, place, stacks, pc, asked >>

(* The packet's texts may be marked as read after all.                     *)
SweepEnd(mark) ==
  /\ Swept /\ Restored /\ (mark => job.ask)
  /\ read' = IF mark
             THEN [c \in Confs |-> read[c] \cup {t.num : t \in {u \in ToSet(job.kept) : u.conf = c}}]
             ELSE read
  /\ cstack' = IF job.hit THEN <<>> ELSE cstack
  /\ pc' = "command" /\ job' = NoJob
  /\ UNCHANGED << board, subs, place, rstack, ustack, asked >>

(* cmd_unreadsub: from the last text down to the one after the first.      *)
cmd_unreadsub(max) ==
  LET c == Current_conf
      first == IF files[c] = {} THEN 0 ELSE CHOOSE n \in files[c] : \A m \in files[c] : n <= m
      meant == {n \in files[c] : n > first /\ Text(c, n) \in Match /\ n \in read[c]}
      taken == {n \in meant : Cardinality({m \in meant : m > n}) < max}
  IN
  /\ Command("unreadsub") /\ read' = Unmark(read, c, taken)
  /\ cstack' = IF c \in subs /\ taken # {} THEN <<>> ELSE cstack
  /\ UNCHANGED << board, subs, place, rstack, ustack, control >>

(* cmd_only: the last n texts unread.                                      *)
cmd_only(n) ==
  /\ Command("only") /\ Current_conf \in subs /\ n <= LastOf(Current_conf)
  /\ read' = [read EXCEPT ![Current_conf] = 1 .. LastOf(Current_conf) - n]
  /\ cstack' = <<>>
  /\ UNCHANGED << board, subs, place, rstack, ustack, control >>

-----------------------------------------------------------------------------
(* Backwards, and at logout.                                               *)

(* Every entry of a sequence of texts is marked as unread.                 *)
UnmarkAll(r, s) ==
  [c \in Confs |-> IF c \in subs THEN r[c] \ {t.num : t \in {u \in ToSet(s) : u.conf = c}} ELSE r[c]]

cmd_back_text(n) ==
  LET k == IF n < Len(rstack) THEN n ELSE Len(rstack) IN
  /\ Command("back_text") /\ k > 0
  /\ rstack' = SubSeq(rstack, 1, Len(rstack) - k)
  /\ read' = UnmarkAll(read, SubSeq(rstack, Len(rstack) - k + 1, Len(rstack)))
  /\ SetConf(rstack[Len(rstack) - k + 1].conf) /\ cstack' = <<>>
  /\ UNCHANGED << board, subs, Last_text, Current_text, lastFrom, ustack, control >>

(* unread_text: at logout; the number is taken in this conference.         *)
cmd_unread_text(a) ==
  LET t == IF a.is = "default" THEN Text(Last_conf, Last_text) ELSE ParseText(a) IN
  /\ Command("unread_text") /\ Len(ustack) < MaxAsked
  /\ t.num # 0 /\ t.num \in files[Current_conf]
  /\ ustack' = Append(ustack, Text(Current_conf, t.num))
  /\ wanted' = wanted \cup {Text(Current_conf, t.num)}
  /\ Last_conf' = t.conf
  /\ UNCHANGED << board, read, subs, Current_conf, Last_text, Current_text, lastFrom,
                  cstack, rstack, pc, job, missed >>

(* pop_unread takes the last one that was pushed.  Others than the texts   *)
(* meant go over a second stack (ustack2) and back.                        *)
BeginTake(op, only, locked) ==
  /\ pc' = "take"
  /\ job' = [op |-> op, only |-> only, locked |-> locked, held |-> Nothing, aside |-> <<>>, first |-> NoConf]
Taking == pc \in {"take", "back"}
InHand == IF Taking THEN ToSet(job.aside) \cup ({job.held} \ {Nothing}) ELSE {}

(* reclaim_unread: now instead, all of them or those of one conference.    *)
cmd_reclaim_unread(only) ==
  /\ Command("reclaim_unread") /\ ustack # <<>> /\ BeginTake("reclaim", only, FALSE)
  /\ UNCHANGED << board, read, subs, place, stacks, asked >>

(* exec_logout, from the prompt or, hung up, from anywhere; it may be hung *)
(* up itself.  When it interrupts a change of CONFS_FILE, the file is      *)
(* locked by this session.                                                 *)
exec_logout(locked) ==
  /\ pc # "out" /\ BeginTake("logout", Confs, locked \/ (Taking /\ job.locked))
  /\ missed' = missed \cup InHand
  /\ UNCHANGED << board, read, subs, place, stacks, wanted >>

PopUnread ==
  LET t == Last(ustack) IN
  /\ pc = "take" /\ job.held = Nothing /\ ustack # <<>>
  /\ ustack' = Front(ustack)
  /\ job' = IF t.conf \in job.only
            THEN [job EXCEPT !.held = t, !.first = IF @ = NoConf THEN t.conf ELSE @]
            ELSE [job EXCEPT !.aside = Append(@, t)]
  /\ UNCHANGED << board, read, subs, place, cstack, rstack, pc, asked >>

MarkHeld ==
  LET t == job.held IN
  /\ pc = "take" /\ t # Nothing /\ job' = [job EXCEPT !.held = Nothing]
  /\ read'   = IF job.locked THEN read ELSE Unmark(read, t.conf, {t.num})
  /\ missed' = IF job.locked THEN missed \cup {t} ELSE missed
  /\ wanted' = IF job.op = "reclaim" THEN wanted \ {t} ELSE wanted
  /\ UNCHANGED << board, subs, place, stacks, pc >>

AllTaken == pc = "back" \/ (pc = "take" /\ job.held = Nothing /\ ustack = <<>>)

PutBack ==
  /\ AllTaken /\ job.aside # <<>> /\ pc' = "back"
  /\ ustack' = Append(ustack, Last(job.aside)) /\ job' = [job EXCEPT !.aside = Front(@)]
  /\ UNCHANGED << board, read, subs, place, cstack, rstack, asked >>

(* Mutant: the other conferences' texts are not pushed back.               *)
ReclaimForgets ==
  /\ AllTaken /\ job.op = "reclaim" /\ pc' = "command" /\ job' = NoJob
  /\ IF job.first # NoConf THEN SetConf(job.first) /\ cstack' = <<>>
                           ELSE UNCHANGED << Current_conf, Last_conf, cstack >>
  /\ UNCHANGED << board, read, subs, Last_text, Current_text, lastFrom, rstack, ustack, asked >>

ReclaimEnd ==
  /\ AllTaken /\ job.op = "reclaim" /\ job.aside = <<>> /\ pc' = "command" /\ job' = NoJob
  /\ IF job.first # NoConf THEN SetConf(job.first) /\ cstack' = <<>>
                           ELSE UNCHANGED << Current_conf, Last_conf, cstack >>
  /\ UNCHANGED << board, read, subs, Last_text, Current_text, lastFrom, rstack, ustack, asked >>

LogoutEnd ==
  /\ AllTaken /\ job.op = "logout" /\ pc' = "out" /\ job' = NoJob
  /\ UNCHANGED << board, read, subs, place, stacks, asked >>

-----------------------------------------------------------------------------
Numbers == {[is |-> "number", num |-> n] : n \in 1 .. MaxText}
Words   == {[is |-> "last"], [is |-> "followed"]}
Default == [is |-> "default"]

Read ==
  \/ cmd_next_text \/ cmd_next_comment \/ AllStep
  \/ \E all \in BOOLEAN : BeginAll(all)
  \/ \E a \in Numbers \cup Words : cmd_read_text(a)
  \/ \E a \in Words \cup {Default} : cmd_comment(a)
  \/ cmd_next_conf \/ \E c \in Confs : cmd_change_conf(c) \/ cmd_unsubscribe(c)

Trees ==
  \/ cmd_jump_over \/ cmd_jump_tree \/ WalkStep
  \/ \E a \in Numbers \cup Words : cmd_goto_text(a)
  \/ \E n \in 0 .. MaxText : cmd_unread_tree(n)

Sweeps ==
  \/ cmd_jumpsub \/ cmd_sendbatch \/ SweepStep \/ RestoreStep \/ \E mark \in BOOLEAN : SweepEnd(mark)
  \/ \E max \in 1 .. 2 : cmd_unreadsub(max)
  \/ \E n \in 0 .. MaxText : cmd_only(n)

Back ==
  \/ \E n \in 1 .. MaxRead : cmd_back_text(n)
  \/ \E a \in Numbers \cup Words \cup {Default} : cmd_unread_text(a)
  \/ \E only \in {Confs} \cup {{c} : c \in Confs} : cmd_reclaim_unread(only)
  \/ PopUnread \/ MarkHeld \/ PutBack \/ ReclaimEnd \/ LogoutEnd
  \/ \E locked \in BOOLEAN : exec_logout(locked)

Elsewhere ==
  \/ \E c \in Confs : \E n \in files[c] : Delete(c, n)
  \/ \E c \in ToSet(Order) : \E p \in {0} \cup files[c] : Post(c, IF p = 0 THEN Nothing ELSE Text(c, p))

Next == Read \/ Trees \/ Sweeps \/ Back \/ Elsewhere

Spec == Init /\ [][Next]_vars

-----------------------------------------------------------------------------
(* Whatever commands came before, the comments that wait to be read are    *)
(* comments of the conference the user is in, each of them once: the stack *)
(* keeps numbers only, and every way out of a conference has to empty it   *)
(* (push_comment, clear_comment after set_conf).                           *)
CommentsHere ==
  \A i \in DOMAIN cstack :
    /\ cstack[i].conf = Current_conf
    /\ \A j \in 1 .. i - 1 : cstack[j] # cstack[i]

(* A walk along a tree (jump_over, jump_tree, goto_text, unread_tree),     *)
(* while texts are deleted and posted: every text of the tree that was     *)
(* there all the time is marked in the end, and no text outside of it but  *)
(* those that are gone, or have come since.                                *)
WalkExact ==
  [][pc = "walk" /\ pc' = "command" /\ Current_conf \in subs =>
       LET c == Current_conf
           all  == job.tree \cap Tree(c, job.root)
           some == job.tree \cup {job.root} \cup job.last + 1 .. LastOf(c)
           gone == (1 .. LastOf(c)) \ files[c]
       IN IF job.mark = "read"
          THEN all \subseteq read'[c] /\ job.before \subseteq read'[c]
               /\ read'[c] \ job.before \subseteq some \cup gone
          ELSE all \cap read'[c] = {} /\ job.before \ read'[c] \subseteq some
               /\ read'[c] \ job.before \subseteq gone]_vars

(* jumpsub, jumpuser and sendbatch mark every unread text as read before   *)
(* they take back those they do not mean: when they end, a text that was   *)
(* unread, not meant, and is still there is unread as before.              *)
SweepKeeps ==
  [][\A mark \in BOOLEAN : SweepEnd(mark) /\ ~mark =>
       \A t \in job.due : t.num \in files[t.conf] => t.num \notin read'[t.conf]]_vars

(* What the user asked to have unread again at logout, and did not take    *)
(* back, is unread when the session is over, however it ended, in every    *)
(* conference the user is still a member of: but for texts that a hangup   *)
(* finds in the hands of reclaim_unread or of another logout, and for all  *)
(* when it interrupts a change of CONFS_FILE.                              *)
LogoutUnreads ==
  pc = "out" => \A t \in wanted \ missed : t.conf \in subs => t.num \notin read[t.conf]

(* help.eng/comment: without a number, the last read article is followed   *)
(* up.  Last_text is then the number of a text of this conference.         *)
CommentsLastRead ==
  [][cmd_comment(Default) => lastFrom = Current_conf]_vars
=============================================================================
