------------------------------ MODULE Reading ------------------------------
(***************************************************************************)
(* One user's session reading conferences, while other processes post and  *)
(* delete texts.  The session owns the user's CONFS_FILE (the subscribed   *)
(* conferences and, per conference, the list of texts read); the texts and *)
(* last_text of every conference are shared.  next_text and more_conf look *)
(* for an unread text whose file exists and mark the missing ones as read  *)
(* on their way; they run in the prompt, in a command or, called by haffo, *)
(* inside the handler of SIGNAL_NEW_TEXT.                                  *)
(*                                                                         *)
(* One session per user: a second one is a matter of add_active.           *)
(***************************************************************************)
EXTENDS IntervalList, FiniteSets

CONSTANTS
  Confs,      \* the conferences, Mailbox included
  Mailbox,    \* conference 0, first in every CONFS_FILE
  MaxText,    \* bound: texts ever posted in a conference, [Confs -> Nat]
  MaxGap      \* bound: texts in a row that are deleted above an existing one

ASSUME ConfsAssumption == Mailbox \in Confs
ASSUME BoundsAssumption == MaxText \in [Confs -> Nat] /\ MaxGap \in Nat

VARIABLES
  lastText,       \* ce.last_text of CONF_FILE, or of the user's MAILBOX_FILE
  files,          \* the text files SKLAFF_DB/conf/num that exist
  confs,          \* the subscribed conferences after Mailbox, in file order
  il,             \* the interval list of every subscribed conference
  Current_conf,   \* where the user is
  Change_prompt,  \* the prompt has to be worked out again
  Nexttext,       \* the text the prompt offers, 0 for none, -1 for unknown
  pc,             \* where the session is
  job,            \* the operation that runs
  queue,          \* conferences next_text (one) or more_conf has left to look at
  limit,          \* last_text as it was when the scan began
  flag,           \* first_text was called in this scan
  first, high     \* the bounds of first_text's search; first is its result

board   == << lastText, files >>
user    == << confs, il >>
session == << Current_conf, Change_prompt, Nexttext >>
scan    == << job, queue, limit, flag, first, high >>
vars    == << board, user, session, pc, scan >>

Jobs    == {"None", "PromptText", "PromptConf", "NextText", "NextConf", "Subscribe", "Only"}
Labels  == {"prompt", "input", "conf", "scan", "search", "skip", "store"}

NoText  == 0
Unknown == -1

Subscribed == {Mailbox} \cup Range(confs)

NoLimit == [c \in Confs |-> 0]

(* An operation returns, and its local variables are gone.                 *)
Return(label) ==
  /\ pc' = label /\ job' = "None"
  /\ queue' = <<>> /\ limit' = NoLimit /\ flag' = FALSE /\ first' = 1 /\ high' = 1

Init ==
  /\ lastText = [c \in Confs |-> 0]
  /\ files = [c \in Confs |-> {}]
  /\ confs = <<>>
  /\ il = [c \in Confs |-> <<>>]
  /\ Current_conf = Mailbox
  /\ Change_prompt = TRUE
  /\ Nexttext = Unknown
  /\ pc = "prompt" /\ job = "None"
  /\ queue = <<>> /\ limit = NoLimit /\ flag = FALSE /\ first = 1 /\ high = 1

-----------------------------------------------------------------------------
(* The other processes.                                                    *)

(* save_text writes the file of the next text, then last_text.             *)
PostFile(c) ==
  /\ lastText[c] < MaxText[c]
  /\ files' = [files EXCEPT ![c] = @ \cup {lastText[c] + 1}]
  /\ UNCHANGED << lastText, user, session, pc, scan >>

PostPublish(c) ==
  /\ lastText[c] + 1 \in files[c]
  /\ lastText' = [lastText EXCEPT ![c] = @ + 1]
  /\ UNCHANGED << files, user, session, pc, scan >>

(* No more than MaxGap texts in a row are missing above an existing one.   *)
GapsBounded(exist, last) ==
  \A t \in exist : \A u \in t + 1 .. last :
    u - t > MaxGap => (t + 1 .. u) \cap exist # {}

(* cmd_delete_text, and the expiry of old texts.                           *)
Delete(c, t) ==
  /\ t \in files[c] /\ t <= lastText[c]
  /\ GapsBounded(files[c] \ {t}, lastText[c])
  /\ files' = [files EXCEPT ![c] = @ \ {t}]
  /\ UNCHANGED << lastText, user, session, pc, scan >>

(* SIGNAL_NEW_TEXT: haffo redraws the prompt of a session that waits for   *)
(* input, baffo leaves a note for the others.                              *)
Signal ==
  /\ Change_prompt' = TRUE
  /\ pc' = IF pc = "input" THEN "prompt" ELSE pc
  /\ UNCHANGED << board, user, Current_conf, Nexttext, scan >>

Others == \/ \E c \in Confs : PostFile(c) \/ PostPublish(c)
          \/ \E c \in Confs : \E t \in files[c] : Delete(c, t)
          \/ Signal

-----------------------------------------------------------------------------
(* The prompt.                                                             *)

BeginText(j) ==
  /\ job' = j /\ pc' = "scan"
  /\ queue' = << Current_conf >> /\ limit' = lastText /\ flag' = FALSE
  /\ UNCHANGED << first, high >>

DisplayPrompt ==
  /\ pc = "prompt" /\ Change_prompt
  /\ BeginText("PromptText")
  /\ Nexttext' = Unknown
  /\ UNCHANGED << board, user, Current_conf, Change_prompt >>

(* more_comment comes before more_text, and a database that cannot be read *)
(* before both: the prompt offers a comment, or nothing.                   *)
OtherPrompt ==
  /\ pc = "prompt" /\ Change_prompt
  /\ Nexttext' = Unknown
  /\ Change_prompt' \in BOOLEAN   \* a comment, the bad database
  /\ pc' = "input"
  /\ UNCHANGED << board, user, Current_conf, scan >>

(* Mutant: the old prompt is shown although it has to be worked out again. *)
SamePromptAlways ==
  /\ pc = "prompt"
  /\ pc' = "input"
  /\ UNCHANGED << board, user, session, scan >>

SamePrompt ==
  /\ pc = "prompt" /\ ~Change_prompt
  /\ pc' = "input"
  /\ UNCHANGED << board, user, session, scan >>

-----------------------------------------------------------------------------
(* next_text and more_conf share their loop: next_text runs it for one     *)
(* conference, more_conf for the conferences ahead of the current one and  *)
(* then for those behind it, with one flag and one first for all of them.  *)

Here == CHOOSE i \in DOMAIN confs : confs[i] = Current_conf

(* Mutant: the entry that is bypassed is not the mailbox's.                *)
BehindBypass == IF Current_conf = Mailbox THEN SubSeq(confs, 2, Len(confs)) ELSE SubSeq(confs, 2, Here - 1)

Ahead  == IF Current_conf = Mailbox THEN confs ELSE SubSeq(confs, Here + 1, Len(confs))
Behind == IF Current_conf = Mailbox THEN confs ELSE SubSeq(confs, 1, Here - 1)

(* What next_text answers: 0 when nothing is left to read.                 *)
TextAnswer(t) ==
  /\ \/ /\ job = "PromptText"
        /\ Nexttext' = t
        /\ IF t = NoText
           THEN pc' = "conf" /\ job' = "PromptConf" /\ UNCHANGED << queue, limit, flag, first, high >>
           ELSE Return("input")
        /\ UNCHANGED il
     \/ /\ job = "NextText"
        /\ Nexttext' = Unknown
        /\ il' = IF t = NoText THEN il ELSE [il EXCEPT ![Current_conf] = MarkAsRead(@, t)]
        /\ Return("prompt")
  /\ UNCHANGED << board, confs, Current_conf, Change_prompt >>

(* more_conf answers a conference, or -1.                                  *)
ConfFound(c) ==
  /\ \/ job = "PromptConf" /\ Return("input") /\ UNCHANGED Current_conf
     \/ job = "NextConf" /\ Return("prompt") /\ Current_conf' = c
  /\ UNCHANGED << board, user, Change_prompt, Nexttext >>

ConfNone ==
  /\ \/ job = "PromptConf" /\ Return("input") /\ Change_prompt' = FALSE
     \/ job = "NextConf" /\ Return("prompt") /\ UNCHANGED Change_prompt
  /\ UNCHANGED << board, user, Current_conf, Nexttext >>

(* more_conf looks in the mailbox first, then takes its snapshot.          *)
MailUnread == FirstUnread(il[Mailbox]) <= lastText[Mailbox]

ConfBegin ==
  /\ pc = "conf"
  /\ IF MailUnread
     THEN ConfFound(Mailbox)
     ELSE /\ queue' = Ahead \o Behind /\ limit' = lastText /\ flag' = FALSE
          /\ pc' = "scan"
          /\ UNCHANGED << board, user, session, job, first, high >>

Scanned == Head(queue)
Probed  == FirstUnread(il[Scanned])
Scanning == pc = "scan" /\ queue # <<>>
TextJob  == job \in {"PromptText", "NextText"}

(* The next text to read: in the mailbox it is not looked for.             *)
ScanFound ==
  /\ Scanning /\ Probed <= limit[Scanned]
  /\ Scanned = Mailbox \/ Probed \in files[Scanned]
  /\ IF TextJob THEN TextAnswer(Probed) ELSE ConfFound(Scanned)

ScanMissing ==
  /\ Scanning /\ Probed <= limit[Scanned]
  /\ Scanned # Mailbox /\ Probed \notin files[Scanned]
  /\ IF NothingAbove(il[Scanned]) /\ ~flag
     THEN pc' = "search" /\ flag' = TRUE /\ first' = 1 /\ high' = lastText[Scanned]
     ELSE pc' = "skip" /\ UNCHANGED << flag, first, high >>
  /\ UNCHANGED << board, user, session, job, queue, limit >>

ScanPast ==
  /\ Scanning /\ Probed > limit[Scanned]
  /\ IF TextJob
     THEN TextAnswer(NoText)
     ELSE /\ queue' = Tail(queue)
          /\ UNCHANGED << board, user, session, pc, job, limit, flag, first, high >>

ScanEnd == pc = "scan" /\ queue = <<>> /\ ConfNone

(* Mutant: the entry is found again, but it was never written.             *)
SkipNothing == pc = "skip" /\ pc' = "scan" /\ UNCHANGED << board, user, session, scan >>

(* The missing texts below first become one interval if nothing above is   *)
(* marked; else the one text that was looked for is marked.                *)
Skip ==
  /\ pc = "skip"
  /\ il' = [il EXCEPT ![Scanned] =
              IF NothingAbove(@) /\ first > Probed THEN UpTo(first)
                                                   ELSE MarkAsRead(@, Probed)]
  /\ pc' = "scan"
  /\ UNCHANGED << board, confs, session, scan >>

(* first_text: a binary search for the first text that takes four missing  *)
(* texts in a row to mean that no text below them exists.                  *)
Middle == (first + high) \div 2

(* Mutant: the search looks one text less far back.                        *)
BackTwo == {t \in Middle - 2 .. Middle : t \in files[Scanned]}

Back   == {t \in Middle - 3 .. Middle : t \in files[Scanned]}

SearchStep ==
  /\ pc = "search" /\ first < high
  /\ IF Back = {} THEN first' = Middle + 1 /\ UNCHANGED high
                  ELSE high' = Max(Back) /\ UNCHANGED first
  /\ UNCHANGED << board, user, session, pc, job, queue, limit, flag >>

(* Mutant: the search of an empty conference answers its last_text, 0.     *)
SearchResultRaw == high

SearchResult == IF high < 1 THEN 1 ELSE high

SearchEnd ==
  /\ pc = "search" /\ first >= high
  /\ first' = SearchResult
  /\ pc' = IF job \in {"Subscribe", "Only"} THEN "store" ELSE "skip"
  /\ high' = 1
  /\ UNCHANGED << board, user, session, job, queue, limit, flag >>

-----------------------------------------------------------------------------
(* The commands.                                                           *)

Command == pc = "input"

(* cmd_next_text takes the text the prompt found, if it knows one.         *)
ReadNexttext ==
  /\ Command /\ Nexttext # Unknown
  /\ il' = IF Nexttext = NoText THEN il
           ELSE [il EXCEPT ![Current_conf] = MarkAsRead(@, Nexttext)]
  /\ Nexttext' = Unknown /\ pc' = "prompt"
  /\ UNCHANGED << board, confs, Current_conf, Change_prompt, scan >>

SearchNexttext ==
  /\ Command /\ Nexttext = Unknown
  /\ BeginText("NextText")
  /\ UNCHANGED << board, user, session >>

NextConf ==
  /\ Command
  /\ pc' = "conf" /\ job' = "NextConf"
  /\ UNCHANGED << board, user, session, queue, limit, flag, first, high >>

ChangeConf(c) ==
  /\ Command /\ c \in Subscribed
  /\ Current_conf' = c /\ pc' = "prompt"
  /\ UNCHANGED << board, user, Change_prompt, Nexttext, scan >>

(* cmd_next_comment, cmd_jump_over, cmd_jump_tree: texts off the stack.    *)
ReadText(t) ==
  /\ Command
  /\ il' = [il EXCEPT ![Current_conf] = MarkAsRead(@, t)]
  /\ pc' = "prompt"
  /\ UNCHANGED << board, confs, session, scan >>

(* cmd_goto_text: read this text and its comments again.                   *)
GotoText(t) ==
  /\ Command /\ Current_conf # Mailbox
  /\ il' = [il EXCEPT ![Current_conf] = MarkAsUnread(@, t)]
  /\ Change_prompt' = TRUE /\ pc' = "prompt"
  /\ UNCHANGED << board, confs, Current_conf, Nexttext, scan >>

(* cmd_subscribe and cmd_only search for the first text, then write.       *)
BeginSearch(j, c) ==
  /\ Command
  /\ job' = j /\ pc' = "search"
  /\ queue' = << c >> /\ first' = 1 /\ high' = lastText[c]
  /\ Change_prompt' = TRUE
  /\ UNCHANGED << board, user, Current_conf, Nexttext, limit, flag >>

Subscribe(c) == c \notin Subscribed /\ BeginSearch("Subscribe", c)
Only         == BeginSearch("Only", Current_conf)

SubscribeStore ==
  /\ pc = "store" /\ job = "Subscribe"
  /\ confs' = Append(confs, Scanned)
  /\ il' = [il EXCEPT ![Scanned] = UpTo(first)]
  /\ Return("prompt")
  /\ UNCHANGED << board, session >>

(* Leave the last n texts unread: an empty list, or texts 1 to last - n.   *)
OnlyStore(n) ==
  /\ pc = "store" /\ job = "Only"
  /\ n <= lastText[Current_conf] - first + 1
  /\ il' = [il EXCEPT ![Current_conf] = UpTo(lastText[Current_conf] - n + 1)]
  /\ Return("prompt")
  /\ UNCHANGED << board, confs, session >>

Unsubscribe(i) ==
  /\ Command
  /\ confs' = RemoveAt(confs, i)
  /\ il' = [il EXCEPT ![confs[i]] = <<>>]
  /\ Current_conf' = IF confs[i] = Current_conf THEN Mailbox ELSE Current_conf
  /\ pc' = "prompt"
  /\ UNCHANGED << board, Change_prompt, Nexttext, scan >>

-----------------------------------------------------------------------------
Scan == ConfBegin \/ ScanFound \/ ScanMissing \/ ScanPast \/ ScanEnd
          \/ Skip \/ SearchStep \/ SearchEnd

Commands ==
  \/ ReadNexttext \/ SearchNexttext \/ NextConf \/ Only
  \/ \E c \in Confs : ChangeConf(c) \/ Subscribe(c)
  \/ \E i \in DOMAIN confs : Unsubscribe(i)
  \/ \E t \in 1 .. lastText[Current_conf] : ReadText(t) \/ GotoText(t)
  \/ SubscribeStore
  \/ \E n \in 0 .. lastText[Current_conf] : OnlyStore(n)

Next == Others \/ DisplayPrompt \/ OtherPrompt \/ SamePrompt \/ Scan \/ Commands

(* The scan is plain sequential code: it runs on.                          *)
Spec == Init /\ [][Next]_vars /\ WF_vars(Scan)

-----------------------------------------------------------------------------
TypeOK ==
  /\ lastText \in [Confs -> Nat]
  /\ files \in [Confs -> SUBSET Nat]
  /\ confs \in Seq(Confs)
  /\ il \in [Confs -> Seq(Interval)]
  /\ Current_conf \in Subscribed
  /\ Change_prompt \in BOOLEAN
  /\ Nexttext \in Nat \cup {Unknown}
  /\ pc \in Labels /\ job \in Jobs
  /\ queue \in Seq(Confs)
  /\ pc \in {"skip", "search", "store"} => queue # <<>>
  /\ limit \in [Confs -> Nat]
  /\ flag \in BOOLEAN
  /\ first \in Nat \ {0} /\ high \in Int

(* Whatever the session does, every list it writes back is one that        *)
(* mark_as_read, mark_as_unread and num_unread can work on: intervals in   *)
(* order, with a gap of at least one text between two of them.             *)
ListsNormal == \A c \in Confs : NormalForm(il[c])

(* "conf: n unread" of num_unread is the number of texts up to last_text   *)
(* that are not marked; a mark above last_text would hide a text that is   *)
(* still to come.                                                          *)
CountsAgree ==
  \A c \in Confs :
    NumUnread(il[c], lastText[c]) = Cardinality((1 .. lastText[c]) \ MarkedTexts(il[c]))

(* The text a prompt offers is the one that is read: display_prompt works  *)
(* Nexttext out again after everything that could make it stale.           *)
OfferIsFresh ==
  pc = "input" /\ Nexttext > 0 => Nexttext = FirstUnread(il[Current_conf])

(* A search started by next_text or more_conf marks no text that somebody  *)
(* could still read.                                                       *)
SkipsOnlyMissing ==
  [][pc = "skip" =>
       (MarkedTexts(il'[Scanned]) \ MarkedTexts(il[Scanned])) \cap files[Scanned] = {}]_vars

(* first_text answers no text above one that exists, though texts are      *)
(* deleted and posted while it searches.                                   *)
NoTextBelow == pc = "search" /\ pc' # "search" => \A t \in files[Scanned] : first' <= t
FirstIsLowest == [][NoTextBelow]_vars

(* When more_conf answers -1, no other conference has an unread text up to *)
(* the last_text it read when it began.                                    *)
NothingLeftBehind ==
  [][pc = "scan" /\ queue = <<>> =>
       \A c \in Subscribed \ {Current_conf} :
         \A t \in files[c] \cap 1 .. limit[c] : Marked(il[c], t)]_vars

(* Missing texts keep no scan going for ever.                              *)
ScanEnds == pc = "scan" ~> pc \in {"prompt", "input"}

(* The session implements the abstract set of read texts: a search adds    *)
(* only missing texts to it, and only the user takes texts out of it.      *)
Abstract == INSTANCE ReadSet
              WITH read <- [c \in Confs |-> MarkedTexts(il[c])], exist <- files,
                   searching <- pc = "skip" \/ (pc = "store" /\ job = "Subscribe")
ImplementsReadSet == Abstract!Spec
=============================================================================
