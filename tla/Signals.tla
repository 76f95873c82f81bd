------------------------------- MODULE Signals -------------------------------
(***************************************************************************)
(* One session and the signals that reach it.  SIGHUP and SIGTERM (QUIT    *)
(* here) log it out wherever it is, except that critical blocks them while *)
(* a file is written.  SIGNAL_NEW_MSG and SIGNAL_NEW_TEXT set a flag       *)
(* (newmsg, baffo), or, while the session waits at an empty input line,    *)
(* display the messages and the prompt at once (haffo).  SIGALRM warns a   *)
(* user who types nothing, by a message to himself, then logs him out.     *)
(*                                                                         *)
(* The functions that block signals give them free with SIG_UNBLOCK and    *)
(* the mask they found, not with SIG_SETMASK: what was free before stays   *)
(* blocked, and what was blocked before is free.                           *)
(*                                                                         *)
(* A signal that is not blocked is handled before the next step of the     *)
(* program; its handler runs on top of what it interrupts, with that       *)
(* signal blocked too, and the mask is put back when it returns.           *)
(***************************************************************************)
EXTENDS Integers, FiniteSets, SequencesExt

CONSTANTS
  MaxMsgs,    \* bound: messages sent to the session
  MaxTexts,   \* bound: times that SIGNAL_NEW_TEXT is sent
  MaxDepth    \* bound: handlers running when the next signal is sent

ASSUME BoundsAssumption == MaxMsgs \in Nat /\ MaxTexts \in Nat /\ MaxDepth \in Nat

VARIABLES
  stack,        \* what runs: the main program, then the handlers; empty at the end
  mask,         \* the signals that are blocked
  Oldmask,      \* the global variable of critical and non_critical
  pending,      \* the signals that have been sent and not been handled
  haffo,        \* whether haffo is installed; else newmsg and baffo are
  Change_msg,   \* there are messages to display
  Warning,      \* the user has been warned
  alarm,        \* SIGALRM will come
  half,         \* CONFS_FILE is written, but not yet cut to its new length
  box,          \* the messages in MSG_FILE
  shown,        \* the messages that were displayed,
  dropped,      \* and those the user did not want to see at --more--
  sent,         \* how many messages have been sent,
  owed,         \* and how many of their signals have not
  texts         \* how often SIGNAL_NEW_TEXT was sent

signals == << mask, Oldmask, pending, haffo, Change_msg >>
timer   == << alarm, Warning >>
mail    == << box, shown, dropped, sent, owed >>
vars    == << stack, signals, timer, half, mail, texts >>

Notices == {"MSG", "TEXT"}
Sigs    == Notices \cup {"QUIT"}

Labels == {"msg", "open", "take", "free", "show", "more", "prompt", "half", "wait",
           "typing", "command", "warn", "store", "notify", "return"}

(* A frame: where it is, where a write goes back to, the messages it has   *)
(* read, the masks found by display_msg and by haffo, and the mask that    *)
(* its return puts back.                                                   *)
Frame == [pc : Labels, back : {"prompt", "command"}, read : Seq(1 .. MaxMsgs),
          old : SUBSET Sigs, found : SUBSET Sigs, saved : SUBSET Sigs]

NewFrame(label, m) ==
  [pc |-> label, back |-> "prompt", read |-> <<>>, old |-> {}, found |-> m, saved |-> mask]

Depth == Len(stack)
Top   == stack[Depth]
InMain == Depth = 1
Ended == stack = <<>>

Init ==
  /\ stack = << [pc |-> "msg", back |-> "prompt", read |-> <<>>,
                 old |-> {}, found |-> {}, saved |-> {}] >>
  /\ mask \in {{}, {"QUIT"}}   \* the login has written files
  /\ Oldmask = {} /\ pending = {}
  /\ haffo = FALSE /\ Change_msg = TRUE /\ Warning = FALSE /\ alarm = FALSE
  /\ half = FALSE
  /\ box = <<>> /\ shown = <<>> /\ dropped = <<>> /\ sent = 0 /\ owed = 0 /\ texts = 0

-----------------------------------------------------------------------------
(* The kernel.                                                             *)

Deliverable == pending \ mask

(* haffo blocks both notices, installs itself again and sets a flag.       *)
Haffo(s) ==
  /\ s \in Notices \cap Deliverable /\ haffo
  /\ stack' = Append(stack, NewFrame("msg", mask \cup {s}))
  /\ mask' = mask \cup Notices
  /\ pending' = pending \ {s}
  /\ Change_msg' = (Change_msg \/ s = "MSG")
  /\ UNCHANGED << Oldmask, haffo, timer, half, mail, texts >>

(* newmsg and baffo set a flag, and then give every signal free that they  *)
(* found blocked.                                                          *)
Note(s) ==
  /\ s \in Notices \cap Deliverable /\ ~haffo
  /\ stack' = Append(stack, NewFrame("return", {}))
  /\ mask' = {}
  /\ pending' = pending \ {s}
  /\ Change_msg' = (Change_msg \/ s = "MSG")
  /\ UNCHANGED << Oldmask, haffo, timer, half, mail, texts >>

(* exec_logout does not return.                                            *)
Logout ==
  /\ stack' = <<>>
  /\ UNCHANGED << mask, Oldmask, haffo, Change_msg, timer, half, mail, texts >>

Quit == "QUIT" \in Deliverable /\ Logout /\ pending' = pending \ {"QUIT"}

Return ==
  /\ Top.pc = "return"
  /\ mask' = Top.saved
  /\ stack' = Front(stack)
  /\ UNCHANGED << Oldmask, pending, haffo, Change_msg, timer, half, mail, texts >>

Deliver == ~Ended /\ (Quit \/ \E s \in Notices : Haffo(s) \/ Note(s))

-----------------------------------------------------------------------------
(* The program takes a step when no signal is to be handled first.         *)

At(label) == ~Ended /\ Deliverable = {} /\ Top.pc = label

GoTo(label) == stack' = [stack EXCEPT ![Depth].pc = label]

Critical    == Oldmask' = mask /\ mask' = mask \cup {"QUIT"}
NonCritical == mask' = mask \ Oldmask /\ UNCHANGED Oldmask

(* Mutant: only the messages' own signal is blocked.                       *)
DisplayMsgOpen ==
  /\ At("msg")
  /\ IF Change_msg
     THEN /\ stack' = [stack EXCEPT ![Depth].pc = "open", ![Depth].old = mask]
          /\ mask' = mask \cup {"MSG"}
     ELSE GoTo("prompt") /\ UNCHANGED mask
  /\ UNCHANGED << Oldmask, pending, haffo, Change_msg, timer, half, mail, texts >>

(* display_msg blocks the notices, unless there is nothing to display;     *)
DisplayMsg ==
  /\ At("msg")
  /\ IF Change_msg
     THEN /\ stack' = [stack EXCEPT ![Depth].pc = "open", ![Depth].old = mask]
          /\ mask' = mask \cup Notices
     ELSE GoTo("prompt") /\ UNCHANGED mask
  /\ UNCHANGED << Oldmask, pending, haffo, Change_msg, timer, half, mail, texts >>

(* reads MSG_FILE under its lock, unless that is held for thirty seconds:  *)
(* it then returns without giving the notices free.                        *)
Locked == \E i \in 1 .. Depth : stack[i].pc \in {"take", "store"}

ReadMsgs ==
  /\ At("open") /\ ~Locked
  /\ stack' = [stack EXCEPT ![Depth].pc = "take", ![Depth].read = box]
  /\ UNCHANGED << signals, timer, half, mail, texts >>

DisplayFails ==
  /\ At("open")
  /\ stack' = [stack EXCEPT ![Depth].pc = "prompt", ![Depth].old = {}]
  /\ UNCHANGED << signals, timer, half, mail, texts >>

(* and empties and closes it in a critical section;                        *)
TakeMsgs ==
  /\ At("take")
  /\ Critical
  /\ box' = <<>>
  /\ GoTo("free")
  /\ UNCHANGED << pending, haffo, Change_msg, timer, half, shown, dropped, sent, owed, texts >>

(* non_critical also gives the notices free.                               *)
FreeMsgs ==
  /\ At("free")
  /\ NonCritical
  /\ GoTo("show")
  /\ UNCHANGED << pending, haffo, Change_msg, timer, half, mail, texts >>

(* then displays them one after the other.                                 *)
ShowMsg ==
  /\ At("show") /\ Top.read # <<>>
  /\ shown' = Append(shown, Head(Top.read))
  /\ stack' = [stack EXCEPT ![Depth].read = Tail(Top.read)]
  /\ UNCHANGED << signals, timer, half, box, dropped, sent, owed, texts >>

ClearMsgs ==
  /\ At("show") /\ Top.read = <<>>
  /\ Change_msg' = FALSE
  /\ mask' = mask \ Top.old
  /\ stack' = [stack EXCEPT ![Depth].pc = "prompt", ![Depth].old = {}]
  /\ UNCHANGED << Oldmask, pending, haffo, timer, half, mail, texts >>

(* output: when the screen is full it waits for a key, with the alarm set. *)
More ==
  /\ At("show")
  /\ alarm' = TRUE
  /\ GoTo("more")
  /\ UNCHANGED << signals, Warning, half, mail, texts >>

AnyKey == alarm' = FALSE /\ Warning' = FALSE

GoOn ==
  /\ At("more") /\ AnyKey
  /\ GoTo("show")
  /\ UNCHANGED << signals, half, mail, texts >>

(* A q at --more--: display_msg does not display what is left of what it   *)
(* took out of MSG_FILE.                                                   *)
Stop ==
  /\ At("more") /\ AnyKey
  /\ dropped' = dropped \o Top.read
  /\ stack' = [stack EXCEPT ![Depth].pc = "show", ![Depth].read = <<>>]
  /\ UNCHANGED << signals, half, box, shown, sent, owed, texts >>

(* Mutant: the critical section begins when the file is written.           *)
BeginWriteOpen ==
  /\ At("prompt") \/ At("command")
  /\ ~half
  /\ half' = TRUE
  /\ stack' = [stack EXCEPT ![Depth].pc = "half", ![Depth].back = Top.pc]
  /\ UNCHANGED << signals, timer, mail, texts >>

(* The prompt and the commands mark texts as read: CONFS_FILE is rewritten *)
(* in a critical section.  A handler cannot open a file that the program   *)
(* it interrupts holds locked.                                             *)
BeginWrite ==
  /\ At("prompt") \/ At("command")
  /\ ~half
  /\ Critical
  /\ half' = TRUE
  /\ stack' = [stack EXCEPT ![Depth].pc = "half", ![Depth].back = Top.pc]
  /\ UNCHANGED << pending, haffo, Change_msg, timer, mail, texts >>

EndWrite ==
  /\ At("half")
  /\ half' = FALSE
  /\ NonCritical
  /\ stack' = [stack EXCEPT ![Depth].pc = Top.back, ![Depth].back = "prompt"]
  /\ UNCHANGED << pending, haffo, Change_msg, timer, mail, texts >>

(* After the prompt haffo ends; the main program waits for input.          *)
HaffoEnds ==
  /\ At("prompt") /\ ~InMain
  /\ mask' = mask \ Top.found
  /\ GoTo("return")
  /\ UNCHANGED << Oldmask, pending, haffo, Change_msg, timer, half, mail, texts >>

Input ==
  /\ At("prompt") /\ InMain
  /\ haffo' = TRUE /\ alarm' = TRUE
  /\ GoTo("wait")
  /\ UNCHANGED << mask, Oldmask, pending, Change_msg, Warning, half, mail, texts >>

HandlerReturns == ~Ended /\ Deliverable = {} /\ ~InMain /\ Return

(* cmd_change_passwd blocks the notices while another program runs.        *)
Passwd ==
  /\ At("command")
  /\ mask' = Notices \ mask
  /\ GoTo("msg")
  /\ UNCHANGED << Oldmask, pending, haffo, Change_msg, timer, half, mail, texts >>

CommandEnds ==
  /\ At("command")
  /\ GoTo("msg")
  /\ UNCHANGED << signals, timer, half, mail, texts >>

-----------------------------------------------------------------------------
(* The user types: haffo is installed while the line is empty.             *)
Key ==
  /\ At("wait") \/ At("typing")
  /\ Warning' = FALSE
  /\ \/ GoTo("wait") /\ haffo' = TRUE /\ alarm' = TRUE
     \/ GoTo("typing") /\ haffo' = FALSE /\ alarm' = TRUE
     \/ GoTo("command") /\ haffo' = FALSE /\ alarm' = FALSE
  /\ UNCHANGED << mask, Oldmask, pending, Change_msg, half, mail, texts >>

(* Another session's send_msg.                                             *)
Post == sent < MaxMsgs /\ sent' = sent + 1 /\ box' = Append(box, sent')

(* Mutant: a message is stored while display_msg has the file open.        *)
SendUnlocked ==
  /\ ~Ended /\ Post
  /\ owed' = owed + 1
  /\ UNCHANGED << stack, signals, timer, half, shown, dropped, texts >>

Send ==
  /\ ~Ended /\ ~Locked /\ Post
  /\ owed' = owed + 1
  /\ UNCHANGED << stack, signals, timer, half, shown, dropped, texts >>

(* timeout: SIGALRM, which critical does not block, interrupts what waits  *)
(* for a key, and the handlers on top of that.                             *)
Alarm ==
  /\ ~Ended /\ alarm /\ ~Warning
  /\ alarm' = FALSE /\ Warning' = TRUE
  /\ stack' = Append(stack, NewFrame("warn", {}))
  /\ UNCHANGED << signals, half, mail, texts >>

(* send_msg to its own user enters the critical section before it locks    *)
(* MSG_FILE.  When that fails it returns as it is: so it does when what it *)
(* interrupts has the file.                                                *)
WarnOpens ==
  /\ At("warn") /\ ~Locked /\ sent < MaxMsgs
  /\ Critical
  /\ GoTo("store")
  /\ UNCHANGED << pending, haffo, Change_msg, timer, half, mail, texts >>

WarnFails ==
  /\ At("warn")
  /\ Critical
  /\ GoTo("return") /\ alarm' = TRUE
  /\ UNCHANGED << pending, haffo, Change_msg, Warning, half, mail, texts >>

WarnStores ==
  /\ At("store") /\ Post
  /\ NonCritical
  /\ GoTo("notify")
  /\ UNCHANGED << pending, haffo, Change_msg, timer, half, shown, dropped, owed, texts >>

WarnNotifies ==
  /\ At("notify")
  /\ pending' = pending \cup {"MSG"}
  /\ GoTo("return") /\ alarm' = TRUE
  /\ UNCHANGED << mask, Oldmask, haffo, Change_msg, Warning, half, mail, texts >>

TimeOut == ~Ended /\ alarm /\ Warning /\ Logout /\ UNCHANGED pending

SignalMsg ==
  /\ ~Ended /\ owed > 0 /\ Depth <= MaxDepth
  /\ owed' = owed - 1
  /\ pending' = pending \cup {"MSG"}
  /\ UNCHANGED << stack, mask, Oldmask, haffo, Change_msg, timer, half, box, shown, dropped, sent, texts >>

SignalText ==
  /\ ~Ended /\ texts < MaxTexts /\ Depth <= MaxDepth
  /\ texts' = texts + 1
  /\ pending' = pending \cup {"TEXT"}
  /\ UNCHANGED << stack, mask, Oldmask, haffo, Change_msg, timer, half, mail >>

Hangup ==
  /\ ~Ended
  /\ pending' = pending \cup {"QUIT"}
  /\ UNCHANGED << stack, mask, Oldmask, haffo, Change_msg, timer, half, mail, texts >>

-----------------------------------------------------------------------------
Program ==
  \/ DisplayMsg \/ ReadMsgs \/ DisplayFails \/ TakeMsgs \/ FreeMsgs \/ ShowMsg \/ ClearMsgs
  \/ WarnOpens \/ WarnFails \/ WarnStores \/ WarnNotifies
  \/ EndWrite \/ HaffoEnds \/ Input \/ HandlerReturns \/ CommandEnds

Next == \/ Deliver \/ Program \/ More \/ GoOn \/ Stop \/ BeginWrite \/ Passwd \/ Key
        \/ Send \/ Alarm \/ TimeOut \/ SignalMsg \/ SignalText \/ Hangup

(* The kernel delivers, the program runs on, and a sender signals what it  *)
(* has written.                                                            *)
Spec == Init /\ [][Next]_vars /\ WF_vars(Deliver) /\ WF_vars(Program) /\ WF_vars(SignalMsg)

-----------------------------------------------------------------------------
TypeOK ==
  /\ stack \in Seq(Frame)
  /\ mask \in SUBSET Sigs /\ Oldmask \in SUBSET Sigs /\ pending \in SUBSET Sigs
  /\ haffo \in BOOLEAN /\ Change_msg \in BOOLEAN /\ Warning \in BOOLEAN /\ half \in BOOLEAN
  /\ alarm \in BOOLEAN /\ dropped \in Seq(1 .. MaxMsgs)
  /\ box \in Seq(1 .. MaxMsgs) /\ shown \in Seq(1 .. MaxMsgs)
  /\ sent \in 0 .. MaxMsgs /\ owed \in 0 .. sent /\ texts \in 0 .. MaxTexts

(* display_msg, send_msg: every message that was sent to a session that    *)
(* goes on is waiting in MSG_FILE, about to be displayed, displayed, or    *)
(* was stopped by the user at --more--, and only one of these, though      *)
(* handlers empty and fill the file that the program is emptying.          *)
Taken(frame) == IF frame.pc = "take" THEN <<>> ELSE frame.read

Places == << box, shown, dropped >> \o [i \in 1 .. Depth |-> Taken(stack[i])]

Copies(m) == {place \in (DOMAIN Places) \X (1 .. MaxMsgs) :
                /\ place[2] \in DOMAIN Places[place[1]]
                /\ Places[place[1]][place[2]] = m}

MessagesKept == ~Ended => \A m \in 1 .. sent : Cardinality(Copies(m)) = 1

(* display_msg: while it has MSG_FILE locked nothing interrupts it but the  *)
(* warning of SIGALRM, which cannot store its message then.  No handler    *)
(* that displays messages waits for a lock that the program it interrupts  *)
(* could not give back before the handler returns.                         *)
NoSelfLock ==
  \A i \in 1 .. Depth - 1 : stack[i].pc = "take" =>
    i + 1 = Depth /\ Warning /\ Top.pc \in {"warn", "return"}

(* critical keeps its word where no handler runs: a session that is logged *)
(* out in the middle of a write is in a handler.                           *)
CutInHandler == [][~Ended /\ Ended' /\ half => Depth > 1]_vars

(* Files are not left half written, because critical blocks the signals    *)
(* that end a session.                                                     *)
FilesWhole == Ended => ~half

(* A signal to quit that arrives in a critical section is served when the  *)
(* section is over.                                                        *)
QuitServed == "QUIT" \in pending ~> Ended

(* A message in MSG_FILE is displayed to a user who waits at the prompt.   *)
MessageShown == box # <<>> ~> (box = <<>> \/ Ended)
=============================================================================
