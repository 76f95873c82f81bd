------------------------------ MODULE Letters ------------------------------
(***************************************************************************)
(* What one user writes and where it goes: texts and comments in           *)
(* conferences, letters to users, to the Internet and to FTN networks,     *)
(* articles, from the editor to the mailbox, the queue or the program that *)
(* takes them, over lines that drop and deliveries that fail.              *)
(*                                                                         *)
(* The session's current conference and the text that is answered are      *)
(* inputs; membership is in Conferences, Last_text and the read texts in   *)
(* Threads and Reading, the writing of the files in Posting.               *)
(***************************************************************************)
EXTENDS Integers, SequencesExt, FiniteSetsExt

CONSTANTS None, Bad,
  Uid,              \* the user
  Friend,           \* another one
  Local, Ftn, News, \* the conferences, by their transport; sets of numbers
  Worlds,           \* [areas, comconf, copy, person, form, hangups]: how the system is set up,
                    \* the user's flag for copies of letters, who writes to him and from what
                    \* address, and as a bound how often the line drops
  MaxLetters

Confs == Local \cup Ftn \cup News
Places == Confs \cup {Uid, Friend}

VARIABLES
  world,   \* the member of Worlds that this is
  box,     \* the texts of every conference and mailbox
  jobs,    \* the queue of netmail
  echo,    \* the queue of echomail: << conference, number >>
  sent,    \* what mail programs, inews and ftntoss have taken
  edit,    \* the letter in the editor, or on its way, and the state of the session
  draft,   \* EDIT_FILE: the letters it has text of, or None
  dead,    \* DEAD_FILE: the conference and the header; Bad when it is cut short, or None
  hup,     \* what SIGHUP does: "exec_logout" or "abort_edit"
  hangups,
  meant,   \* of every letter, whom it was written to
  astray,  \* the letters that a failure or a hangup kept from that, or left in EDIT_FILE
  cut      \* those whose session ended between the text and what belongs to it, or that
           \* could not be copied

vars == << world, box, jobs, echo, sent, edit, draft, dead, hup, hangups, meant, astray, cut >>

Routing == INSTANCE FtnConfig

-----------------------------------------------------------------------------
(* FTN addresses: 4D ones have no domain, and what is in a MSGID may not   *)
(* be an address at all.                                                   *)
Odd == [zone |-> None, node |-> "odd", dom |-> None]
IsAddress(a) == a # None /\ a.zone # None

AddressOf(p) == [zone |-> p.zone, node |-> p.node, dom |-> p.dom]
FourD(p) == [AddressOf(p) EXCEPT !.dom = None]
FourDOnly(a, dom) == a
FiveD(a, dom) == IF a.dom # None THEN a ELSE [a EXCEPT !.dom = dom]

Id(origin, p, in) == [origin |-> origin, by |-> p, in |-> in]

Origin(p, form) == CASE form = "5D" -> AddressOf(p) [] form = "odd" -> Odd [] OTHER -> FourD(p)

-----------------------------------------------------------------------------
(* Texts.  by is who wrote it; author, the user its header names; the rest *)
(* what the lines of its body say: mail the Internet address of the sender,*)
(* from the FTN-FromAddr and paren the address in From, id the MSGID.      *)
Text(by) == [by |-> by, author |-> None, mail |-> None, from |-> None, paren |-> None,
             id |-> None, re |-> None, links |-> {}, holds |-> {}]

UserText(by) == [Text(by) EXCEPT !.author = by]
MailText(p, addr) == [Text(p) EXCEPT !.mail = addr]
NewsText(p) == [Text(p) EXCEPT !.mail = p, !.id = Id(None, p, "news")]

NetmailText(p, form, dom) ==
  [Text(p) EXCEPT !.from = FiveD(Origin(p, form), dom),
                  !.id = Id(Origin(p, form), p, "netmail")]

EchoText(p, form) ==
  IF form = "paren" THEN [Text(p) EXCEPT !.paren = FourD(p)]
  ELSE [Text(p) EXCEPT !.id = Id(Origin(p, form), p, "echo")]

(* The address cmd_personal finds in a text of an FTN conference.          *)
FtnAddress(t) ==
  IF t.from # None THEN t.from
  ELSE IF t.id # None /\ IsAddress(t.id.origin) THEN t.id.origin ELSE t.paren

(* The Message-ID for References: texts of FTN conferences have none.      *)
Reference(t) == IF t.id # None /\ t.id.origin = None THEN t.id ELSE None

-----------------------------------------------------------------------------
(* The editor: at is Current_conf (None in the mailbox), to the conference *)
(* or user the text is for, aborts whether the caller allows aborts.       *)
Blank == [state |-> "prompt", cmd |-> None, at |-> None, to |-> None, author |-> None, re |-> None,
          asked |-> None, addr |-> None, reply |-> None, mail |-> None, holds |-> {},
          aborts |-> FALSE, num |-> 0, new |-> 0]
Off == [Blank EXCEPT !.state = "off"]

(* line_ed begins with what EDIT_FILE has.                                 *)
InFile == IF draft = None THEN {} ELSE draft

Begin(e, target) ==
  /\ edit.state = "prompt" /\ Len(meant) < MaxLetters
  /\ meant' = Append(meant, target)
  /\ edit' = [e EXCEPT !.state = "edit", !.holds = InFile \cup {Len(meant) + 1}]
  /\ hup' = IF e.aborts THEN "abort_edit" ELSE hup
  /\ UNCHANGED << world, box, jobs, echo, sent, draft, dead, hangups, astray, cut >>

Target(way, who, re) == [way |-> way, who |-> who, re |-> re]
Written(cmd, at) == [Blank EXCEPT !.cmd = cmd, !.at = at, !.author = Uid]

NeedsDomain(a) ==
  a.dom = None /\ IsAddress(a) /\ Routing!NeedsDomain(world.areas, a.zone)

(* cmd_mail: to a user, to somebody at an FTN address, to the Internet.    *)
MailUser == \E u \in {Uid, Friend} :
  Begin([Written("mail", None) EXCEPT !.to = u, !.asked = u], Target("box", u, None))

MailFtn == \E a \in {FourD(world.person), AddressOf(world.person)} :
  /\ ~NeedsDomain(a)
  /\ Begin([Written("mail", None) EXCEPT !.addr = a], Target("ftn", world.person, None))

MailOut ==
  Begin([Written("mail", None) EXCEPT !.mail = world.person], Target("mail", world.person, None))

(* cmd_post_text, from any conference.                                     *)
PostText(author, c, at) ==
  [Written("post", at) EXCEPT !.to = c, !.asked = author, !.author = author, !.aborts = TRUE]

Post == \E c \in Confs, at \in Confs \cup {None} :
  \/ c \in News /\ Begin(PostText(None, c, at), Target("group", c, None))
  \/ c \notin News /\ Begin(PostText(Uid, c, at), Target("conf", c, None))

(* Whom a personal letter or a reply goes to, and in answer to what.       *)
Writer(t, way, re) ==
  IF t.by \in {Uid, Friend} THEN Target("box", t.by, re)
  ELSE Target(way, t.by, IF way = "ftn" THEN t.id ELSE None)

(* The three ways of a letter in answer to a text.                         *)
ToUser(e, t) == /\ t.author # None
                /\ Begin([e EXCEPT !.to = t.author, !.asked = t.author], Writer(t, "box", e.re))
ToFtn(e, t, a) == Begin([e EXCEPT !.addr = a, !.reply = t.id], Writer(t, "ftn", e.re))
ToMail(e, t) == /\ t.author = None /\ t.mail \notin {None, Bad}
                /\ Begin([e EXCEPT !.mail = t.mail], Writer(t, "mail", e.re))

Answer(cmd, at, n) == [Written(cmd, at) EXCEPT !.re = [num |-> n, conf |-> at]]

(* cmd_personal.  In an FTN conference the address in the text counts more *)
(* than its author; elsewhere an author 0 has an Internet address.         *)
PersonalTo(e, t, a) ==
  \/ a # None /\ ToFtn(e, t, a)
  \/ a = None /\ ToUser(e, t)
  \/ a = None /\ e.at \notin Ftn /\ ToMail(e, t)

Personal == \E c \in Confs : \E n \in DOMAIN box[c] :
  PersonalTo(Answer("personal", c, n), box[c][n], IF c \in Ftn THEN FtnAddress(box[c][n]) ELSE None)

(* A text with author 0 that has no From: the search for it ends in NULL.  *)
Crash == \E c \in Confs \ Ftn : \E n \in DOMAIN box[c] :
  /\ edit.state = "prompt" /\ box[c][n].author = None /\ box[c][n].mail = None
  /\ edit' = Off
  /\ UNCHANGED << world, box, jobs, echo, sent, draft, dead, hup, hangups, meant, astray, cut >>

(* cmd_comment in a conference.  A comment goes to the conference that its *)
(* conference names for comments.                                          *)
CommentTo(t, c, n, to) ==
  Begin([Written("comment", c) EXCEPT
           !.to = to, !.re = [num |-> n, conf |-> IF to # c THEN c ELSE None],
           !.asked = t.author, !.num = n, !.aborts = TRUE, !.reply = Reference(t)],
        IF to \in News THEN Target("group", to, Reference(t))
        ELSE Target("conf", to, [num |-> n, conf |-> c]))

Comment == \E c \in Confs : \E n \in DOMAIN box[c] :
  /\ c \notin Ftn /\ box[c][n].author = None => box[c][n].mail # Bad
  /\ CommentTo(box[c][n], c, n, IF world.comconf[c] # None THEN world.comconf[c] ELSE c)

(* cmd_comment in the mailbox: a reply.                                    *)
ReplyTo(e, t) ==
  \/ ToUser(e, t)
  \/ t.author = None /\ t.from # None /\ ToFtn(e, t, t.from)
  \/ t.from = None /\ ToMail(e, t)

Reply == \E n \in DOMAIN box[Uid] : ReplyTo(Answer("reply", None, n), box[Uid][n])

(* !move in the editor, in comments only.                                  *)
Move == \E c \in Confs :
  /\ edit.state = "edit" /\ edit.cmd = "comment" /\ c # edit.to
  /\ edit' = [edit EXCEPT !.to = c, !.re.conf = IF c = edit.at THEN None ELSE edit.at]
  /\ meant' = [meant EXCEPT ![Len(meant)] =
                 IF c \in News THEN Target("group", c, edit.reply)
                 ELSE Target("conf", c, [num |-> edit.num, conf |-> edit.at])]
  /\ UNCHANGED << world, box, jobs, echo, sent, draft, dead, hup, hangups, astray, cut >>

(* The text is removed: SIGHUP still calls abort_edit.                     *)
Cancel ==
  /\ edit.state = "edit"
  /\ edit' = Blank
  /\ draft' = IF edit.cmd = "resume" THEN None ELSE draft
  /\ UNCHANGED << world, box, jobs, echo, sent, dead, hup, hangups, meant, astray, cut >>

(* The text is saved in EDIT_FILE, and line_ed returns.                    *)
Save ==
  /\ edit.state = "edit"
  /\ edit' = [edit EXCEPT !.state = "saved",
                !.author = IF edit.cmd = "comment" /\ edit.to \in News THEN None ELSE edit.author]
  /\ draft' = edit.holds /\ hup' = "exec_logout"
  /\ UNCHANGED << world, box, jobs, echo, sent, dead, hangups, meant, astray, cut >>

-----------------------------------------------------------------------------
(* What is done with EDIT_FILE.                                            *)
Kind ==
  CASE edit.addr # None -> "ftn"
    [] edit.mail # None -> "mail"
    [] edit.cmd \in {"post", "comment"} /\ edit.asked = None /\ edit.author = None -> "news"
    [] OTHER -> "text"

Stored == [UserText(Uid) EXCEPT !.author = edit.author, !.re = edit.re, !.holds = edit.holds]
CopyTo(to) == [UserText(Uid) EXCEPT !.holds = edit.holds, !.re = [num |-> 0, conf |-> to]]

(* The text is put where it goes; then follow the copy in one's own        *)
(* mailbox, and unlink.                                                    *)
WithText(to) == [box EXCEPT ![to] = Append(@, Stored)]
Copied(own) == IF world.copy /\ ~own THEN "given" ELSE "copied"

(* save_text.                                                              *)
SaveText ==
  /\ edit.state = "saved" /\ Kind = "text" /\ edit.to \in Places
  /\ box' = WithText(edit.to)
  /\ edit' = [edit EXCEPT !.state = Copied(edit.to # Friend), !.new = Len(box[edit.to]) + 1]
  /\ UNCHANGED << world, jobs, echo, sent, draft, dead, hup, hangups, meant, astray, cut >>

(* save_text and save_mailcopy: the copy.  Where save_mailcopy fails, the  *)
(* letter is sent without one.                                             *)
Copy ==
  /\ edit.state = "given"
  /\ box' = [box EXCEPT ![Uid] = Append(@, CopyTo(edit.to))]
  /\ edit' = [edit EXCEPT !.state = "copied"]
  /\ UNCHANGED << world, jobs, echo, sent, draft, dead, hup, hangups, meant, astray, cut >>

NoCopy ==
  /\ edit.state = "given" /\ Kind # "text"
  /\ edit' = [edit EXCEPT !.state = "copied"] /\ cut' = cut \cup edit.holds
  /\ UNCHANGED << world, box, jobs, echo, sent, draft, dead, hup, hangups, meant, astray >>

Unlink ==
  /\ edit.state = "copied"
  /\ edit' = IF Kind = "text" /\ edit.cmd \in {"post", "comment"} THEN [edit EXCEPT !.state = "stored"]
             ELSE Blank
  /\ draft' = None
  /\ UNCHANGED << world, box, jobs, echo, sent, dead, hup, hangups, meant, astray, cut >>

(* save_text fails with the text stored: EDIT_FILE stays.                  *)
LeftOver ==
  /\ edit.state \in {"given", "copied"} /\ Kind = "text"
  /\ edit' = Blank /\ astray' = astray \cup edit.holds
  /\ UNCHANGED << world, box, jobs, echo, sent, draft, dead, hup, hangups, meant, cut >>

(* The reply pointer in the text that is commented, unless that is gone,   *)
(* and export_ftn_post_if_needed.                                          *)
Linked == edit.cmd = "comment" /\ edit.to = edit.at

Finish ==
  /\ edit.state = "stored"
  /\ edit' = Blank
  /\ box' = IF Linked THEN [box EXCEPT ![edit.at][edit.num].links = @ \cup {edit.new}] ELSE box
  /\ echo' = IF edit.to \in Ftn THEN echo \cup {<< edit.to, edit.new >>} ELSE echo
  /\ UNCHANGED << world, jobs, sent, draft, dead, hup, hangups, meant, astray, cut >>

Gone ==
  /\ edit.state = "stored" /\ Linked
  /\ edit' = Blank /\ cut' = cut \cup edit.holds
  /\ UNCHANGED << world, box, jobs, echo, sent, draft, dead, hup, hangups, meant, astray >>

(* queue_ftn_netmail_reply.                                                *)
Queue ==
  /\ edit.state = "saved" /\ Kind = "ftn"
  /\ jobs' = jobs \cup {[addr |-> edit.addr, reply |-> edit.reply, holds |-> edit.holds]}
  /\ edit' = [edit EXCEPT !.state = Copied(FALSE)]
  /\ UNCHANGED << world, box, echo, sent, draft, dead, hup, hangups, meant, astray, cut >>

(* The mail program, and inews with the References of the text answered.   *)
Sent(way, who, reply, holds) == [way |-> way, who |-> who, reply |-> reply, holds |-> holds]

HandOn(letter, next) ==
  /\ sent' = sent \cup {letter} /\ edit' = [edit EXCEPT !.state = next]
  /\ UNCHANGED << world, box, jobs, echo, draft, dead, hup, hangups, meant, astray, cut >>

HandMail == /\ edit.state = "saved" /\ Kind = "mail"
            /\ HandOn(Sent("mail", edit.mail, None, edit.holds), Copied(FALSE))

HandArticle == /\ edit.state = "saved" /\ Kind = "news" /\ edit.cmd = "post"
               /\ HandOn(Sent("group", edit.to, None, edit.holds), "copied")

HandFollowUp == /\ edit.state = "saved" /\ Kind = "news" /\ edit.cmd # "post"
                /\ HandOn(Sent("group", edit.to, edit.reply, edit.holds), "copied")

(* No conference, no queue, no program: EDIT_FILE stays.                   *)
Fail ==
  /\ edit.state = "saved"
  /\ edit' = Blank /\ astray' = astray \cup edit.holds
  /\ UNCHANGED << world, box, jobs, echo, sent, draft, dead, hup, hangups, meant, cut >>

-----------------------------------------------------------------------------
(* The line drops.  abort_edit keeps the text and its header, and the      *)
(* current conference; when it is killed (check_kill), EDIT_FILE without   *)
(* the other, or with a part of it.  Called without an editor, it crashes  *)
(* or keeps what is found where the text and the header were.              *)
Keep(conf, author, re, aborts) == [conf |-> conf, author |-> author, re |-> re, aborts |-> aborts]

DropLine ==
  /\ edit.state # "off" /\ hangups < world.hangups
  /\ hangups' = hangups + 1 /\ edit' = Off
  /\ UNCHANGED << world, box, jobs, echo, sent, hup, meant >>

(* exec_logout.  While it waits for the copy or unlink, a letter is where  *)
(* it goes and in EDIT_FILE.                                               *)
Passing == {"given", "copied"}

Hangup ==
  /\ DropLine
  /\ edit.state \in Passing \cup {"saved", "stored"} \/ hup = "exec_logout"
  /\ astray' = IF edit.state \in Passing \cup {"saved"} THEN astray \cup edit.holds ELSE astray
  /\ cut' = IF edit.state = "stored" THEN cut \cup edit.holds ELSE cut
  /\ UNCHANGED << draft, dead >>

AtHome == edit.aborts /\ meant[Len(meant)].way = "conf" /\ edit.to = edit.at

AbortEdit ==
  /\ DropLine
  /\ edit.state = "edit" /\ hup = "abort_edit"
  /\ draft' = edit.holds /\ cut' = cut \cup edit.holds
  /\ \/ /\ dead' = Keep(edit.at, edit.author, edit.re, edit.aborts)
        /\ astray' = IF AtHome THEN astray ELSE astray \cup edit.holds
     \/ dead' \in {None, Bad} /\ astray' = astray \cup edit.holds

AbortNothing ==
  /\ DropLine
  /\ edit.state = "prompt" /\ hup = "abort_edit"
  /\ \/ UNCHANGED << draft, dead >>
     \/ \E c \in Confs \cup {None}, a \in {None, Uid} :
          draft' = {0} /\ dead' = Keep(c, a, None, TRUE)
  /\ UNCHANGED << astray, cut >>

(* resume_aborted_edit.                                                    *)
Login ==
  /\ edit.state = "off" /\ dead = None
  /\ edit' = Blank /\ hup' = "exec_logout"
  /\ UNCHANGED << world, box, jobs, echo, sent, draft, dead, hangups, meant, astray, cut >>

Resume ==
  /\ edit.state = "off" /\ dead \notin {None, Bad}
  /\ edit' = [Blank EXCEPT !.state = "edit", !.cmd = "resume", !.at = dead.conf, !.to = dead.conf,
                           !.author = dead.author, !.re = dead.re, !.holds = InFile, !.aborts = TRUE]
  /\ hup' = "abort_edit" /\ dead' = None
  /\ UNCHANGED << world, box, jobs, echo, sent, draft, hangups, meant, astray, cut >>

ResumeNothing ==
  /\ edit.state = "off" /\ dead = Bad
  /\ edit' = Blank /\ hup' = "exec_logout" /\ draft' = None /\ dead' = None
  /\ UNCHANGED << world, box, jobs, echo, sent, hangups, meant, astray, cut >>

(* ftntoss takes a job of the queue.                                       *)
AreaOf(a) == IF IsAddress(a) THEN Routing!NetmailArea(world.areas, a.zone, a.dom) ELSE None

Exported(j, i) ==
  IF i = None THEN Sent("failed", j.addr, j.reply, j.holds)
  ELSE Sent("ftn", [j.addr EXCEPT !.dom = world.areas[i].dom], j.reply, j.holds)

Toss == \E j \in jobs :
  /\ jobs' = jobs \ {j}
  /\ sent' = sent \cup {Exported(j, AreaOf(j.addr))}
  /\ UNCHANGED << world, box, echo, edit, draft, dead, hup, hangups, meant, astray, cut >>

-----------------------------------------------------------------------------
Inbox(w) ==
  << UserText(Friend), UserText(Uid), NetmailText(w.person, w.form, w.person.dom),
     MailText(w.person, w.person), MailText(w.person, Bad) >>

Init ==
  /\ world \in Worlds
  /\ box = [c \in Places |->
              CASE c \in Local -> << UserText(Friend) >>
                [] c \in Ftn   -> << UserText(Friend), EchoText(world.person, world.form) >>
                [] c \in News  -> << NewsText(world.person) >>
                [] c = Uid     -> Inbox(world)
                [] OTHER       -> << >>]
  /\ jobs = {} /\ echo = {} /\ sent = {} /\ edit = Blank /\ draft = None /\ dead = None
  /\ hup = "exec_logout" /\ hangups = 0 /\ meant = << >> /\ astray = {} /\ cut = {}

Next == \/ MailUser \/ MailFtn \/ MailOut \/ Post \/ Personal \/ Crash \/ Comment \/ Reply
        \/ Move \/ Cancel \/ Save \/ SaveText \/ Finish \/ Queue \/ Fail
        \/ Copy \/ NoCopy \/ Unlink \/ LeftOver
        \/ HandMail \/ HandArticle \/ HandFollowUp
        \/ Gone \/ Hangup \/ AbortEdit \/ AbortNothing \/ Login \/ Resume \/ ResumeNothing \/ Toss

Spec == Init /\ [][Next]_vars

-----------------------------------------------------------------------------
(* Every letter that nothing kept from it is only where it was meant to    *)
(* be, and answers what it was written in answer to.                       *)
Meant(holds) == {meant[n] : n \in holds \ (astray \cup {0})}

(* A comment from a conference to a newsgroup on a text that a user wrote  *)
(* is stored as a text without author.                                     *)
Misplaced(t, c, m) == c \in News /\ t.author = None /\ m.way = "group" /\ m.who = c

Parent(t, c) == IF t.re = None THEN None
                ELSE [num |-> t.re.num, conf |-> IF t.re.conf = None /\ c \in Confs THEN c ELSE t.re.conf]

TextArrives(t, c, m) ==
  \/ m.who = c /\ m.way = (IF c \in Confs THEN "conf" ELSE "box") /\ m.re = Parent(t, c)
  \/ c = Uid /\ world.copy /\ m.way \notin {"conf", "group"} /\ m.who # Uid
  \/ Misplaced(t, c, m)

TextsArrive == \A c \in Places : \A i \in DOMAIN box[c] :
  \A m \in Meant(box[c][i].holds) : TextArrives(box[c][i], c, m)

(* An address without domain, as one may type it and as echomail has it,   *)
(* is as good as its zone; netmail is answered in its domain.              *)
Known(m) == \/ {i \in DOMAIN world.areas : world.areas[i].addr.zone = m.who.zone}
               = {i \in DOMAIN world.areas : world.areas[i].dom = m.who.dom}
            \/ m.re # None /\ m.re.in = "netmail"

SentRight == \A s \in sent : \A m \in Meant(s.holds) :
  \/ s.way \in {"mail", "group"} /\ m = Target(s.way, s.who, s.reply)
  \/ /\ s.way = "ftn" /\ m.way = "ftn" /\ m.re = s.reply
     /\ \/ s.who = AddressOf(m.who)
        \/ ~Known(m) /\ [s.who EXCEPT !.dom = None] = FourD(m.who)
  \/ /\ s.way = "failed" /\ m.way = "ftn" /\ m.re = s.reply
     /\ IsAddress(s.who) => s.who.dom = None /\ ~Known(m)

(* No letter is delivered twice, or kept in EDIT_FILE when that is done; of*)
(* one to somebody else there is one copy if the user wants it, else none. *)
Holders(n) == Cardinality({j \in jobs \cup sent : n \in j.holds})
              + Cardinality(UNION {{<< c, i >> : i \in {k \in DOMAIN box[c] : n \in box[c][k].holds}} :
                                     c \in Places \ {Uid}})
Copies(n) == Cardinality({i \in DOMAIN box[Uid] : n \in box[Uid][i].holds})

Private(m) == m.way \in {"box", "mail", "ftn"} /\ m.who # Uid

Once == \A n \in DOMAIN meant \ astray :
  /\ Holders(n) <= 1
  /\ IF Private(meant[n]) THEN Copies(n) <= IF world.copy THEN Holders(n) ELSE 0
     ELSE Holders(n) + Copies(n) <= 1
  /\ ~(edit.state \in Passing /\ n \in edit.holds) =>
       /\ Holders(n) + Copies(n) > 0 => n \notin InFile
       /\ Private(meant[n]) /\ world.copy /\ n \notin cut => Copies(n) = Holders(n)

(* A text in an FTN conference goes to the network as well, and a comment  *)
(* in the same conference is found from the text it answers, unless the    *)
(* session ended first.                                                    *)
IsFollowed(t, c, i) ==
  t.holds # {} /\ t.holds \cap (cut \cup astray \cup {0}) = {} =>
    /\ c \in Ftn => << c, i >> \in echo
    /\ t.re # None /\ t.re.conf = None => i \in box[c][t.re.num].links

Followed == edit.state \notin Passing \cup {"stored"} =>
  \A c \in Confs : \A i \in DOMAIN box[c] : IsFollowed(box[c][i], c, i)

LettersArrive == TextsArrive /\ SentRight /\ Once /\ Followed

(* line_ed is told whether aborts are allowed, and only letters for which  *)
(* they are come back as a text for a conference.                          *)
AbortAllowed == dead \notin {None, Bad} => dead.aborts
=============================================================================
