------------------------------ MODULE MCParts ------------------------------
(***************************************************************************)
(* The smaller parts of the system for TLC.  Each behaviour runs one part, *)
(* chosen at its beginning: an algorithm without a state of its own, whose *)
(* input grows by one element at a time, or one of the programs.  The      *)
(* variables v1 to v14 are those of the part that runs; PartsRun are the    *)
(* parts to choose from.                                                   *)
(***************************************************************************)
EXTENDS Integers, Sequences, FiniteSets, SequencesExt

CONSTANTS PartsRun, None, Bad, u1, u2, p1, p2, i1, i2

VARIABLES part, v1, v2, v3, v4, v5, v6, v7, v8, v9, v10, v11, v12, v13, v14

rest == << v1, v2, v3, v4, v5, v6, v7, v8, v9, v10, v11, v12, v13, v14 >>
Unused == "unused"

Routing == INSTANCE FtnConfig
Netmail == INSTANCE FtnNetmail
Body    == INSTANCE MailBody WITH Column <- 4
Command == INSTANCE Parser WITH ReadText <- << "b" >>, NoCommand <- None

AsLine(v) == CASE v = "#x"  -> [kind |-> "blank", text |-> ""]
               [] v = "![x" -> [kind |-> "header", text |-> "broken"]
               [] v = "![x]" -> [kind |-> "header", text |-> "x"]
               [] v = "![tag]" -> [kind |-> "header", text |-> "tag"]
               [] OTHER -> [kind |-> "value", text |-> v]
Ftnconf == INSTANCE FtnConf WITH Broken <- "broken"

-----------------------------------------------------------------------------
(* CrashMail's configuration: two AKAs, with their domains, come first.    *)
Addr(n, z) == [net |-> n, zone |-> z]
Here == Addr("here", 1)
Else == Addr("else", 1)
Aka(a) == [kw |-> "AKA", addr |-> a]
Domain(d) == [kw |-> "DOMAIN", dom |-> d]
Area(kw, t, a, p) == [kw |-> kw, tag |-> t, addr |-> a, base |-> "MSG", path |-> p, links |-> <<>>]
Export(m) == [kw |-> "EXPORT", links |-> << [addr |-> "feed", mod |-> m] >>]

ConfigStarts == { << Aka(Here), Domain("fido"), Aka(Else), Domain("other") >>,
                  << Aka(Here), Domain("fido"), Aka(Else), Domain("fido") >> }

ConfigLines ==
  { Aka(Here), Domain("fido"), Domain(None), Area("AREA", "chat", Here, "p1"),
    Area("AREA", "chat", Else, "p2"), Export("%"), Export(""),
    Area("NETMAIL", "mail", Here, "p3"), Area("NETMAIL", "mail", Else, "p3"),
    Area("NETMAIL", "mail", Else, "p4"), [kw |-> "bad"] }

Conf(n, name, c) == [num |-> n, name |-> name, ftn |-> TRUE, conf |-> c]
Confs == << Conf(1, "chat", None), Conf(2, "talk", [dom |-> "fido", tag |-> "chat"]),
            Conf(3, "more", [dom |-> "other", tag |-> "chat"]), Conf(4, "broken", Bad) >>

(* ftnconf: the version and the type come first, or the tag.               *)
FtnStarts ==
  { << Ftnconf!Header("version"), Ftnconf!Value("1"), Ftnconf!Header("type"), Ftnconf!Value("echomail") >>,
    << Ftnconf!Header("tag"), Ftnconf!Value("1"), Ftnconf!Header("version"), Ftnconf!Value("1"),
       Ftnconf!Header("type") >> }
FtnLines ==
  {Ftnconf!Header(h) : h \in Ftnconf!Fields \cup {"", "broken", "other"}}
  \cup {Ftnconf!Value(v) : v \in {"1", "echomail", "x"}} \cup {AsLine("#x")}
FtnValues == {"1", "x", "#x", "![x", "![x]", "![tag]"}

(* Netmail to two users, one of whom has a login that is the other's name, *)
(* and to nobody; one box has a text from before domains were stored.      *)
NetUsers == << [real |-> "ann", login |-> "bo", box |-> TRUE],
               [real |-> "bo", login |-> "cy", box |-> TRUE],
               [real |-> "dan", login |-> "dan", box |-> FALSE] >>
Boxes == << << None, [id |-> "m1", dom |-> None] >>, << >>, << >> >>
Messages == [to : {"ann", "bo", "cy", "dan"}, id : {"m1", "m2", None}, dom : {"fido", "other"},
             bad : {FALSE}]
            \cup {[to |-> "cy", id |-> "m2", dom |-> "fido", bad |-> TRUE]}

(* The parts of a mail: texts, attachments, and parts of up to two parts.  *)
Leaves(n) == {[ct |-> c, html |-> FALSE, id |-> n] : c \in {"plain", "html", "other"}}
             \cup {[ct |-> c, html |-> TRUE, id |-> n] : c \in {"plain", "other"}}
             \cup {[ct |-> "multi", parts |-> None, html |-> FALSE, id |-> n]}
Multi(parts) == [ct |-> "multi", parts |-> parts]
Pairs(S, T) == {Multi(<< s, t >>) : s \in S, t \in T}
MailParts(n) ==
  Leaves(n) \cup {Multi(<< >>)} \cup Pairs(Leaves(n), Leaves(n + 10))
  \cup Pairs(Leaves(n), {Multi(<< l >>) : l \in Leaves(n + 10)})

(* The lines of a text.                                                    *)
Newlines(s) == {0} \cup {i \in DOMAIN s : s[i] = "nl"} \cup {Len(s) + 1}
LineOf(s, k) ==
  LET at == CHOOSE i \in Newlines(s) : Cardinality({j \in Newlines(s) : j < i}) = k - 1
      to == CHOOSE i \in Newlines(s) : Cardinality({j \in Newlines(s) : j < i}) = k
  IN  SubSeq(s, at + 1, to - 1)
LinesOf(s) == [k \in 1 .. Cardinality(Newlines(s)) - 1 |-> LineOf(s, k)]

(* What is typed, and the commands; one word may begin another, and those  *)
(* of one command those of another.                                        *)
Typed(v) ==
  LET words == { << "a" >>, << "b" >>, << "a", "b" >>, << "(", "c", ")" >>, << "1", "2" >>, << "0" >> }
      after == { << >>, << " " >>, << "." >>, << " ", "." >> }
  IN  {w \o s : w \in words, s \in IF v = << >> \/ Last(Last(v)) \in {" ", "."} THEN after ELSE {}}
Tables ==
  { << << "a" >>, << "a", "b" >>, << "a", "b", " ", "b" >>, << "b", " ", "a" >>,
       << "(", "c", ")", " ", "b", " ", "b", " ", "(", "c", ")" >> >>,
    << << "a" >>, << "a", "b", " ", "b", " ", "a" >>, << "b", " ", "a", " ", "a" >>,
       << "(", "c", ")", " ", "b" >>, << "a", " ", "(", "c", ")", " ", "b" >> >> }

Algorithms == {"route", "ftnconf", "netmail", "mime", "text", "url", "parse"}
Alphabet == CASE part = "route"   -> ConfigLines
              [] part = "ftnconf" -> FtnLines
              [] part = "netmail" -> Messages
              [] part = "mime"    -> MailParts(Len(v1) + 1)
              [] part = "text"    -> {"a", " ", "nl"}
              [] part = "url"     -> {"a", " ", "h", "?", "&", "t", "#", "."}
              [] part = "parse"   -> Typed(v1)
Longest  == CASE part \in {"route", "ftnconf"} -> 8 [] part = "netmail" -> 3 [] part = "mime" -> 2
              [] part = "text" -> 9 [] part = "url" -> 6 [] part = "parse" -> 3

From13 == << v13, v14 >>
From12 == << v12, From13 >>
From9  == << v9, v10, v11, From12 >>

Feed(a) == /\ part = a /\ a \in Algorithms
           /\ Len(v1) < Longest /\ \E x \in Alphabet : v1' = Append(v1, x)
           /\ UNCHANGED << v2, v3, v4, v5, v6, v7, v8, From9 >>

(* v1, v2, ... of a part that has fewer variables stay as they are.        *)
Unused13 == v13 = Unused /\ v14 = Unused
Unused12 == v12 = Unused /\ Unused13
Unused9  == v9 = Unused /\ v10 = Unused /\ v11 = Unused /\ Unused12
Unused2  == /\ v2 = Unused /\ v3 = Unused /\ v4 = Unused /\ v5 = Unused /\ v6 = Unused
            /\ v7 = Unused /\ v8 = Unused /\ Unused9

-----------------------------------------------------------------------------
(* Two conferences, the name of the one begins that of the other.          *)
News  == << "news" >>
Local == << "news", "local" >>
Entry(n, u, a) == [name |-> n, creator |-> u, access |-> a, comconf |-> 0]
Menu(a, b) == [u \in {u1, u2} |-> IF u = u1 THEN a ELSE b]
Closing == Menu({"rights", "mod"}, {"subscribe", "unsubscribe"})
Linking == Menu({"link", "create", "rename"}, {"link", "delete"})
Founded == {[entry |-> << Entry(News, u1, f[1]), Entry(Local, f[2], "open") >>,
             subs |-> [v \in {u1, u2} |-> {1, 2}], menu |-> f[3]] :
               f \in {<< "closed", u1, Closing >>, << "open", u2, Linking >>}}

Conferences ==
  INSTANCE Conferences WITH
    Users <- {u1, u2}, Nobody <- None, Names <- {News, Local}, MaxConf <- 3,
    entry <- v1, confrc <- v2, subs <- v3, pc <- v4, job <- v5, menu <- v6,
    may <- v7, kept <- v8, raced <- v9

Mail ==
  INSTANCE MailToss WITH
    Procs <- {p1, p2}, Nobody <- None, MaxMail <- 3, MaxRuns <- 3,
    spool <- v1, copies <- v2, files <- v3, last <- v4, lock <- v5, pc <- v6, buf <- v7,
    runs <- v8, sent <- v9, seen <- v10, excused <- v11

Usenet ==
  INSTANCE NewsToss WITH Gap <- 2,
    Refs <- << 0, 1, 1, 1, 1 >>, MaxArticle <- 4, MaxTime <- 2, MaxRuns <- 2, MaxChange <- 2,
    now <- v1, spool <- v2, active <- v3, texts <- v4, files <- v5, pc <- v6, job <- v7,
    runs <- v8, changes <- v9, due <- v10, lost <- v12, excused <- v11

Ibol ==
  INSTANCE IbolImport WITH
    Ids <- {i1, i2}, MaxFile <- 3, MaxRuns <- 2,
    area <- v1, unreadable <- v2, cache <- v3, state <- v4, pc <- v5, job <- v6,
    runs <- v7, passed <- v8

(* ftntoss alone, with nothing but its own lock file.                      *)
Toss ==
  INSTANCE Posting WITH
    Confs <- {1, 2}, Sessions <- {}, Moderators <- {}, Tossers <- {p1, p2},
    Posted <- {1, 2}, Edited <- {}, MaxPosts <- 3,
    conf_file <- v1, inode <- v2, holder <- v3, text <- v4, posts <- v5, ftnlock <- v6, pc <- v7,
    conf <- v8, fd <- v9, buf <- v10, mine <- v11, copy <- v12

(* first_text in a conference of ten texts, at most three missing in a row.*)
Search ==
  INSTANCE MCReading WITH
    Confs <- {0, 1}, Mailbox <- 0, Longer <- 1, MaxGap <- 3,
    MaxText <- [c \in {0, 1} |-> IF c = 0 THEN 0 ELSE 10],
    lastText <- v1, files <- v2, confs <- v3, il <- v4, Current_conf <- v5, Change_prompt <- v6,
    Nexttext <- v7, pc <- v8, job <- v9, queue <- v10, limit <- v11, flag <- v12,
    first <- v13, high <- v14

Praise ==
  INSTANCE Praise WITH
    Users <- {u1, u2}, Creator <- u1, Texts <- {1, 2}, Nobody <- None, MaxOps <- 4,
    name <- v1, inode <- v2, lock <- v3, pc <- v4, job <- v5, ops <- v6,
    praised <- v7, dropped <- v8, shuffled <- v9, raced <- v10

Survey ==
  INSTANCE Survey WITH
    Users <- {u1, u2}, Nobody <- None, MaxShown <- 3,
    result <- v1, taken <- v2, lock <- v3, pc <- v4, job <- v5, over <- v6, report <- v7,
    shown <- v8, saved <- v9, due <- v10, excused <- v11, again <- v12, uneven <- v13

Settings ==
  INSTANCE Settings WITH
    Users <- {u1, u2}, Admin <- p1, Height <- 24, MaxOps <- 2,
    disk <- v1, Numlines <- v2, pc <- v3, job <- v4, ops <- v5, given <- v6,
    chosen <- v7, lent <- v8, stale <- v9, raced <- v10, Flags <- v11

(* Letters: one user writes, from a system with one network or two, of the *)
(* same zone or not.                                                       *)
Network(d, z) == [kw |-> "NETMAIL", addr |-> [zone |-> z], dom |-> d, base |-> "MSG", path |-> d]
Fido == Network("fido", 1)
LetterWorld(areas, z, d, form, com, copy, hangups) ==
  [areas |-> areas, hangups |-> hangups, person |-> [zone |-> z, node |-> "ann", dom |-> d], form |-> form, copy |-> copy,
   comconf |-> [c \in 1 .. 3 |-> IF c \in DOMAIN com THEN com[c] ELSE None]]
LetterWorlds ==
  { LetterWorld(<< Fido, Network("other", 7) >>, 2, "fido", "paren", << 3 >>, TRUE, 0),
    LetterWorld(<< Fido, Network("other", 1) >>, 1, "other", "4D", << None, 1 >>, FALSE, 1),
    LetterWorld(<< Fido >>, 1, "fido", "odd", << 2, None, 1 >>, TRUE, 0) }

Letters ==
  INSTANCE Letters WITH
    Uid <- u1, Friend <- u2, Local <- {1}, Ftn <- {2}, News <- {3}, Worlds <- LetterWorlds,
    MaxLetters <- 2,
    world <- v1, box <- v2, jobs <- v3, echo <- v4, sent <- v5, edit <- v6, draft <- v7,
    dead <- v8, hup <- v9, hangups <- v10, meant <- v11, astray <- v12, cut <- v13

Accounts ==
  INSTANCE Users WITH
    People <- {u1, u2}, Names <- {"ann", "bo"}, BadName <- "b:", MaxTime <- 3,
    file <- v1, gecos <- v2, made <- v3, pc <- v4, old <- v5, time <- v6,
    left <- v7, cut <- v8, split <- v9, unsaved <- v10, misread <- v11

Plan ==
  INSTANCE Plan WITH
    Sessions <- {u1, u2}, Unknown <- Bad, Texts <- {"a", "big"}, Big <- "big",
    MaxOps <- 2, MaxChanges <- 2,
    inode <- v1, at <- v2, tmp <- v3, pc <- v4, job <- v5, ops <- v6, changes <- v7, said <- v8

(* Two files, the name of the one ends that of the other.                  *)
Files ==
  INSTANCE Files WITH
    Users <- {u1, u2}, Nobody <- None, Names <- {<< "a" >>, << "b", "a" >>}, Said <- {"x"},
    MaxOps <- 3,
    stored <- v1, inode <- v2, at <- v3, pc <- v4, job <- v5, hears <- v6, avail <- v7,
    ops <- v8, told <- v9, excused <- v10, uneven <- v11, failed <- v12

(* sklaffadm: three texts, or nine with a wide gap.                        *)
Dated(d, t) == [time |-> d, type |-> t]
InOrder(s) == \A i, j \in DOMAIN s : i < j /\ None \notin {s[i], s[j]} => s[i].time <= s[j].time
Three == {s \in [1 .. 3 -> {None} \cup {Dated(d, t) : d \in {0, 1}, t \in {"text", "survey"}}] :
            InOrder(s)}
Gap == [n \in 1 .. 9 |-> IF n \in {1, 7} THEN Dated(0, "text")
                         ELSE IF n = 9 THEN Dated(1, "text") ELSE None]
PurgeWorlds == {[texts |-> t, life |-> 1, mail |-> FALSE] : t \in Three}
               \cup {[texts |-> Gap, life |-> l, mail |-> m] : l \in {0, 1}, m \in BOOLEAN}

Purge ==
  INSTANCE Purge WITH
    Worlds <- PurgeWorlds, Keeps <- {0, 2}, MaxText <- 9, MaxTime <- 2, MaxChanges <- 1,
    texts <- v1, last_text <- v2, life <- v3, mail <- v4, now <- v5, pc <- v6, job <- v7,
    changes <- v8, begun <- v9

-----------------------------------------------------------------------------
Begin ==
  \/ /\ part \in Algorithms
     /\ v1 \in (CASE part = "route" -> ConfigStarts [] part = "ftnconf" -> FtnStarts
                   [] part = "url" -> {<< "a", "h" >>, << "h", "?" >>} [] OTHER -> {<< >>})
     /\ Unused2
  \/ part = "conferences" /\ Conferences!Init /\ v10 = Unused /\ v11 = Unused /\ Unused12
  \/ part = "mailtoss" /\ Mail!Init /\ Unused12
  \/ part = "newstoss" /\ Usenet!Init /\ Unused13
  \/ part = "ibolimport" /\ Ibol!Init /\ Unused9
  \/ part = "ftntoss" /\ Toss!Init /\ Unused13
  \/ part = "search" /\ Search!SearchInit
  \/ part = "praise" /\ Praise!Init /\ v11 = Unused /\ Unused12
  \/ part = "survey" /\ Survey!Init /\ v14 = Unused
  \/ part = "settings" /\ Settings!Init /\ Unused12
  \/ part = "letters" /\ Letters!Init /\ v14 = Unused
  \/ part = "users" /\ Accounts!Init /\ Unused12
  \/ part = "plan" /\ Plan!Init /\ Unused9
  \/ part = "files" /\ Files!Init /\ Unused13
  \/ part = "purge" /\ Purge!Init /\ v10 = Unused /\ v11 = Unused /\ Unused12

Init == part \in PartsRun /\ Begin

Next ==
  /\ UNCHANGED part
  /\ \/ \E a \in Algorithms : Feed(a)
     \/ part = "conferences" /\ Conferences!Next /\ UNCHANGED << v10, v11, From12 >>
     \/ part = "mailtoss" /\ Mail!Next /\ UNCHANGED From12
     \/ part = "newstoss" /\ Usenet!Next /\ UNCHANGED From13
     \/ part = "ibolimport" /\ Ibol!Next /\ UNCHANGED From9
     \/ part = "ftntoss" /\ Toss!Next /\ UNCHANGED From13
     \/ part = "search" /\ Search!SearchNext
     \/ part = "praise" /\ Praise!Next /\ UNCHANGED << v11, From12 >>
     \/ part = "survey" /\ Survey!Next /\ UNCHANGED v14
     \/ part = "settings" /\ Settings!Next /\ UNCHANGED From12
     \/ part = "letters" /\ Letters!Next /\ UNCHANGED v14
     \/ part = "users" /\ Accounts!Next /\ UNCHANGED From12
     \/ part = "plan" /\ Plan!Next /\ UNCHANGED From9
     \/ part = "files" /\ Files!Next /\ UNCHANGED From13
     \/ part = "purge" /\ Purge!Next /\ UNCHANGED << v10, v11, From12 >>

Spec == Init /\ [][Next]_<< part, rest >>

-----------------------------------------------------------------------------
(* The routes of echomail and netmail: what load_echomail_area finds for a *)
(* conference leads back to it (load_echomail_area_by_identity), and       *)
(* netmail is answered from where it came in; SklaffKOM and ftntoss read   *)
(* the same from a conference's ftnconf (conf_load_ftnconf,                *)
(* load_meeting_ftnconf), and what conf_write_ftnconf was given.           *)
Routes ==
  /\ part = "route" => Routing!RoutesAgree(v1, Confs)
  /\ part = "ftnconf" => Ftnconf!ReadersAgree(v1, {"1", "echomail", "x"})
  /\ part = "ftnconf" /\ v1 \in FtnStarts =>
       \A d, t \in FtnValues : Ftnconf!ReadAsWritten(Ftnconf!Good(d, t))

(* extract_best_part_rec shows the first plain text of a mail, however its *)
(* parts are nested; cleanup_text and wrap_mail_body_for_skom keep every   *)
(* word of it, but what tracks the reader in a URL, and every line on the  *)
(* screen.                                                                 *)
MailShown == /\ part = "mime" => Body!BestPart(Multi(v1))
             /\ part \in {"text", "url"} => Body!TextKept(LinesOf(v1))

(* force_unsubscribe and CONFRC_FILE: a user who is logged in is only in   *)
(* conferences he has a right to.                                          *)
Admitted == part = "conferences" => Conferences!Admitted

(* cmd_delete_conf: comments go to a conference that exists.               *)
CommentsArrive == part = "conferences" => Conferences!CommentsArrive

(* Nothing that is imported is lost or comes twice: netmail, put into the  *)
(* box of the user it is for (import_ftn_netmail_spool_5d); mail           *)
(* (mailtoss); articles (newstoss); and one-liners, up to the checkpoint   *)
(* (ibolimport).                                                           *)
ImportedOnce ==
  /\ part = "netmail" => Netmail!NetmailOnce(<< "fido", "other" >>, v1, Boxes, NetUsers)
  /\ part = "mailtoss" => Mail!MailSafe
  /\ part = "newstoss" => Usenet!NewsOnce
  /\ part = "ibolimport" => Ibol!IbolOnce

(* rewrite_conf_last_text and send_ftn: processes that are killed at any   *)
(* point and meet only each other do not lose a text that was announced.   *)
TossAnnounced == part = "ftntoss" => Toss!Announced

(* first_text answers no text above one that exists, while texts are       *)
(* deleted.                                                                *)
FirstIsLowest == [][part = "search" => Search!NoTextBelow]_<< part, rest >>

(* parse and cmp_strings: what is typed finds the command it abbreviates,  *)
(* with all that was typed after it, and the names that it abbreviates.    *)
CommandsFound ==
  part = "parse" /\ v1 # << >> =>
    \A table \in Tables : /\ Command!CommandFound(table, FlattenSeq(v1))
                          /\ Command!NameFound(ToSet(table), FlattenSeq(v1))

(* cmd_like, cmd_unlike, save_survey_result, mark_survey_as_taken: praises *)
(* and replies are kept, and each of them counts once.                     *)
OpinionsKept == /\ part = "praise" => Praise!PraisesKept
                /\ part = "survey" => Survey!RepliesKept

(* read_sklaffrc, write_sklaffrc, rc_set_scalar: settings are kept;        *)
(* setup_new_user, display_welcome, cmd_mod_pinfo, exec_logout: so are a   *)
(* user's entry and his name; cmd_mod_plan, plan_write: and his plan.      *)
PersonalKept == /\ part = "settings" => Settings!SettingsKept
                /\ part = "users" => Accounts!UsersKept
                /\ part = "plan" => Plan!PlanKept

(* cmd_upload, cmd_unlink, cmd_describe, rebuild_index_file: the index of  *)
(* a conference's files lists what there is.                               *)
FilesListed == part = "files" => Files!FilesListed

(* cmd_upload, cmd_download: after a transfer a session hears of news.     *)
NewsHeard == part = "files" => Files!NewsHeard

(* sklaffadm purge, forcepurge, mailpurge: what is purged was to be.       *)
PurgeKeeps == part = "purge" => Purge!PurgeKeeps

(* cmd_mail, cmd_post_text, cmd_personal, cmd_comment: what is written     *)
(* reaches whom it was written to.                                         *)
LettersArrive == part = "letters" => Letters!LettersArrive

(* edit.c:205, "allow aborts (allow_abort)".                               *)
AbortAllowed == part = "letters" => Letters!AbortAllowed
=============================================================================
