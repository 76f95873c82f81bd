# SklaffKOM in TLA+

SklaffKOM is a conference system (a BBS).  Every login is a Unix process; all
processes share text files under `SKLAFF_DB` and the users' home directories,
lock them with `flock`, and tell each other of news with signals.  There is no
server.  The specifications here model the parts in which that design is
delicate: what a user has read, how texts get their numbers, who is logged in,
what the signals do that reach a session, and how the programs around it move
mail, news and FTN messages in and out.

## 1. Inventory

| Part | State | Operations | Interacts through | What makes it correct | Module |
|---|---|---|---|---|---|
| Read intervals (`text.c`, `buf.c`) | per user and conference a list `1-7,9-12` in the user's `CONFS_FILE` | `mark_as_read`, `mark_as_unread`, `check_if_read`, `num_unread` | function calls from every reading command | intervals ordered and apart; exactly the named text changes; the count is the number of unread texts | IntervalList |
| Reading (`text.c`, `conf.c`, `commands.c`, `admin.c`) | current conference, the text the prompt offers, `Change_prompt` | `next_text`, `more_conf`, `first_text`, `display_prompt`, `cmd_next_text`, `cmd_goto_text`, `cmd_only`, `subscribe_conf_num`, ... | files of other processes; `SIGNAL_NEW_TEXT` | an unread text is found and offered; a search passes over missing texts only; it ends | Reading |
| Posting (`text.c`, `conf.c`, `newstoss.c`, `commands.c`, `ftntoss.c`) | `CONF_FILE` (`last_text` per conference), text files | `save_text`, `send_news`, `send_ftn`, `cmd_mod_conf`, `cmd_delete_text` | lock on `CONF_FILE`; rename over it | one number, one text; a number that counts has a text; nothing published is replaced | Posting |
| File locking (`lib/rawio.c`) | `flock` per inode | `open_file` (30 tries), `write_file`, `close_file` | all shared files | mutual exclusion; a caller that gives up does not write | Posting, Praise, Survey |
| Sessions (`user.c`, `admin.c`, `sklaffkom.c`) | list of active users | `add_active`, `remove_active`, `check_active`, `exec_login`, `exec_logout`, `timeout` | `ACTIVE_FILE`, `SIGHUP`, `SIGTERM` | every live session has its entry, no dead one keeps one | Sessions |
| Messages and notifications (`msg.c`, `lib/input.c`) | a message file per user, `Change_msg`, `Change_prompt` | `send_msg`, `display_msg`, `notify_all_processes`, handlers `haffo`, `baffo`, `newmsg` | signals | every message is shown once; a new text changes the prompt | Signals, Reading |
| Critical sections (`lib/critical.c`) | the signal mask, `Oldmask` | `critical`, `non_critical` | around every write | the mask after is the mask before | Signals |
| Stacks (`text.c`, `commands.c`) | comments waiting, texts read, texts to unread at logout | `push_*`, `pop_*`, `cmd_jump_tree`, `cmd_jump_over`, `cmd_unread_tree`, `cmd_back_text`, `cmd_jumpsub`, ... | memory; written back at logout | a thread is read once; a walk marks its tree and nothing else; what is asked to be unread is | Threads |
| Conferences and rights (`conf.c`, `commands.c`) | `CONF_FILE`, `CONFRC_FILE`, subscriptions | create, rename, link, change, delete, rights, `force_unsubscribe` | files; a question between check and change | nobody stays in a conference he may not read; comments go where somebody reads them | Conferences |
| Descriptions and praises (`confxtra.c`, `praise.c`, `commands.c`) | `CONFXTRA_FILE` | `cmd_like`, `cmd_unlike`, `cmd_change_cdesc` | one file; two of them under its lock, one by renaming a copy over it | a praise stays until it is taken back, and counts once | Praise |
| Surveys (`survey.c`, `survreport.c`) | replies; who has taken part | take and report a survey | two files with a lock each | no reply is lost or counted twice | Survey |
| Parser (`parse.c`, `lib/parse_string.c`, `lib/wc.c`, `lib/cmp_strings.c`) | none | `parse`, `parse_strings`, `wc`, `cmp_strings` | calls | an abbreviation names one thing or is refused | Parser |
| FTN gate (`ftntoss.c`, `lib/ftn.c`, `etc/ftnqueue-runner`) | `FTNTOSS_LOCKFILE` and its marker, the queue, the area's spool | import by plan, reply linking, queueing, export, the warning of old locks | lock files, `CONF_FILE`, CrashMail's spool | a message comes in once, under its parent; an export is done | FtnPlan, FtnGate |
| FTN configuration and netmail (`ftnconfig.c`, `ftnnetmail.c`, `ftnmsg.c`) | CrashMail's file, `ftnconf`, the netmail spools | find the area of a conference and back; import netmail | files, mailboxes | both directions agree; a message goes once to the user it is for | FtnConfig, FtnNetmail |
| Mail import (`mailtoss.c`, `mailbody.c`) | the mail spool, a copy of it, the mailbox | read, copy, truncate, import; pick the part to show, clean, wrap | lock on the spool, `MAILBOX_FILE` | no mail is lost; the first plain text is shown, all of it | MailToss, MailBody |
| News import (`newstoss.c`) | the news spool, the time of the last text's file | find the first new article, import | files | every article becomes one text | NewsToss |
| InterBBS one-liners (`ibolimport.c`, ...) | a cache, a checkpoint | import, rebuild | files | a one-liner is in the cache once | IbolImport |
| Settings and flags (`user.c`, `flag.c`, `commands.c`) | `SKLAFFRC_FILE` per user, `Flags`, `Numlines` | `read_sklaffrc`, `write_sklaffrc`, `rc_set_scalar`, `turn_flag`, `select_charset` and the commands that edit one setting | every writer writes all settings | a setting is what was given last, whoever wrote since | Settings |
| Letters and answers (`commands.c`, `text.c`, `edit.c`) | `EDIT_FILE`, `DEAD_FILE`, what SIGHUP does | `cmd_mail`, `cmd_post_text`, `cmd_personal`, `cmd_comment`, `save_text`, `save_mailcopy`, `abort_edit`, `resume_aborted_edit` | the mailbox, the netmail queue, mail programs, `SIGHUP` | what is written reaches whom it was written to, once, as the answer it is | Letters |
| Accounts (`user.c`, `admin.c`, `commands.c`) | `USER_FILE`, the password file's names | `setup_new_user`, `set_sklaff_user_name`, `user_uid`, the logout's time | files in the new home, `chfn` | who is known has all files and one name | Users |
| Files of conferences (`file.c`, `commands.c`) | a directory and its `.index` | upload, download, unlink, describe, `rebuild_index_file` | two files with locks; ignored signals | the index lists the files, with what was said of them | Files |
| Purging (`sklaffadm.c`) | text files, the life of a conference | `purge`, `forcepurge`, `mailpurge`, `life`, `maillife` | files, without a lock | only what is too old goes | Purge |
| FTN conferences (`commands.c`, `conf.c`, `ftntoss.c`) | `ftnconf` | write, and two readers | a file of the conference | the two readers agree, on what was given | FtnConf |
| Plans (`plan.c`, `commands.c`) | `.plan`, `tmplapp` | `cmd_mod_plan` | a child with the user's own rights | only the user's own file is written, with what he typed | Plan |
| Keys and screen of the editor, terminal, other administration programs, conversions, vendored software | - | - | - | not modelled, see section 5 | - |

What is hard in this system: every read of a file is stale when its lock is
gone; handlers run in the middle of the main program; a process can die
between two writes; a lock belongs to an inode while two programs replace the
file; an error return can keep a lock; a file that cannot be opened is taken
not to exist; a question to the user stands between a check and the change it
allows.  `PROJECT.json` lists each hazard at the line where it bites.

## 2. Modules

```
IntervalList ── Reading ── MCReading            ReadSet  (abstract)
                   └────── ReadingProofs
Posting ── MCPosting                            TextLog  (abstract)
   └────── PostingProofs
Letters ── PostingProofs
Sessions ── MCSessions                          Registry (abstract)
   └────── SessionsProofs
Signals ── SignalsProofs
Plan, Purge, Conferences, Files, Survey ── PartsProofs
MailToss, NewsToss, IbolImport, Users ── ImportProofs
Threads ── MCThreads
   └────── ThreadsProofs
FtnPlan ── FtnGate ── MCFtnGate
              └────── GateProofs
MCParts ── Parser, FtnConfig, FtnConf, FtnNetmail, MailBody     (algorithms)
   ├────── Conferences, MailToss, NewsToss, IbolImport, Praise, Survey,
   │       Settings, Letters (with FtnConfig), Users, Files, Purge, Plan
   └────── Posting (ftntoss alone), MCReading (first_text alone)
```

**IntervalList** holds the pure operators.  A list is a sequence of records
`[from, to]`.  `MarkAsRead` has the code's three cases of `bound` (the number
of neighbours that touch the text: insert, grow, join), `MarkAsUnread` its
four (drop, cut below, cut above, split).  `FirstUnread` and `NothingAbove`
are the pair `text`/`high` that `next_text` and `more_conf` compute.

**ReadSet** is what the lists stand for: per conference the set of texts the
user is through with.  Only the user reads and un-reads; a search adds missing
texts and nothing else.

**Reading** is one session while other processes post and delete.  `pc` says
where the session is: in the prompt, waiting for input, in the loop of
`next_text`/`more_conf` (`scan`), in `first_text` (`search`), or before the
write of a mark (`skip`, `store`).  A step reads or writes files once, so that
posting, deleting and the signal come between any two of them.  `next_text` is
the loop over one conference, `more_conf` over those `Ahead` of the current
one and those `Behind` it, with the code's one `flag` and one `first` for all.
`limit` is `last_text` as it was read when the scan began.

**TextLog** is what the text base promises: append-only logs with withdrawals.

**Posting** has an inode table.  `conf_file` is the inode the name leads to;
locks and descriptors belong to inodes.  `Save`, `Lock`/`Wait`/`GiveUp`,
`Create`, `WriteText`, `Publish`, `Announce` are `save_text`; `SaveFails` is any
of its early returns, which leave the lock; `Ask`, `Answered`, `Store` are
`cmd_mod_conf` with `conf_store_entry`; `Toss`, `Rename`, `TossText` are
`ftntoss`; `Die` is the end of any process at any point.

**Registry** is what the list of active users promises: it changes by one
entry at a time.

**Sessions** is `ACTIVE_FILE` and the processes that live by it.  `pc` follows
`add_active`: the walk over the list it read (`purge`, with `clean`/`purging`
the removal of a dead process's entry, during which the global `Uid` is that
entry's user), `check`, the question `ask`, `term` and `kill` after a yes,
`evict`/`evicting`, `add`/`adding`; then `on` the session, and `exec_logout`:
`bye`/`leaving`, `gone`, `reset`.  A change of the file is `Open` (lock and
read) and `Write` (write and unlock), so that processes can die and signals
come in between; a mere look at it is one step while it is free.  `Quit` is
`exec_logout` begun by a signal wherever the session is, but not with the file
open to be changed.  `again` is the variable `restart`.

**Signals** is one session with its stack of signal handlers.  A frame is the
main program or a handler: where it is in `display_msg`, `display_prompt` or a
command, the messages it has read, and the masks it will give to
`sigprocmask`.  `SIG_UNBLOCK` is modelled as it is: `non_critical`, `newmsg`,
`baffo`, `haffo` and `display_msg` unblock the signals they found blocked.  A
signal that is not blocked is delivered before the next step of the program.
Every message is appended to `box` (`MSG_FILE`) first and signalled afterwards,
by a step of its own.  `display_msg` displays what it took out of the file
message by message; a full screen stops it at `--more--` (`More`), and a user who
types q there ends the display: that message and those after it are `dropped`.
SIGALRM, which nothing blocks, comes while somebody is asked for a key, there or
at the input line, on top of whatever handler runs then.  Its `timeout` is a
frame: `send_msg` to oneself, with its lock, its `critical`, and its failure when
`MSG_FILE` is locked, be it by the `display_msg` that was interrupted.

**Threads** is one session that follows comments.  `cstack`, `rstack` and
`ustack` are `COM_STACK`, the texts read and the texts to unread at logout.
What is read is a set here (ReadSet, which the interval lists implement).  A
command that looks at many texts is a loop of steps, so that a text can be
deleted or posted between two of them, or the line hung up: `pc = "walk"`
(`cmd_jump_over`, `cmd_jump_tree`, `cmd_goto_text`, `cmd_unread_tree`),
`"sweep"` and `"restore"` (`cmd_jumpsub`, `cmd_sendbatch`, which mark all
unread texts before they give back those that are not meant), `"all"`
(`readall`, `readsome`), `"take"` and `"back"`, which take `ustack` apart
(`PopUnread`, `MarkHeld`) and put back what was not meant (`PutBack`):
`cmd_reclaim_unread`, and `exec_logout`, which may begin anywhere, in a
`cmd_reclaim_unread` or an `exec_logout` too, and find `CONFS_FILE` locked by the
change it interrupted (`locked`).  A session begins in the mailbox or where `set_first_conf` takes it: everything is unread then.
`Kept`, what is left of a list, is a function over its length, so that it can be
proved about.  A letter has no tree but itself: `stack_text` (`text.c:1642`) looks for
comment lines under the conference's number, and letters are not kept there.
`lastFrom`, `wanted` and `missed` are history.  That the user's home directory is
there at logout (`admin.c:940` returns early without it) is taken for granted.

**FtnPlan** is what ftntoss decides about a spool, as folds over lists of
records: `BuildPlan` with its passes (topics, then comments to what is planned,
until nothing changes), and which messages `--import-all` and `--import-one`
take.  **FtnGate** is one FTN conference with the processes that use those
decisions.  `lock` is `FTNTOSS_LOCKFILE` (whether it is there, whose it is,
whether it is old), `marker` the file that says its age was reported.  `pc` of
a process: `lock`, then `warn` and `mail` when the lock is somebody else's;
`scan` (the MSGIDs in the conference), `index` (the spool), `loop`, `write`,
`link` (import), `free`; `next`, `path`, `put`, `rm` (the queue runner and the
export it calls).  A kill leaves the lock file and everything half done.

**FtnConfig** reads CrashMail's file line by line: a line is a record of its
keyword and words.  `RoutesAgree` compares the ways in which an area is found:
for an import by the name of its conference, for an export by its number, which
needs a feed too, by tag and domain for what belongs to no conference, "keeping
the same unique-feed rules" (`ftntoss.c:5973`), and those of netmail.  **FtnConf** is the file `ftnconf` with both its
readers (`conf_load_ftnconf`, `load_meeting_ftnconf`) and its writer, as folds
over lines.  **FtnNetmail** is the import of netmail into the
mailboxes and the serial numbers of MSGIDs, 32 bits wide.

**Conferences** has `CONF_FILE` (`entry`), `CONFRC_FILE` (`confrc`, per
conference the set of users listed) and the subscriptions.  A creator's command is a check, a question, and a change of
the file as it then is; sessions log in, subscribe and leave meanwhile.  `may`
is whom the creators let in; `kept` the subscriptions that
`force_unsubscribe` could not take away, because the name of one conference
begins another's; `raced` the links made while a deletion was being confirmed.

**MailToss** is `mailtoss`: the spool read under its lock, copied, truncated,
then imported mail by mail with the mailbox locked.  **MailBody** is what it
imports: `ExtractBestPart` over nested MIME parts, `CleanupText` with the removal
of tracking parameters from URLs, and the wrapping of lines.  Where a message lacks
its last mark the code takes the end of the string for one, steps over it and
reads on (`mailbody.c:682`, `703`): what it finds there is any part, or none
(`PastTheEnd`).  So only messages with their marks show what they should for
certain, in whatever manner their boundaries begin one another; without the last
mark a plain text still does, and an HTML text need not.

**NewsToss** is `newstoss`, which knows what is new by the time of the file of
the conference's last text.  `send_news` may fail before the text counts
(`ImportFails`), with `CONF_FILE` left open and locked or not, and `main` goes on
with the next article; newstoss may die at any step (`Die`).  What it did not copy
is older than the next text that is stored, by this run or another, and then
`lost`.  **IbolImport** is the cache of one-liners with its checkpoint and its
rebuild.  New lines wait in the buffer of the output file, and a death (`Die`) leaves
any piece of them: a line cut off in its text, the last field, is taken for a
one-liner (`Known`), one cut off before is not (`Torn`).

**Praise** has the inodes of `CONFXTRA_FILE`: `cmd_like` appends under the
lock, `cmd_unlike` gives up the lock and writes the file anew (`Truncate`,
`Rewrite`), and the description changes by renaming a copy over it.  **Survey**
has the files of the replies and of those who took part, the sessions that
write them one after the other, and `survreport`.

**Settings** is `SKLAFFRC_FILE`, as the lines of its inodes.  `read_sklaffrc`
takes the last section with a heading, the user's after those for everybody;
`write_sklaffrc` empties the file (`CreateFile`) before it locks and writes it
(`WriteFile`), with all the settings the process read when its command began;
`rc_set_scalar` replaces the file.  One action stands for each command that
edits a setting.  `stale`, `raced` follow a copy that another has overtaken.

**Letters** follows what a user writes from the command to whoever takes it.
`edit` is the letter in the editor with its recipient, parent, address and
whether its caller allows aborts; `draft` and `dead` are `EDIT_FILE` and
`DEAD_FILE`; `hup` is what SIGHUP does.  `SaveText`, `Queue`, `HandMail`,
`HandArticle`, `HandFollowUp` and `Fail` are the ways out: to a conference or
mailbox, the queue of netmail, a program, or nowhere.  A letter that is out is
`given` or `copied` (`Passing`) until its copy is made (`Copy`, or `NoCopy` where
`save_mailcopy` fails, which nobody asks) and `EDIT_FILE` is removed (`Unlink`);
`save_text` may fail in between, with the text stored and `EDIT_FILE` left
(`LeftOver`), and the line may drop.  `Finish` and `Gone` are what follows in a
conference, the reply pointer and the export.  `Hangup`, `AbortEdit` and
`AbortNothing` are the line dropping.  `meant` is history: whom each letter was for.

**Users** is `USER_FILE` and what a first login makes beside it, step by step
(`Setup`), and the change of a name, which is made here, then by `chfn`, and
taken back when that fails.  When the file is locked for thirty seconds or cannot
be read, `user_name` knows nobody, so that a login takes everybody for a new user
(`Login`), and a logout does not write its time (`LogoutFails`, which is a killed
session, too).

**Files** has the inodes of `.index` and `.newindex` with their locks.
`rebuild_index_file` is the steps from `OpenIndex` to `Finish`, with its waits,
its failures, at any point of it, and the locks these keep.  `hears`, `avail` are
the signals that are ignored and the mark that are set around a transfer, with the
returns that leave them (`UploadBusy`, `UploadedLost`, `Download`) and the mark
that cannot be taken back (`Unmark`).  A session ends anywhere: at the prompt
(`Ends`), while a program receives files (`EndsSending`), between a file's removal
and the end of the rebuild (`EndsMaking`), and while a description is written
(`EndsDescribing`).

**Purge** is one run of `sklaffadm` over a conference: `FirstText`, then a walk
that looks for a file (`Look`) and then reads and removes it (`Take`,
`Vanished`), with texts posted and deleted and lives set in between.

**Plan** has the inodes of `.plan`: sessions look at the file, truncate it and
write it, while the user's shell replaces it by a file, a link or nothing.
`tmp` is `tmplapp`, which all commands that edit a personal text share.

**Parser** works on characters, as the code does: two positions that move along
the command and the line.  Its reference is stated on words: a word
abbreviates another when it begins it.

**MCParts** runs one of these per behaviour.  The variables `v1` to `v14` are
those of the part in `part`; an algorithm without state has its input in `v1`,
and grows it by one element per step.

### Abstractions

- In Reading, one session per user.  Sessions says when there can be two.
- Sessions takes the mask of SIGHUP and SIGTERM to be open outside of critical
  sections, and lets `Quit` come late: after the first write they may stay
  blocked for long (Signals).  Left out: a process id that is used again, and a
  signal in the logout of a restart, which runs `exec_logout` twice.
- `kill` to a process between `sig_reset` and `exit` or `sig_setup` has the
  default effect.  `told` is one process that somebody is about to notify.
- In Signals SIGHUP and SIGTERM are one signal, and a write is the pair of
  `write` and `ftruncate` on `CONFS_FILE`.  The programs started with signals
  ignored are two critical sections and so add nothing.  The history of
  messages, the flags that suppress some, and `Change_prompt` (in Reading) are
  left out, and errors of input and output other than a lock not given.
  `--more--` is modelled where messages are displayed.  Inside a handler it ends
  with `alarm(0)`, so that the input line below has no alarm until the next key
  (`GoOn`).
- In Posting an entry of `CONF_FILE` is its `last_text`: the other fields do not
  matter for numbers.  A text is known by the order in which saving it began.
- In Reading, posting is two steps (file, then `last_text`), as `save_text`
  does it; a crash between them is in Posting.
- The four probes of one round of `first_text` are one step.
- In Reading `ReadText` marks any text, as commands off the comment stack do
  (Threads).  `OtherPrompt` is the prompt when the stack is not empty, or when
  the database cannot be read.
- `Signal` may come at any time, whether a text was posted or not.
- Rights and the author's check of `cmd_delete_text` are left out of Reading
  and Posting: they allow fewer steps.
- In Posting an ftntoss run imports one message; in FtnGate it imports a spool,
  and a text is a record of its MSGID and parent.
- FtnGate, FtnPlan: a MSGID is a model value, of somebody else's or made from
  the number of a text, of which it keeps the remainder by `Serials` (sixteen
  bits); the rest of the format of messages is left out.  A message that
  arrives with a MSGID of this system is the echo of one in the spool, or of the
  text that is there at first (`Arrive`, `OwnAssumption`).
- Conferences: a name is a sequence of words, and typing one stands for every
  name it begins.
- MailBody: a line is a head, a mark of a boundary, empty, or a body line that
  looks like HTML or does not; every part has a head.  For cleaning and wrapping a
  line is characters, the screen four columns wide; a URL begins with "h" and a
  parameter that tracks the reader with "t".
- NewsToss: one newsgroup and one newstoss at a time; what an article refers to is
  fixed (`Refs`).  How many
  missing articles in a row the search takes for all of them is `Gap`.
- Praise: lines of the same length.  `Over` is what a shorter file leaves of a
  longer one when both are written at the same place.
- Survey: a reply is its user and which of his replies it is.  A file locked
  for thirty seconds cannot be opened, at any time it is locked.
- Settings: no line of a text looks like a heading; eight settings and the
  height of the screen stand for all of them.
- Letters: one user writes; what others write are texts that are there already.
  `Fail` may happen at any delivery.  An FTN address is its zone, its node and
  its domain.
- Users: sessions of one user one after the other, and a change of `USER_FILE`
  is one step: its writers read and write it under its lock.
- Files: what is written under both locks is one step, unless the session ends or
  the write fails, which leaves any part of it.  A lock may at any time have been
  held for thirty seconds.
- Purge: the clock counts days; a text is its day and whether it is a survey.
- FtnConf: of a value it matters whether it reads as a value.
- Plan: three texts, one of them too long.  What two writes leave of each other
  is `"torn"`.
- Parser: one case; parentheses are balanced and not nested, and the first
  character of a line belongs to a word.  The list of choices that is shown
  when a line is ambiguous is left out.
- Bounds: `MaxText` (texts per conference), `MaxGap` (texts in a row missing
  above an existing one), `MaxPosts` (texts begun), `MaxEntries` (entries when a
  login begins), `MaxLogins` (logins at a time), `MaxMsgs`, `MaxTexts` (signals
  of each kind sent), `MaxDepth` (handlers running when one more is sent);
  in Threads `Limit` (texts in each conference), `MaxRead`, `MaxAsked` (lengths
  of two stacks), `MaxDelete`; in FtnGate `MaxMsg` (numbers in the spool),
  `MaxRuns` (commands started by hand), `MaxStops` (kills, signals, failures and
  deletions); in the parts `MaxConf`, `MaxMail`, `MaxRuns`, `MaxArticle`,
  `MaxTime`, `MaxChange`, `MaxFile`, `MaxOps` (commands), `MaxShown` (times a
  survey is shown), `MaxLetters`, `hangups` (in a world of Letters), `MaxText`
  (numbers, in Purge), `MaxChanges` (changes from outside), and `Longest`, the
  length of an algorithm's input.  In Conferences the variable `menu` is the set
  of commands of which a user, in one behaviour, uses one.

## 3. What TLC checks

`MCReading`, `MCPosting`, `MCSessions`, `MCThreads` and `MCFtnGate` give the
specifications their instances; Signals has only numbers for constants and is
run as it is.

| Run | Shows | Bounds |
|---|---|---|
| `reading_long` | `ListsNormal`, `CountsAgree`, `OfferIsFresh`, `ImplementsReadSet`, `ScanEnds` | one conference of five texts: enough for two intervals and a gap on each side of them, for a join and for a split, and for a collapse of missing texts |
| `reading_two` | `NothingLeftBehind` | mailbox and two conferences of two texts, in both orders; the two conferences are symmetric |
| `reading_stale_first` (violation) | `more_conf` marks existing texts of a second conference as read with the first text of the first | conferences of three and two texts |
| `posting_sessions` | `Announced`, `ImplementsTextLog`, `SaveEnds` | two sessions that post three texts in one conference, a moderator who changes another: enough for a number to be contended for, lost in a crash and given again, and for each kind of writer to meet the other's line |
| `posting_stale_copy` (violation) | `cmd_mod_conf` takes the count back | one session, one moderator, two texts |
| `sessions_all` | `ImplementsRegistry`, `LoginEnds` | two processes of one user; hangups everywhere, kills, locks held for 30 seconds, two logins at a time |
| `sessions_serial` | `Listed`, `OneSession` | two processes of one user and one of another, one login at a time; no hangup, no kill, no lock held for long |
| `signals_all` | `MessagesKept`, `NoSelfLock`, `CutInHandler` | two messages, one notice, a hangup, the warning and the timeout; the next signal is sent with at most two frames running, so that a handler of each notice, one more when a mask was given free, and the warning can lie on top of the program |
| `threads` | `CommentsHere`, `LogoutUnreads`, `WalkExact`, `SweepKeeps` | a conference of three texts, one more posted, and a second one; a chain and a forest, that a fourth text turns into forks; one deletion; four sets of commands, so that each way of marking meets each way back |
| `ftn_gate` | `NoDuplicates`, `ThreadsTrue`, `ImportAsPlanned`, `ExportsKept`, `WarnedOnce`, `QueuedIsExported` | one ftntoss and two queue runners, two spools: a comment before its parent with a ring of two, and messages without MSGID or REPLY; one message that comes later, one command by hand, one kill, failure or deletion |
| `parts` | the properties below | one part per behaviour |
| `letters_abort` (violation) | after a text was removed in the editor, a hangup in a private letter keeps the letter as a text for a conference | the worlds of the part `letters` |

The parts of `parts`:

| Part | Property | Bounds |
|---|---|---|
| `route` | `Routes`: imports, exports and what belongs to no conference agree on the area and its feed | two AKAs of one domain or two, eight lines of eleven kinds, four conferences |
| `ftnconf` | `Routes`: both readers agree, and read what was written | two beginnings and up to eight lines of eleven kinds; six values each of domain and tag |
| `netmail` | `ImportedOnce` | three messages of two domains, three users whose names and logins cross |
| `mime`, `text`, `url` | `MailShown`: the first plain text is shown; no word of it is lost, but for what tracks the reader, and no line is too long | two parts, nested twice, boundaries that begin one another in both directions or not, the last mark missing or not; nine characters on lines of four columns; a URL within six characters of eight kinds |
| `parse` | `CommandsFound` | three words and what may separate them; two tables of five commands with the first words in common |
| `conferences` | `Admitted`, `CommentsArrive` | two users, two conferences and a third created, the name of one begins the other's |
| `mailtoss` | `ImportedOnce` | two processes, three mails, three runs |
| `newstoss` | `ImportedOnce` | four articles, three of them follow-ups, two seconds, two runs, two changes, failures or deaths; two missing in a row end the search (four in the code), so that it passes over an article |
| `ibolimport` | `ImportedOnce` | three files, two MSGIDs, two runs, one at a time, killed anywhere |
| `ftntoss` | `TossAnnounced` | two ftntoss processes, two conferences, no session |
| `search` | `FirstIsLowest` | ten texts, at most three missing in a row, from every set of remaining texts: three rounds of the binary search |
| `praise` | `OpinionsKept` | two users, two texts, four commands |
| `survey` | `OpinionsKept` | two users, shown three times |
| `settings` | `PersonalKept`: the settings are those given last | two users and `sklaffadm`, two commands: enough for a copy to be overtaken and for the other user's file to be read |
| `users` | `PersonalKept`: entry, files and name | two users, two names and a bad one, three logins |
| `plan` | `PersonalKept`: the plan | two sessions of one user, two commands, two changes in the shell |
| `letters` | `LettersArrive` | three worlds (one network or two, of one zone or two; addresses with and without domain, in the text or in its MSGID; comments sent on to another conference), two letters, one hangup in one of them |
| `files` | `FilesListed`, `NewsHeard` | two users, two files of which one's name ends the other's, three commands |
| `purge` | `PurgeKeeps` | three texts in every combination of old, young, survey and missing, or nine with a gap; none or two to be left; one change from outside, two days |

The runs marked "violation" are the findings; each checks the property that the
comment quoted in `PROJECT.json` claims.

`Hangups`, `Kicks`, `LongLocks` and `MaxLogins` are the constants that say what
the environment of Sessions does.

**Conditions that are needed.**  These holding properties have conditions;
dropping one makes TLC find them violated, by what the code does:

| Change | TLC then finds |
|---|---|
| `MCParts` with `MaxGap <- 4` in `Search` | `FirstIsLowest` violated: `first_text` takes four missing texts in a row for all of them (`conf.c:1790`) |
| `PostingSessions.cfg` with `Sessions = {s1}`, `Moderators = {}`, `Tossers = {t1}` | `Announced` violated: ftntoss replaces `CONF_FILE` without its lock, and a count is lost or a number given twice (`ftntoss.c:4981`) |
| the same with `Sessions = {}` | `ImplementsTextLog` violated: `send_ftn` counts a text before its file exists (`ftntoss.c:5060`) |
| `SessionsSerial.cfg` with `MaxLogins = 2` | `OneSession`, then `Listed` violated: two logins of one user pass `check_active` together, and the logout of one takes the other's entry (`user.c:905`) |
| `SessionsSerial.cfg` with `Hangups = {"ask"}` | `Listed` violated: a login hung up at its question runs `exec_logout` and takes the entry of the other session (`user.c:911`) |
| `SessionsSerial.cfg` with `RestartComesBack` | violated: a notification from somebody who read the list before the logout kills the session between `sig_reset` and `sig_setup` (`admin.c:1086`) |
| `Parts.cfg` with `PartsRun = {"letters"}` and a `LeftOver` that leaves `astray` alone | `LettersArrive` violated: `save_text` stores a text and then fails, `EDIT_FILE` stays, and the next letter holds both (`text.c:2194`) |
| `SignalsAll.cfg` with `FilesWhole` | violated: `baffo` and `newmsg` free SIGHUP and SIGTERM inside a critical section (`input.c:121`); `CutInHandler` is what `critical` does achieve |
| `SignalsAll.cfg` with `MaxMsgs = 1` and `QuitServed` | violated: a hangup stays pending for ever (`non_critical.c:40`) |
| the same with `MessageShown` | violated: a message whose signal was handled before `Change_msg = 0`, and that was stored after `MSG_FILE` was read (`msg.c:285`), or whose display found the file locked for thirty seconds (`msg.c:163`, which also leaves the notices blocked), waits in the file for another signal |
| `SignalsAll.cfg` with `dropped = <<>>` as an invariant | violated: `display_msg` has emptied `MSG_FILE` when the user types q at `--more--` (`msg.c:175`, `lib/output.c:163`); messages after that one are not in the list of messages seen either (`msg.c:188`) |
| `FtnGateAll.cfg` with `Serials = 1` and `Distinct` | violated: texts n and n + `Serials` of a conference stand in the conference, and go out, under one MSGID (`ftntoss.c:557`, where `Serials` is 65536) |
| `Parts.cfg` with `PartsRun = {"newstoss"}` and `lost = {}` (`v12 = {}`) | violated: an article that `send_news` failed to store, or that a killed run left, is never copied once a later one is a text (`newstoss.c:248`, `219`) |
| `Parts.cfg` with `PartsRun = {"ibolimport"}` and every line of the cache `whole` | violated: a line cut off in its text counts as known (`ibolimport.c:464`, `iboldb.c:142`) and stays short until a rebuild |
| `ThreadsAll.cfg` with `missed = {}` in place of `LogoutUnreads` | violated: a hangup in `cmd_reclaim_unread` finds texts in its hands or on `ustack2`, which `exec_logout` does not look at (`commands.c:7795`, `admin.c:946`), and `mark_as_unread` fails when the session itself holds the lock on `CONFS_FILE` (`text.c:749`) |
| `ThreadsAll.cfg` with `CommentsLastRead` | violated: after a change of conference `cmd_comment` without a number takes `Last_text` for a text of this one (`commands.c:6970`) |

Other conditions stand in the properties themselves, as sets of history
variables that name what is excused and why:

- `ImportedOnce`, mail (`MailSafe`): mail that comes between the copy of the
  spool and its truncation, mail of a run that fails without a copy, and mail
  that two processes import at a time.
- `ImportedOnce`, news (`NewsOnce`): articles that come during a run or in the
  second they are copied in, those before a last text that is changed or
  removed, and those before as many missing ones in a row as `first_news` takes
  for the beginning of the group (`Hidden`): it may pass over them, and later
  runs take them for old.  A run has to copy what it finds in the spool but
  articles that an earlier run failed to copy, or left when it died, before a
  text was stored (`lost`).
- `ImportedOnce`, one-liners (`IbolOnce`): files that a rebuild could not read
  below the checkpoint (`passed`).  Two runs of ibolimport at a time, which nothing
  prevents, are not modelled.
- `PraisesKept`: files rewritten from an old copy (`raced`), praises that went
  with a description (`dropped`), and praises given twice once a description
  was put behind them or removed (`shuffled`).
- `RepliesKept`: files begun anew by two at a time or after thirty seconds
  (`excused`), users whose session ended between reply and mark (`again`,
  `uneven`).
- `Admitted`, `CommentsArrive`: see `kept` and `raced` above.
- `LettersArrive`: letters that a failure or a hangup kept back, which stay in
  `EDIT_FILE` and so begin the next letter (`astray`), among them those that were
  delivered, where `save_text` fails in its copy or the line drops before
  `EDIT_FILE` is removed (`text.c:2189`, `commands.c:2818`, `3121`, `3958`); texts whose
  session ended before the reply pointer was written, and letters whose copy could
  not be made (`cut`); comments that go from a
  conference to a newsgroup on a user's text, which are stored as a text without
  author (`Misplaced`); addresses without a domain in a zone that two networks
  have (`Known`).
- `PersonalKept`: settings of which a process had an old or half a copy
  (`raced`) and sessions that have read another user's file (`lent`); users
  whose first login or whose change of name was cut off (`cut`, `split`), whose last
  logout could not write its time (`unsaved`: the entry has an earlier one), and
  known users who are turned away because their login could not read `USER_FILE`
  (`misread`; `user.c:377`, `admin.c:601`); plans
  written by two sessions at a time or cut off after the truncation (`said`),
  and texts edited by two sessions at a time (`mixed`).
- `FilesListed`: the time after two indexes were made at once, or one was given
  up, cut off by the end of a session, or not begun when one ended while it
  received files or its `cmd_upload` could not return to where it was (`uneven`,
  until the next rebuild), a description that was cut off, and names that end
  another's (`excused`).
- `LogoutUnreads`: texts that a hangup finds in the hands of `reclaim_unread` or of
  a logout, or while `CONFS_FILE` is locked (`missed`).
- `NewsHeard`: users whose last transfer returned in the middle of its command, at
  `commands.c:6092`, `6241`, `6328` or `6390`, or could not take the mark back
  (`failed`).
- `PurgeKeeps`: texts that users deleted meanwhile; the texts that are left are
  counted only if none of the last numbers was missing.
- `CommandFound`: a command of which only some words were typed runs without an
  argument.

**What these conditions say of the code.**

- A text or letter that `save_text` has published is still in `EDIT_FILE` until its
  copy is written: a mailbox that is locked then, or a text file of the copy that
  cannot be made, makes the command say that it failed, and the next letter begins
  with the one that was delivered, whoever it is for (`text.c:2194`).

- `read_sklaffrc` of another user's file, for a look at his status or a message
  to him, sets the height of this session's screen (`user.c:1627`);
  `write_sklaffrc` never writes that height, so that the next change of any
  setting loses it.
- `create_file` truncates before anybody locks: who reads then sees a file
  without settings, and writes it back so.
- `remove_confxtra_section` means to remove a heading and the next line, and
  removes two lines after the heading (`confxtra.c:140`): the praise that comes
  next is lost with a description (`dropped`).
- A first login that is interrupted leaves a home directory, and
  `setup_new_user` then refuses every further one (`user.c:773`).  Of two users
  with the same name `user_uid` finds the first.
- The help of `sklaffadm purge` speaks of the number of texts that are left
  (`lang.h:1663`); the code counts numbers, missing ones included.
- A domain or tag that begins with `#`, or with `![`, makes `ftnconf` a file that
  neither reader takes, and `cmd_mod_conf` then refuses the conference
  (`commands.c:9102`), whose entry was stored before (`commands.c:1808`).
- Some returns of `cmd_download` (`commands.c:6328`, `6390`) and of `cmd_upload`
  (`commands.c:6092`, `6241`) leave the user marked as busy, `6241` and `6328` the
  signals ignored as well; `6241` makes no index of what was received.
  `rebuild_index_file`, when it fails, leaves the index locked and SIGHUP and
  SIGTERM blocked.
- A session that ends while it receives files leaves them in no index until
  somebody sends or removes a file.
- `tmplapp` is one file for all commands that edit a personal text
  (`commands.c:4586`, `4705`, `4834`, `4976`, `8877`).
- With the flag for copies, a comment on the copy of one's own letter goes to
  oneself.

Of the reading runs none stops.  Posting never stops: a process can die.
Sessions stops when all processes have ended, Signals and Threads when the
session has, FtnGate when nothing is left in the bounds, and the parts when
their input or their bounds are used up; their configurations do not check for
deadlock.

**Fairness.**  `Reading` assumes weak fairness of `Scan` alone: the loop is
straight sequential code without a wait (the lock on the user's own
`CONFS_FILE` is only contended by the same user).  Users need not type and
signals need not come.  With a finite number of texts a scan then ends
(`ScanEnds`).  `Posting` assumes weak fairness of the steps of `save_text`, with
`sleep(1)` and the thirtieth failed try being steps; nobody has to let go of a
lock.  Hence `SaveEnds` also holds when a lock is never released.
`Sessions` assumes weak fairness of the steps a process takes by itself
(`Step`): not of users, signals or deaths.  A process that holds the lock goes
on to release it, so that `LoginEnds` needs no time limit.  `Signals` assumes
that the kernel delivers what is not blocked, that the program runs on where it
does not wait for input, and that a sender signals what it has stored; the user
need not type.  `FtnGate` assumes that every process that runs goes on, and
that cron starts the queue runner again (`Runs`): neither waits for a person.
Nobody has to start ftntoss, to save, or to remove an old lock.  That an import
leaves its index is said as `[]<>~At(p, "index")`, which is weak fairness of
`Index`, enabled whenever a process is there.  `QueuedIsExported` says nothing
once something was killed or has failed: a lock file then stays until somebody
removes it.

## 4. What TLAPS proves

**ReadingProofs.**  First the lists.  `InsertAtIs`, `RemoveAtIs` say element by
element what the sequence operators do.  `GapForIs`: in a normal list the first
gap separates what is below a text from what is above it (by the least
counterexample, `LeastElement`).  `MarkAsReadNormal` and `MarkAsUnreadNormal`
follow case by case from `InsertNormal`, `ReplaceNormal`, `RemoveNormal`.
`FirstUnreadIs`: on a normal list `FirstUnread` is the lowest text that is not
marked.  `MarkAsReadMarks`, `MarkAsUnreadMarks` and `UpToMarks`: in all cases of
the code the set of marked texts gains or loses the one text, or becomes all texts
up to a number.  `NumUnreadIs`: in a normal list that marks nothing above the last
text, the last number less the lengths of the intervals is the number of texts
that are not marked; the fold that adds the lengths is unrolled one interval after
the other (`OneIntervalMore`).

Then the session.  `ReadingSafe`: `Spec => [](TypeOK /\ ListsNormal)` for any
set of conferences with a mailbox and any bounds (`ConfsAssumption`,
`BoundsAssumption`).  `TypeOK /\ ListsNormal` is not inductive: a search's
answer becomes the current conference, so that it must be known that only
subscribed conferences are in the queue, and that no queue is left over when
the user unsubscribes (`QueueKnown`).  Three more safety
theorems rest on that invariant.  `OfferStaysFresh`:
`Spec => []OfferIsFresh`; `Offered` adds that a prompt that need not be worked
out again offers no text, and that the scan of a text is one of the current
conference.  `MoreConfIsRight`: `Spec => NothingLeftBehind`; `Looked` says that
each conference is still in the queue or has every text up to the limit marked
(`Through`), which the mailbox has before the queue is made (`MailUnread`), a
conference by the end of its scan (`MarkedBelow`), and which posting cannot undo
because it adds numbers above the limit.  `FirstTextIsLowest`: `Spec =>
FirstIsLowest`, provided that at most three texts are missing in a row above an
existing one (with four it is false: see the conditions in section 3);
`Searching` says that no text is below `first` while the search runs, and
`NoneBelowFour` is the argument by which four missing texts let it go up.
`ReadingIsSet`: `Spec => ImplementsReadSet`, the refinement, under the same
condition and with a single conference besides the mailbox (`OneConference`):
with two, the answer of `first_text` for one of them is kept while the other is
entered, and the mark of everything below it passes texts nobody has seen, as
`reading_stale_first` shows.  The invariant is `Passing`: a text that `next_text`
steps over, or that is about to be marked with everything below, is missing
(`Missed`, `FirstLow`), a conference just joined has marks only below its first
text (`Newcomer`), and no number is marked above the limit (`Limits`).
`UnreadIsCounted`: `Spec => []CountsAgree`, again with one conference besides the
mailbox: `num_unread` is wrong as soon as a list marks a number that no text has
yet, and with two conferences that stale answer of `first_text`, kept while the
other conference is entered, marks such numbers (TLC finds it with three texts
in one conference and two in the other).  The invariant is `Below`: what is
marked, what a search has come to and what a prompt offers is a number given out
already.

**PostingProofs.**  `PostingSafe` and `PostingIsLog`: if nobody tosses with
ftntoss and no conference is both posted in and changed by a moderator, then
for any number of sessions, moderators and conferences the announced number
leads to the saved text, and `Posting` implements `TextLog`.  The two
conditions are needed, as `posting_stale_copy` and the second row of the table
of conditions show.  The inductive invariant
says that there is one inode (so one lock protects the file), that whoever is
past the lock has it and holds in his buffer the file but for his own line
(`Locked`), that a text is written before it counts (`Written`), that a
moderator's copy is not stale (`Roles`), and that the text of a running save is
in no log and in no other save (`Fresh`).  A death or a failure keeps it because
it changes no file.  `TossersSafe`: any number of ftntoss processes that meet
nobody else keep what they announced, wherever they are killed.  Its invariant
`OneTosser` says that the lock file has one owner, that he alone is past it,
that the file he is about to rename is the old one with one number more, and
that a text which has a number stays until somebody deletes it.

`LettersGoWhereMeant`: `Spec => []LettersArrive` of Letters, for any conferences of
the three kinds, any systems and any number of letters and hangups.  The theorem
assumes that users, conferences and what is written are different things and none of
them "nothing" (`Markings`), and of each system (`Systems`) that the writer from
outside has an address with zone and domain and that exactly one netmail area, with a
base that ftntoss can write, belongs to his domain; the areas of other networks may
be anything, zones used twice included.  An address without domain is right only as
long as that does not lead elsewhere, which is what `Known` in the property asks and
`TossRight` shows of ftntoss.  The invariant follows one letter: what the editor is
going to do with it is what it is meant for, whichever command it was begun with
(`EditRight`, `EditFits`); `EDIT_FILE` has it exactly while it is saved or waits to be
resumed, and otherwise nothing that is still wanted (`InHand`); until then it is in no
mailbox, queue or program (`Unplaced`), and afterwards in one of them, with its
writer's copy, or with one due (`Single`, `CopyDue`), while `EDIT_FILE` still has it;
and what a text says of its author and addresses is true (`TextOk`), because the
answers to it go there.  A hangup keeps this because
`DEAD_FILE` has what makes a text for the conference it was begun in the same text
again (`ComesBack`), and because what it does not have it gives up (`NothingLeft`).

**SessionsProofs.**  `ListChangesByOne`: `Spec => ImplementsRegistry` for any
processes and users and whatever the environment does.  The invariant: who has
the file open to change it holds its lock (`TypeOK`), and what he read is still
the file (`Current`).  A step of the environment keeps it because a lock ends
with its process (`Ends`).  `SessionsAreListed` and `OneSessionEach`:
`Spec => []Listed` and `Spec => []OneSession`, for any finite set of processes
that log in once each, without lost lines, kicks or locks held too long
(`Serial`): each of these breaks one of the two, as the conditions in section 3
show.  The invariant `SInv` says where the entry of a process is at each of its
steps.  `FirstIsAnEntry` is `remove_active`'s loop: the
entry it stops at is the user's (the least index, by well-foundedness).  That
`check_active` names a process is needed for the kill (`Asked`).

**SignalsProofs.**  `NeverLockedOut`: `Spec => []NoSelfLock` for any number of
signals and handlers: the warning alone interrupts `display_msg` while it has
`MSG_FILE`, and has then failed or will.  `Guarded` is the inductive form: while the
frame on top has the file, both notices are blocked, and so they are by the mask
that the frame above it puts back; at most one frame has the lock, so that the
warning, finding it held, cannot store; and there is no second warning, since
the first has set `Warning`.  One lemma per way in which the stack changes
(`TopGoesOn`, `HandlerBegins`, `HandlerEnds`, `Over`), then one
per group of actions.
`CutOnlyInHandler`: `Spec => CutInHandler`.  Its invariant `Covered` says that at
most one frame is in the middle of a write, and that QUIT is blocked while it
runs: by the mask when it is on top, else by the mask that the frame above it
puts back when it returns.  So the only place where QUIT is free in a write is a
handler (`newmsg` and `baffo` free it), and a timeout finds the main program
where it waits for a key, not in a write (`Waits`, `EndsBy`).  `NoneIsLost`:
`Spec => []MessagesKept`.  The invariant `Sorted` says that no message is at two
places or twice at one and that those sent are those that are somewhere (`Once`),
and that a frame has messages only from reading `MSG_FILE` to displaying the last of them, which
are those of the file while it empties it (`ReadsOf`).  That needs `Guarded`:
a second `display_msg` in a handler would empty the file behind it.  The lemmas
`AllMove`, `AllJoin`, `FirstMoves` and `OneMore` say that the places keep each message once;
that there is one copy then follows from the pigeonhole principle (`OneCopy`).

**PartsProofs.**  Five parts, each an instance with its own parameters.
`PlanSafe`: `Spec => []PlanKept` for any sessions, texts and
changes, provided that the mark for "no plan" is not a text.  The invariant: who
is past `plan_open_safe` has a file of the user open, whatever the name leads to
since (`OwnFile`); who was not disturbed edits alone, so that `tmplapp` has what
he put there (`Alone`, `InTmp`); the text in the editor is the one that was read
(`AsRead`); and the plan is what was given last but for the file that is
truncated and not yet written (`Given`).  `PlanKept` alone is not inductive: it
speaks of sessions that rest.

`PurgeSafe`: `Spec => []PurgeKeeps` for conferences of any size, any lives
and any number of texts to be left, provided that texts are numbered in the order
of their age and a mailbox has no surveys (`Sound`).  That `FirstText` is a
number at all has to be proved first (`FirstTextIs`): its search by halves is a
recursive function, which is one because the numbers it has left are fewer at
each step (`StepShrinks`, from which a function that satisfies the recursion is
built); nothing else about its answer is used.  The invariant: numbers that the
purge found are still those texts or are gone (`Same`); those that are gone by it
were rightly purged, and are not the last ones (`GoneRightly`); and an old text
below the number it has come to is gone (`Passed`), for which the order of ages
is needed when it stops at a young one.

`UsersAreAdmitted` and `CommentsGoSomewhere`: `Spec => []Admitted` and
`Spec => []CommentsArrive` of Conferences, for any users, names and bounds, and any
files to begin with in which conferences have creators and comments go to
conferences (`ConfsFounded`).  Neither is inductive.  The invariant says that the
list of `CONFRC_FILE` and the type of a conference let in exactly those whom its
creator lets in (`RightIs`): through every grant, and through a change of type, by
which the same list is read the other way round.  For that the copy that
`cmd_mod_conf` stores must have the creator who asked, and for the links the
`comconf` of the entry it overwrites (`Asking`): true because a user has one
question on the screen, and nobody else changes his conferences.  A session that
logs in is, outside of the conferences still to be looked at, only where it is let
in, and its copy of the types names the right creators (`Entering`); a type that
changed meanwhile is what `kept` excuses.  That nothing is linked to a conference
about to be deleted is `Parting`, by which `LinkIs` survives the deletion.

`FilesAreListed` and `NewsIsHeard`: `Spec => []FilesListed` and `Spec => []NewsHeard`
of Files, for any users, descriptions and bounds and a finite set of names that are
sequences of words (`NamesAreWords`).  `FilesListed` speaks of a conference at rest
and says nothing of how it got there.  The invariant says what an index on its way
is worth (`Even`): unless the index may be anything, at most one session has made
one, and its lines are good wherever they are, in `.newindex`, in the buffer of
`copy_file` or in `.index` again (`MakingIt`).  Good lines have what was said last of
every name that is not excused, also while files come and go; and they list what is
in the directory as soon as nobody is about to list it (`Good`).  A description goes
into an index that is good, or into one that is about to be overwritten, and then
its name is excused: that is why `cmd_describe`, which takes no part in this, keeps
the invariant.  A session that ends gives its locks free and leaves an index that
may be anything, or ends where none is being made: `EndsKeeps` and the lemmas
before it.  That `SetToSeq` lists every file once is `ListingIs`, by the pigeonhole
principle.

`RepliesStay`: `Spec => []RepliesKept` of Survey, for any users and bounds, provided
that the mark for "no file" is no set of replies or of users, and nobody no user
(`NoneIsNoFile`).  The invariant: a reply that was saved and is not excused is in the
file, and in the copy that is about to take its place, because who writes it has the
lock; who begins the file anew has excused what was there (`RepliesIn`,
`RepliesSafe`).  Who has replied is among those who have taken part once he has come
to that file, and is not asked again (`MarksIn`, `MarksSafe`).  While nothing went
wrong the two files speak of the same users (`AllCounted`), each with one reply, so
that the numbers `survreport` compares are equal (`OneReplyEach`).

**ImportProofs.**  `MailComesOnce`: `Spec => []MailSafe` of MailToss, for any number
of processes, mails and runs.  The invariant says where a run's mails are at each of
its steps: in the spool until it is truncated, then in the copy, in no mailbox before
and in no spool afterwards (`InSpool`, `InCopy`, `Copied`, `Fresh`); that two runs
which overlap have only excused mails (`Apart`); and that whoever writes a text has
`MAILBOX_FILE` locked and its number is the next (`BoxLocked`).  `IbolComesOnce`:
`Spec => []IbolOnce` of IbolImport, for any messages and runs, provided that the mark
for "nothing" is no message (`Marked`).  The invariant: a run knows the MSGIDs in the
cache that it makes, which for an update is the old one with the new lines, and has
everything below its place in it (`Importing`), and what remains after a cache is
installed is to move the checkpoint over files that are in it (`Ending`).  Whatever
piece of the new lines a death leaves, no MSGID is twice in it (`PieceIs`, `PartOnce`).

`NewsComesOnce`: `Spec => []NewsOnce` of NewsToss, for any articles, texts and runs and
any `Gap` of at least one.  The invariant says that the times tell old from new
(`TimesTell`): but for excused articles, what waits is not older than the file of the
last text, and what was copied and is still in the spool is older; during a run, which
reads that time once, the same of the time it has read, for the articles it has not come
to.  What a run has left behind is in the conference, or it failed and is `lost` with
the next text (`RunNews`): below the place that
the search by halves has come to everything is excused, because `Gap` missing articles
in a row hide what is before them (`Hidden`).

`UsersAreKept`: `Spec => []UsersKept` of Users, for any people, names, times and
number of changes, provided that "nothing" is no name (`NoName`).  The invariant says
of everybody (`UserOk`) that `USER_FILE` has him at most once; that who is not in it
has made just the files that come before his step of `setup_new_user`, and was never
logged out, or his session was killed there (`IsNew`); and that who is in it has all
of them, the time of his last logout that could be written, and the name that `chfn`
gave to the system, but between its two files or when one of them could not be written
(`IsKnown`).  That he has his home is what keeps a login that could not read the file
from entering him again: `mkdir` is the first step.  As every
entry is of one user and nobody has two, whoever looks for a name finds somebody who
has it (`EntryIs`).  Other people's steps change nothing of this (`OthersStay`).

**GateProofs.**  Five theorems about FtnGate, for any finite set of processes, any
spools, arrivals and bounds (`ProcsAssumption`, `SpoolsAssumption`: a spool is a
directory, which has a file once; `OwnAssumption`, above).
`OneIsPastTheLock`: `Spec => []TypeOK`, from `LInv`, which says of each process
where its program can be (`States`) and that whoever is past the lock is its
owner (`Owner`); with one owner, `OneHolds` gives that no two import or export at
once.  `ReportedOnce`: `Spec => []WarnedOnce`; `Warned` counts the processes that
are about to mail a warning, which the marker's creation lets be one more than
those whose mail failed.  `DInv` says what the data are: the texts
and the jobs of the queue (`Texts`, `Jobs`), that each file of the spool is there
once (`Files`), that an import's list names texts under their MSGIDs and its
messages come from the spool (`Imports`), and that a text comments one that was
written before it (`Parents`).  It needs what `SpoolItems` and `ScanExisting`
answer, which are functions over the numbers, by induction on the number
(`AllNumbers`, from the least counterexample).  `ExportsStayWritten`:
`Spec => []ExportsKept`; `Exports` adds that a runner that is about to remove a job
has written its message.  `ThreadsAreTrue`: `Spec => []ThreadsTrue`; `Linked`
says that the texts without a link that no import is about to write are at most
as many as processes were stopped.  `NothingComesTwice`: `Spec => []NoDuplicates`, from
`OwnIds` and `Covered`.  An import's list has the MSGID of every text
but those saved since it read `CONF_FILE` (`Covered`); the MSGIDs of those cannot
be in what it imports, because nothing is exported while it holds the lock
(`OwnIds`): without the common lock of import and export a message written here
would come back beside its text.  It is shown for a conference that has had fewer than
`Serials` texts (`NoDuplicates`, `LastGrows`); later texts may share a MSGID
whatever else holds.

**ThreadsProofs.**  Four theorems about Threads, for any conferences, any threads
to begin with in which a text comments an earlier one (`BoardsAssumption`) and any
bounds that these keep (`BoundsAssumption`).  `CommentsAreHere`: `Spec => []CommentsHere`.  That no text is on the stack
twice is not inductive: the comments of a text that is taken off could be there
already.  The invariant `Waiting` is that no text on the stack is below another
(`Tidy`), where b is below a if it is in every set that has a and the comments of
what it has (`Under`); this needs no recursion and no path.  Then the comments of a
text that is taken off are below no text that stays (`ApartFromComments`), two
comments of one text are below neither (`CommentsApart`, because comments have the
greater numbers: `UnderNotAbove`), and a new text comes below nothing that was not
there (`NewTextUnder`).  In a walk the text the walk is at counts as one of the
stack (`Walking`).  `AskedIsUnread`: `Spec => []LogoutUnreads`; until it is
marked, what is wanted is on the stack or in hand (`Asked`), for which
`reclaim_unread` has to put back what it does not take, and a logout has to put
nothing aside (`Handed`).  `SweepsKeepTheirWord`: `Spec => SweepKeeps`; `Owed`
says that a text that was unread, is not meant and is still there has been marked
only if it is in the part of the list that is not gone along yet.  `WalksAreExact`:
`Spec => WalkExact`.  The tree of a text is what `IsTree` says of it, which the
recursive function of the model obeys because it is the least such set
(`TreeFunction`, `TreeIs`): no text can be below itself.  The invariant `Walked` says
of a walk that every text of its tree that still is in the tree is done, or below a
text that is ahead (`Covered`); that what is ahead is meant (`Within`), for which
nothing may come into the tree later that is not newer than the walk (`Whole`); and
that only what is meant, or lost, has been marked (`Bounded`).  Others' steps keep it
because a deletion only takes from a tree, and what stays below the root stays below
every text between (`FewerTexts`), and because a post changes no tree up to its number
(`SameUpTo`).  `Placed`, invariant too, says that a walk begins at the number of a
text.  All rest on `KeptIs`: what is kept of a list are those of its entries that are
in the set, each as often as there.

All inductive invariants were checked with TLC before they were proved.

Only model-checked: `ImportAsPlanned` (a fixpoint of folds), of the parts the
algorithms, Praise and Settings, and all
liveness (fairness and `ENABLED` are beyond the prover).  The library's induction
theorems take an operator and cannot be used; where a definition goes along the
numbers of a list, the proofs take the least number that is a counterexample
instead (`LeastOf`, `UpTo`).  MailBody and Parser use recursive operators, which modules
with proofs cannot.

## 5. What is left

Done: Reading, Posting, Sessions, Signals, Threads, FtnGate, and the parts.  Next:

1. **Sessions** extended with process ids used again (`user.c:890`) and with the
   creation of `MSG_FILE` after the entry (messages sent in between,
   `admin.c:696`).
2. **Posting** extended: mail copies, and `append_comment_link` of ftntoss
   against a session that rewrites the text under its lock (`ftntoss.c:5004`).
3. **Signals** composed with Reading: is a new text offered in time, when
   `display_prompt` clears `Change_prompt` after `more_conf` has looked?
4. **Parser**: the list of choices of `expand_name`.
5. Proofs: praise, settings and status flags, whose invariants TLC
   checks; and `ImportAsPlanned`, whose folds have to be unrolled
   number by number as `NumUnread`'s and those of `SpoolItems` were.

**Not modelled**, and why:

- The lines and keys of the editor, `output`, `more` and the terminal: input
  and output of one process; what is delicate in them, the signal handlers, is
  in Signals, and the end of an edit in Letters.
- What each status flag does: the display of texts, lists and messages.
- The rest of `sklaffadm.c`, `sklaffacct.c`, `sklaffwho.c` and wrappers around
  other programs: they run once, by hand, and lay out what they read.
- Conversions (`utf.c`, times, quoted-printable, base64, HTML to text, dumps of
  messages): functions from bytes to bytes, a matter for tests.
- `lang.h` and the translations: text.
- The statistics of surveys, the display of one-liners, news headers: layout.
- Vendored programs.

## 6. Reproducing

`tlc -config ReadingLong.cfg MCReading` (`SignalsAll.cfg` with module `Signals`,
`LettersAbort.cfg` with `MCParts`, `ThreadsAll.cfg` with `MCThreads`,
`FtnGateAll.cfg` with `MCFtnGate`, `Parts.cfg` with `MCParts`), and likewise for
the other configurations; `tlapm PostingProofs.tla` and likewise for the other
proofs.  The longest run takes about four minutes with two workers.
