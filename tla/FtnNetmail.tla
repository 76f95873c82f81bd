----------------------------- MODULE FtnNetmail -----------------------------
(***************************************************************************)
(* Private FTN mail: the import of a netmail spool into the mailboxes, the *)
(* names it goes by, and the MSGIDs of what is sent.                       *)
(***************************************************************************)
EXTENDS Integers, SequencesExt, FiniteSetsExt

CONSTANT None

(* Who a name belongs to: the first user of the password file, among those *)
(* with a mailbox, whose real name or login it is.  Names are compared     *)
(* without case, dots and double spaces, up to a comma; that is their form *)
(* here, and None is an empty one.                                         *)
FindNetmailUser(users, name) ==
  LET fit == { i \in DOMAIN users : users[i].box /\ name \in {users[i].real, users[i].login} }
  IN  IF name = None \/ fit = {} THEN None ELSE Min(fit)

AlreadyAnyDomain(box, dom, id) == \E i \in DOMAIN box : box[i] # None /\ box[i].id = id

(* A mailbox is a sequence of texts, None where one was deleted; dom is    *)
(* None in texts from before domains were stored.                          *)
AlreadyImported(box, dom, id) ==
  \E i \in DOMAIN box : box[i] # None /\ box[i].id = id /\ (dom = None \/ box[i].dom \in {None, dom})

(* One message of the spool: it is skipped without MSGID, without a user,  *)
(* and when the user has it; one that cannot be read or stored is counted  *)
(* and does not stop the others.                                           *)
ImportNetmail(s, msg, users, dom) ==
  LET uid == FindNetmailUser(users, msg.to)
  IN  IF msg.bad THEN [s EXCEPT !.failed = @ + 1]
      ELSE IF msg.id = None \/ uid = None THEN s
      ELSE IF AlreadyImported(s.boxes[uid], dom, msg.id) THEN s
      ELSE [s EXCEPT !.boxes[uid] = Append(@, [id |-> msg.id, dom |-> dom]),
                     !.told = Append(@, uid)]

ImportNetmailSpool(boxes, msgs, users, dom) ==
  FoldLeft(LAMBDA s, m : ImportNetmail(s, m, users, dom),
           [boxes |-> boxes, told |-> <<>>, failed |-> 0], msgs)

(* The address that a reply to a text goes to: that of the MSGID, with the *)
(* domain of the area it came in through.                                  *)
ReplyAddress(id, dom) == [addr |-> id.origin, dom |-> dom]

-----------------------------------------------------------------------------
(* The serial numbers of MSGIDs are 32 bits wide.                          *)
Low16(n) == n % 65536

ExportSerial(confnum, textnum)  == Low16(confnum) * 65536 + Low16(textnum)
NetmailSerial(created, msgnum)  == Low16(created) * 65536 + Low16(msgnum)
ExportTestSerial(hash, msgnum)  == Low16(hash) * 65536 + Low16(msgnum)

-----------------------------------------------------------------------------
(* Messages that arrive one by one in the spools of several domains, each  *)
(* followed by an import of all the spools, as import_all_netmail_spools   *)
(* makes it: the boxes after that.                                         *)
ImportEvery(doms, spools, boxes, users) ==
  FoldLeft(LAMBDA b, d : ImportNetmailSpool(b, spools[d], users, d).boxes, boxes, doms)

ImportAsTheyCome(doms, msgs, boxes, users) ==
  FoldLeft(LAMBDA b, n :
             ImportEvery(doms,
               [d \in ToSet(doms) |->
                  SelectSeq(SubSeq(msgs, 1, n), LAMBDA m : m.dom = d)], b, users),
           boxes, [n \in DOMAIN msgs |-> n])

(* However often the spools are imported: a mailbox has no message twice,  *)
(* every message to somebody here is in the mailbox of the first user it   *)
(* can mean, and only there; and one more import finds nothing to do.  A   *)
(* text from before domains were stored stands for its MSGID in any domain.*)
NetmailOnce(doms, msgs, boxes, users) ==
  LET after == ImportAsTheyCome(doms, msgs, boxes, users)
      all   == [d \in ToSet(doms) |-> SelectSeq(msgs, LAMBDA m : m.dom = d)]
  IN  /\ \A u \in DOMAIN after : \A i, j \in DOMAIN after[u] :
           /\ after[u][i] # None /\ after[u][i] = after[u][j] => i = j
           /\ after[u][i] # None /\ i > Len(boxes[u]) =>
                \E n \in DOMAIN msgs :
                  /\ msgs[n].id = after[u][i].id /\ msgs[n].dom = after[u][i].dom
                  /\ FindNetmailUser(users, msgs[n].to) = u
      /\ \A n \in DOMAIN msgs :
           LET u == FindNetmailUser(users, msgs[n].to)
           IN  ~msgs[n].bad /\ msgs[n].id # None /\ u # None =>
                 \E i \in DOMAIN after[u] : /\ after[u][i] # None
                                            /\ after[u][i].id = msgs[n].id
                                            /\ after[u][i].dom \in {None, msgs[n].dom}
      /\ ImportEvery(doms, all, after, users) = after
=============================================================================
