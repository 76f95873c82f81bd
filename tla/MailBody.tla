------------------------------ MODULE MailBody ------------------------------
(***************************************************************************)
(* What of a mail becomes a text: the part of a MIME message that is shown *)
(* (mailbody.c), the cleaning of its lines, and their wrapping             *)
(* (mailtoss.c).                                                           *)
(*                                                                         *)
(* A message is a sequence of lines: headers with the content type and the *)
(* boundary, empty lines, marks of a boundary, and lines of a body, which  *)
(* may look like HTML.                                                     *)
(***************************************************************************)
EXTENDS Integers, Sequences, FiniteSets, SequencesExt, FiniteSetsExt, Functions

CONSTANTS None, Column

Head1(ct, b) == [is |-> "head", ct |-> ct, b |-> b]
Blank        == [is |-> "blank"]
Body(id, h)  == [is |-> "body", id |-> id, html |-> h]
Mark(b, end) == [is |-> "mark", b |-> b, end |-> end]

Lowest(S) == IF S = {} THEN 0 ELSE Min(S)
From(s, i) == SubSeq(s, i, Len(s))

(* find_body_start: after the first empty line, wherever that is.          *)
BodyStart(s) == LET e == Lowest({i \in DOMAIN s : s[i].is = "blank"}) IN IF e = 0 THEN 0 ELSE e + 1

(* parse_part_headers: without a content type it is text.                  *)
Headers(s) ==
  LET h == Lowest({i \in DOMAIN s : s[i].is = "head"})
  IN  IF h = 0 THEN Head1("plain", None) ELSE s[h]

(* strstr finds the mark of any boundary that begins with this one.        *)
MarkFrom(s, i, b) == Lowest({k \in i .. Len(s) : s[k].is = "mark" /\ IsPrefix(b, s[k].b)})
IsEnd(line, b) == line.b = b /\ line.end

Htmlish(part) == part.ct = "html" \/ \E i \in DOMAIN part.body : part.body[i].is = "body" /\ part.body[i].html
Part(ct, body) == [ct |-> ct, body |-> body]

(* Mutant: the last text of a kind is taken.                               *)
StoreLast(best, part) ==
  IF Htmlish(part) THEN [best EXCEPT !.html = part]
  ELSE IF part.ct = "plain" THEN [best EXCEPT !.plain = part] ELSE best

(* The first HTML and the first plain text are kept, the rest is ignored.  *)
Store(best, part) ==
  IF Htmlish(part) THEN [best EXCEPT !.html = IF @ = None THEN part ELSE @]
  ELSE IF part.ct = "plain" THEN [best EXCEPT !.plain = IF @ = None THEN part ELSE @] ELSE best

Best(best) == IF best.plain # None THEN best.plain ELSE best.html

(* What lies behind the message in memory may look like another part.      *)
Stray(ct) == Part(ct, << Body(0, FALSE) >>)
PastTheEnd(best) ==
  {best, Store(best, Stray("plain")), Store(best, Stray("html")),
   Store(Store(best, Stray("plain")), Stray("html"))}

RECURSIVE ExtractBestPart(_), Parts(_, _, _, _)

(* What may be shown of a message.                                         *)
ExtractBestPart(msg) ==
  LET start == BodyStart(msg)
      h == Headers(SubSeq(msg, 1, start - 1))
  IN
  IF start = 0 THEN {None}
  ELSE IF h.ct # "multi" \/ h.b = None THEN {Part(h.ct, From(msg, start))}
  ELSE {Best(best) : best \in Parts(msg, MarkFrom(msg, start, h.b), h.b, [plain |-> None, html |-> None])}

(* The parts from the mark at pos on; one that is itself in parts is gone  *)
(* through for its best.  Where no mark follows a part, the end of the     *)
(* message is taken for one, and what is behind it read.                   *)
Parts(msg, pos, b, best) ==
  LET body == BodyStart(From(msg, pos + 1)) + pos
      next == IF MarkFrom(msg, body, b) = 0 THEN Len(msg) + 1 ELSE MarkFrom(msg, body, b)
      h == Headers(SubSeq(msg, pos + 1, body - 1))
      found == IF h.ct = "multi" THEN ExtractBestPart(SubSeq(msg, pos + 1, next - 1))
               ELSE {Part(h.ct, SubSeq(msg, body, next - 1))}
  IN
  IF pos > Len(msg) THEN PastTheEnd(best)
  ELSE IF pos = 0 \/ IsEnd(msg[pos], b) \/ BodyStart(From(msg, pos + 1)) = 0 THEN {best}
  ELSE UNION {Parts(msg, next, b, IF part = None THEN best ELSE Store(best, part)) : part \in found}

-----------------------------------------------------------------------------
(* A message as it was meant: texts and, in any depth, messages in parts.  *)
(* Its boundary is the way to the part, which begins those of its parts,   *)
(* or is closed so that none begins another, or is shorter the deeper it   *)
(* is; the mark that ends a message is missing in the depths "open".       *)
RECURSIVE Written(_, _, _, _), Leaves(_)

Manners == {"inwards", "apart", "outwards"}
Boundary(way, manner) ==
  CASE manner = "inwards" -> way [] manner = "apart" -> << way >>
    [] manner = "outwards" -> [i \in 1 .. 9 - Len(way) |-> 0]

Written(m, way, manner, open) ==
  LET b == Boundary(way, manner) IN
  IF m.ct # "multi" \/ m.parts = None THEN << Head1(m.ct, None), Blank, Body(m.id, m.html) >>
  ELSE << Head1("multi", b), Blank >>
       \o FlattenSeq([i \in DOMAIN m.parts |->
                        << Mark(b, FALSE) >> \o Written(m.parts[i], Append(way, i), manner, open)])
       \o IF Len(way) \in open THEN << >> ELSE << Mark(b, TRUE) >>

Leaves(m) ==
  IF m.ct # "multi" \/ m.parts = None THEN << m >>
  ELSE FlattenSeq([i \in DOMAIN m.parts |-> Leaves(m.parts[i])])

IsHtml(leaf) == leaf.ct = "html" \/ leaf.html
IsPlain(leaf) == leaf.ct = "plain" /\ ~leaf.html
Wanted(m) ==
  LET plain == SelectSeq(Leaves(m), IsPlain)
      html  == SelectSeq(Leaves(m), IsHtml)
  IN  IF plain # << >> THEN plain[1].id ELSE IF html # << >> THEN html[1].id ELSE None

Shown(m, manner, open) ==
  {IF p = None THEN None ELSE p.body[1].id : p \in ExtractBestPart(Written(m, << 0 >>, manner, open))}

(* extract_best_part_rec: however the parts are nested, and even if the    *)
(* boundaries begin one another, what is shown is the first plain text of  *)
(* the message and, if there is none, its first HTML; a message with       *)
(* neither has no text.  When the mark at its end is missing, a plain text *)
(* still comes before what is not of the message.                          *)
BestPart(m) ==
  \A manner \in Manners :
    /\ Shown(m, manner, {}) = {Wanted(m)}
    /\ (\E i \in DOMAIN Leaves(m) : IsPlain(Leaves(m)[i])) => Shown(m, manner, {1}) = {Wanted(m)}

-----------------------------------------------------------------------------
(* The characters of a text: a letter, a blank, a newline, and what makes  *)
(* up a URL.                                                               *)
RECURSIVE WrapLine(_), DropBlanks(_), TrimEnd(_), CleanUrls(_), CleanupFrom(_, _, _)

IsBlank(c) == c = " "
DropBlanks(line) == IF line # << >> /\ IsBlank(line[1]) THEN DropBlanks(Tail(line)) ELSE line
TrimEnd(line) == IF line # << >> /\ IsBlank(Last(line)) THEN TrimEnd(Front(line)) ELSE line

(* The last blank within the column, unless the line begins with it.       *)
Cut(line) ==
  LET blanks == {j \in 1 .. Column : IsBlank(line[j])}
  IN  IF blanks = {} \/ Max(blanks) = 1 THEN Column ELSE Max(blanks) - 1

(* wrap_mail_body_for_skom, one line.                                      *)
WrapLine(line) ==
  IF Len(line) <= Column THEN << line >>
  ELSE << SubSeq(line, 1, Cut(line)) >> \o WrapLine(DropBlanks(From(line, Cut(line) + 1)))

Wrap(lines) == FlattenSeq([i \in DOMAIN lines |-> WrapLine(lines[i])])

(* clean_url: parameters that track the reader go, which begin with "t",   *)
(* and the mark of an empty one at the end with them.                      *)
IsTracking(param) == param # << >> /\ param[1] = "t"

Params(query) ==
  LET starts == {i \in DOMAIN query : i = 1 \/ query[i - 1] = "&"}
      end(i) == Min({j \in i .. Len(query) + 1 : j = Len(query) + 1 \/ query[j] = "&"})
      at == SelectSeq([i \in DOMAIN query |-> i], LAMBDA i : i \in starts)
  IN  [k \in DOMAIN at |-> SubSeq(query, at[k], end(at[k]) - 1)]

CleanUrl(url) ==
  LET q    == Lowest({i \in DOMAIN url : url[i] = "?"})
      frag == Lowest({i \in DOMAIN url : url[i] = "#"})
      end  == IF frag = 0 THEN Len(url) + 1 ELSE frag
      kept == SelectSeq(Params(SubSeq(url, q + 1, end - 1)), LAMBDA p : ~IsTracking(p))
  IN  IF q = 0 \/ end < q THEN url
      ELSE SubSeq(url, 1, q - 1)
           \o FlattenSeq([i \in DOMAIN kept |-> << IF i = 1 THEN "?" ELSE "&" >> \o kept[i]])
           \o From(url, end)

(* "h" begins a URL, which ends before a blank; a stop at its end is not   *)
(* of it.                                                                  *)
CleanUrls(line) ==
  LET h    == Lowest({i \in DOMAIN line : line[i] = "h"})
      run  == {i \in h .. Len(line) : \A j \in h .. i : ~IsBlank(line[j])}
      last == Max({i \in run : line[i] # "."})
  IN  IF h = 0 THEN line
      ELSE SubSeq(line, 1, h - 1) \o CleanUrl(SubSeq(line, h, last)) \o CleanUrls(From(line, last + 1))

(* cleanup_text: blanks at both ends of a line go, and so do all but two   *)
(* of empty lines in a row and those at the end of the text.               *)
CleanupFrom(lines, i, run) ==
  IF i > Len(lines) THEN << >>
  ELSE LET line == TrimEnd(DropBlanks(CleanUrls(lines[i]))) IN
       IF line = << >> THEN (IF run < 2 THEN << line >> ELSE << >>) \o CleanupFrom(lines, i + 1, run + 1)
       ELSE << line >> \o CleanupFrom(lines, i + 1, 0)

RECURSIVE WithoutEmptyEnd(_)
WithoutEmptyEnd(lines) ==
  IF Len(lines) > 1 /\ Last(lines) = << >> THEN WithoutEmptyEnd(Front(lines)) ELSE lines

CleanupText(lines) == WithoutEmptyEnd(CleanupFrom(lines, 1, 0))

Letters(lines) == SelectSeq(FlattenSeq(lines), LAMBDA c : ~IsBlank(c))

(* The words of a text: letters with nothing between them.                 *)
Flat(lines) == FlattenSeq([i \in DOMAIN lines |-> Append(lines[i], " ")])
Ends(s) == {i \in 2 .. Len(s) : IsBlank(s[i]) /\ ~IsBlank(s[i - 1])}
Starts(s) == {i \in DOMAIN s : ~IsBlank(s[i]) /\ (i = 1 \/ IsBlank(s[i - 1]))}
WordAt(s, i) == SubSeq(s, i, Min({e \in Ends(s) : e > i}) - 1)
Words(lines) == LET s == Flat(lines) IN {WordAt(s, i) : i \in Starts(s)}

(* What of a line is no parameter that tracks the reader: the letter at i  *)
(* is of a URL that begins at h, when no stop follows up to its end, and   *)
(* in its query after the first "?" and before any "#".                    *)
InUrl(line, h, i) ==
  /\ line[h] = "h" /\ h < i /\ \A j \in h .. i : ~IsBlank(line[j])
  /\ \A g \in 1 .. h - 1 : line[g] = "h" => \E j \in g .. h : IsBlank(line[j])
  /\ \E j \in i .. Len(line) : line[j] # "." /\ \A k \in i .. j : ~IsBlank(line[k])

Tracked(line, i) ==
  \E h, p \in 1 .. i : /\ InUrl(line, h, i) /\ h < p /\ p <= i
                       /\ line[p] = "t" /\ \A j \in p .. i : line[j] # "&"
                       /\ \/ line[p - 1] = "&" /\ \E q \in h .. p - 1 : line[q] = "?"
                          \/ line[p - 1] = "?" /\ \A j \in h .. p - 2 : line[j] # "?"
                       /\ \A j \in h .. i : line[j] # "#"

(* Lines without what the positions S(line) hold, and without the marks    *)
(* that separate parameters.                                               *)
Without(lines, S(_)) ==
  [k \in DOMAIN lines |->
     LET line == lines[k]
         left == SelectSeq([i \in DOMAIN line |-> i],
                           LAMBDA i : i \notin S(line) /\ line[i] \notin {"?", "&"})
     IN  [n \in DOMAIN left |-> line[left[n]]]]

(* cleanup_text and wrap_mail_body_for_skom: every line fits the screen,   *)
(* no letter of the mail is lost or moved, but those of parameters that    *)
(* track the reader, a word that fits a line is not cut and no two are     *)
(* joined, and no three empty lines follow each other.                     *)
TextKept(lines) ==
  LET out  == Wrap(CleanupText(lines))
      text == Without(out, LAMBDA line : {})
      mail == Without(lines, LAMBDA line : {i \in DOMAIN line : Tracked(line, i)})
  IN
  /\ \A i \in DOMAIN out : Len(out[i]) <= Column
  /\ Letters(text) = Letters(mail)
  /\ (\A w \in Words(lines) : Len(w) <= Column) => Words(text) = Words(mail)
  /\ \A i \in 1 .. Len(out) - 2 : ~(out[i] = << >> /\ out[i + 1] = << >> /\ out[i + 2] = << >>)
=============================================================================
