------------------------------- MODULE FtnConf -------------------------------
(***************************************************************************)
(* The file ftnconf of a conference, which says what echomail area it is.  *)
(* SklaffKOM writes it and reads it, and ftntoss reads it with a reader of *)
(* its own.                                                                *)
(*                                                                         *)
(* A line is [kind, text]: the header of a section, with its name; a value;*)
(* or "blank", which a comment is too.                                     *)
(***************************************************************************)
EXTENDS Integers, SequencesExt

CONSTANTS
  Bad,         \* what cannot be read
  Broken,      \* the name in a header that is not one
  AsLine(_)    \* what a reader takes a line for that has this value in it

Fields == {"version", "type", "domain", "tag"}

Header(s) == [kind |-> "header", text |-> s]
Value(s)  == [kind |-> "value", text |-> s]

(* The lines are read in order; a value ends its section.                  *)
Start == [section |-> "", conf |-> << >>, ok |-> TRUE]

InSection(f, line) ==
  IF f.section \in Fields \ DOMAIN f.conf
  THEN [f EXCEPT !.section = "", !.conf = @ @@ (f.section :> line.text)]
  ELSE [f EXCEPT !.ok = FALSE]

Named(line) == line.text \notin {Broken, ""}

SessionReads(f, line) ==
  CASE line.kind = "header" -> [f EXCEPT !.section = line.text, !.ok = @ /\ line.text # Broken]
    [] line.kind = "value"  -> InSection(f, line)
    [] OTHER -> f

TossReads(f, line) ==
  CASE line.kind = "header" -> [f EXCEPT !.section = line.text, !.ok = @ /\ Named(line)]
    [] line.kind = "value"  -> InSection(f, line)
    [] OTHER -> f

(* At the end all four values must be there.                               *)
Ended(f) ==
  IF f.ok /\ DOMAIN f.conf = Fields /\ f.conf.version = "1" /\ f.conf.type = "echomail"
  THEN f.conf ELSE Bad

conf_load_ftnconf(file)    == Ended(FoldLeft(SessionReads, Start, file))
load_meeting_ftnconf(file) == Ended(FoldLeft(TossReads, Start, file))

(* conf_write_ftnconf.                                                     *)
conf_write_ftnconf(conf) ==
  << Header("version"), AsLine(conf.version), Header("type"), AsLine(conf.type),
     Header("domain"), AsLine(conf.domain), Header("tag"), AsLine(conf.tag) >>

-----------------------------------------------------------------------------
(* What a file says: each field has one value, the one after its header,   *)
(* and every value is of a field.                                          *)
NotBlank(line) == line.kind # "blank"
SectionOf(lines, i) ==
  IF i > 1 /\ lines[i - 1].kind = "header" THEN lines[i - 1].text ELSE ""
ValuesOf(lines, f) == {i \in DOMAIN lines : lines[i].kind = "value" /\ SectionOf(lines, i) = f}

Says(lines, conf) ==
  /\ Header(Broken) \notin ToSet(lines)
  /\ \A i \in DOMAIN lines : lines[i].kind = "value" => SectionOf(lines, i) \in Fields
  /\ \A f \in Fields : \E i \in ValuesOf(lines, f) : /\ ValuesOf(lines, f) = {i}
                                                     /\ lines[i].text = conf[f]

Good(dom, tag) == [version |-> "1", type |-> "echomail", domain |-> dom, tag |-> tag]

(* Both readers take from any file what it says, but for a header without  *)
(* a name, which ftntoss refuses;                                          *)
ReadersAgree(file, words) ==
  LET lines == SelectSeq(file, NotBlank)
      heard == \A f \in Fields : ValuesOf(lines, f) # {}
      said  == IF heard THEN {c \in {Good(d, t) : d, t \in words} : Says(lines, c)} ELSE {}
      conf  == conf_load_ftnconf(file)
  IN  /\ IF said = {} THEN conf = Bad ELSE said = {conf}
      /\ load_meeting_ftnconf(file) = IF Header("") \in ToSet(lines) THEN Bad ELSE conf

(* and from the file that SklaffKOM writes what its user gave, unless a    *)
(* value looks like a comment or a header: then neither reads it again.    *)
ReadAsWritten(conf) ==
  LET file  == conf_write_ftnconf(conf)
      plain == \A f \in Fields : AsLine(conf[f]) = Value(conf[f])
  IN  /\ load_meeting_ftnconf(file) = conf_load_ftnconf(file)
      /\ conf_load_ftnconf(file) = IF plain THEN conf ELSE Bad
=============================================================================
