------------------------------- MODULE Parser -------------------------------
(***************************************************************************)
(* The command line: parse finds the command of parse.eng (or parse.swe)   *)
(* that was typed, every word of it abbreviated or not, and what is left   *)
(* as its argument; cmp_strings compares an abbreviated name of a user or  *)
(* a conference with a name.  Words are separated by spaces and dots;      *)
(* words in parentheses are comments.  Lines are sequences of characters   *)
(* of one case; the parentheses in them are balanced and not nested, and   *)
(* the first character belongs to a word.                                  *)
(***************************************************************************)
EXTENDS Integers, Sequences, FiniteSets, SequencesExt, FiniteSetsExt, TLC

CONSTANTS
  ReadText,   \* the command for a number: "Read"
  NoCommand

Separators == {" ", "."}
Digits     == {"0", "1", "2"}

At(s, p)  == IF p <= Len(s) THEN s[p] ELSE "end"
From(s, p) == SubSeq(s, p, Len(s))

(* The first position from p on where c does not stand, or where it does.  *)
RECURSIVE Past(_, _, _), UpTo(_, _, _)
Past(s, p, c) == IF At(s, p) \in c THEN Past(s, p + 1, c) ELSE p
UpTo(s, p, c) == IF At(s, p) \in c \cup {"end"} THEN p ELSE UpTo(s, p + 1, c)

(* Mutant: a comment after a space is a word.                              *)
SkipSpaceOnly(s, p) == Past(s, UpTo(s, p, Separators), Separators)

(* skip_beyond_space and skip_beyond_rpar: to the word after this one, or  *)
(* after this comment.                                                     *)
RECURSIVE SkipSpace(_, _)
AfterPar(s, p)  == IF At(s, p) \in Separators THEN SkipSpace(s, p) ELSE p
SkipPar(s, p)   == IF At(s, p) = "(" THEN AfterPar(s, UpTo(s, p, {")"}) + 1) ELSE p
SkipSpace(s, p) == SkipPar(s, Past(s, UpTo(s, p, Separators), Separators))

(* wc                                                                      *)
More(s, p) == IF At(s, p) = "end" THEN 0 ELSE 1
RECURSIVE CountWords(_, _)
CountNext(s, p) == CountWords(s, p) + More(s, p)
CountWords(s, p) ==
  IF At(s, p) = "end" THEN 1
  ELSE IF At(s, p) \in Separators THEN CountNext(s, Past(s, p, Separators))
  ELSE IF At(s, p) = "(" /\ (p > 1 => s[p - 1] \in Separators)
    THEN CountWords(s, UpTo(s, p, {")"}) + 1) - 1
  ELSE CountWords(s, p + 1)
wc(s) == CountWords(s, 1)

(* Two lines, s from p on and t from q on, and the words seen in t: past   *)
(* the space, past a comment, and as far as they are the same.             *)
Counted(t, at)      == [at EXCEPT !.words = @ + More(t, at.q)]
OverSpace(s, t, at) == Counted(t, [at EXCEPT !.p = SkipSpace(s, @), !.q = SkipSpace(t, @)])
OverPar(s, t, at)   == [at EXCEPT !.p = SkipPar(s, @), !.q = SkipPar(t, @)]
AtSpace(t, at)      == At(t, at.q) \in Separators

RECURSIVE Along(_, _, _)
Along(s, t, at) ==
  IF At(s, at.p) # At(t, at.q) \/ At(t, at.q) = "end" THEN at
  ELSE Along(s, t, IF AtSpace(t, at) THEN OverSpace(s, t, at)
                   ELSE [at EXCEPT !.p = @ + 1, !.q = @ + 1])

(* One word of t ends, and with it that of s.                              *)
WordEnds(s, t, at)  == IF AtSpace(t, at) THEN OverSpace(s, t, at) ELSE at
AfterWord(s, t, at) == WordEnds(s, t, OverPar(s, t, Along(s, t, at)))

(* parse_strings: how many words of t are words of s, and what is left.    *)
Whole(at) == [words |-> at.words + 1, parm |-> << >>]
Rest(t, at) == [words |-> at.words, parm |-> From(t, at.q)]
Left(t, at) == Rest(t, IF AtSpace(t, at) THEN Counted(t, [at EXCEPT !.q = SkipSpace(t, @)]) ELSE at)

RECURSIVE MatchFrom(_, _, _, _)
MatchNext(s, t, wcnt, at) ==
  IF At(t, at.q) = "end" THEN Whole(at)
  ELSE IF At(s, at.p) = "end" \/ at.words = wcnt THEN Left(t, at)
  ELSE MatchFrom(s, t, wcnt, at)
MatchWord(s, t, wcnt, at) ==
  IF At(s, at.p) = "end" THEN IF At(t, at.q) = "end" THEN Whole(at) ELSE Left(t, at)
  ELSE IF At(s, at.p) # At(t, at.q) THEN [words |-> at.words, parm |-> << >>]
  ELSE MatchNext(s, t, wcnt, AfterWord(s, t, at))
MatchFrom(s, t, wcnt, at) == MatchWord(s, t, wcnt, OverPar(s, t, at))
ParseStrings(s, t, wcnt) == MatchFrom(s, t, wcnt, [p |-> 1, q |-> 1, words |-> 0])

(* cmp_strings: t abbreviates s.                                           *)
RECURSIVE CmpFrom(_, _, _)
CmpNext(s, t, at) == At(t, at.q) = "end" \/ (At(s, at.p) # "end" /\ CmpFrom(s, t, at))
CmpWord(s, t, at) == At(s, at.p) = At(t, at.q) /\ CmpNext(s, t, AfterWord(s, t, at))
CmpFrom(s, t, at) == CmpWord(s, t, OverPar(s, t, at))
CmpStrings(s, t)  == CmpFrom(s, t, [p |-> 1, q |-> 1, words |-> 0])

-----------------------------------------------------------------------------
(* parse: a number is a text to read; else the only command all of whose   *)
(* words were typed and nothing more, or the only one, or the one of most  *)
(* words, that is followed by an argument, or the only one of which a part *)
(* was typed.                                                              *)
Typed(line) ==
  IF line[1] \in Digits /\ (\E i \in 1 .. Past(line, 1, Digits) - 1 : line[i] # "0")
  THEN ReadText \o << " " >> \o SubSeq(line, 1, Past(line, 1, Digits) - 1) ELSE line

Run(c, parm) == [cmd |-> c, args |-> parm]
Only(S, args) == IF Cardinality(S) = 1 THEN LET c == CHOOSE c \in S : TRUE IN Run(c, args[c])
                 ELSE Run(NoCommand, << >>)

Hits(table, line, found) ==
  [c \in DOMAIN table |->
     [wanted |-> wc(table[c]), to |-> ParseStrings(table[c], line, found).words]
     @@ ParseStrings(table[c], line, wc(table[c]))]

Choose(table, line, found, hit) ==
  LET whole == {c \in DOMAIN hit : hit[c].words = hit[c].wanted}
      full  == {c \in whole : hit[c].to = found}
      arg   == {c \in whole : hit[c].to < found}
      part  == {c \in DOMAIN hit : 0 < hit[c].words /\ hit[c].words < hit[c].wanted}
      most  == Max({hit[c].words : c \in DOMAIN hit})
      best  == {c \in DOMAIN hit : ParseStrings(table[c], line, most).words = most}
      parm  == [c \in DOMAIN hit |-> hit[c].parm]
      none  == [c \in DOMAIN hit |-> << >>]
  IN  IF full # {} THEN Only(full, none)
      ELSE IF arg # {} THEN Only(IF Cardinality(arg) = 1 THEN arg ELSE best, parm)
      ELSE Only(part, none)

ParseLine(table, line) == Choose(table, line, wc(line), Hits(table, line, wc(line)))
Parse(table, typed) == ParseLine(table, Typed(typed))

-----------------------------------------------------------------------------
(* What the words say: a word abbreviates another when it begins it.       *)
Starts(s) == {i \in DOMAIN s : s[i] \notin Separators /\ (i > 1 => s[i - 1] \in Separators)}
Split(s) ==
  LET words == [k \in 1 .. Cardinality(Starts(s)) |->
                  LET i == SetToSortSeq(Starts(s), <)[k] IN SubSeq(s, i, UpTo(s, i, Separators) - 1)]
  IN  SelectSeq(words, LAMBDA w : w[1] # "(")

Agreeing(w, c) == Max({n \in 0 .. Len(w) : n <= Len(c) /\ \A i \in 1 .. n : IsPrefix(w[i], c[i])})
Abbreviates(w, c) == Agreeing(w, c) = Len(w)

(* The commands of which as many words as possible were typed: those all   *)
(* of whose words were go before the others, those with nothing more first.*)
Meant(w, words) ==
  LET seen  == [c \in DOMAIN words |-> Agreeing(w, words[c])]
      named == {c \in DOMAIN words : seen[c] = Len(words[c])}
      exact == {c \in named : seen[c] = Len(w)}
      begun == {c \in DOMAIN words : seen[c] > 0}
      most  == {c \in begun : \A d \in begun : seen[d] <= seen[c]}
  IN  IF exact # {} THEN exact ELSE IF Cardinality(named) = 1 THEN named
      ELSE IF named # {} THEN most ELSE begun

Right(r, w, words, meant) ==
  /\ r.cmd # NoCommand <=> Cardinality(meant) = 1
  /\ r.cmd # NoCommand =>
       /\ meant = {r.cmd}
       /\ LET n == Len(words[r.cmd]) IN
          Split(r.args) = IF Agreeing(w, words[r.cmd]) = n THEN SubSeq(w, n + 1, Len(w)) ELSE << >>

(* parse, parse_strings, wc: the command that runs is the only one that    *)
(* can be meant, and is given all words that were typed after it.          *)
FoundAs(table, line, w, words) == Right(ParseLine(table, line), w, words, Meant(w, words))
CommandFound(table, typed) ==
  FoundAs(table, Typed(typed), Split(Typed(typed)), [c \in DOMAIN table |-> Split(table[c])])

(* cmp_strings: exactly the abbreviations of a name are taken for it.      *)
NameFound(names, typed) ==
  \A n \in names : CmpStrings(n, typed) = (Split(typed) # << >> /\ Abbreviates(Split(typed), Split(n)))
=============================================================================
