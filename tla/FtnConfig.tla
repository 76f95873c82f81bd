----------------------------- MODULE FtnConfig -----------------------------
(***************************************************************************)
(* Where an FTN message comes from and goes to: the configuration file of  *)
(* CrashMail, the ftnconf file of a conference, and the areas that ftntoss *)
(* and the sessions choose with them.                                      *)
(*                                                                         *)
(* A line of the file is a record: its keyword kw and its words.  A word   *)
(* that the code refuses is Bad, and one that is missing None; "bad" is a  *)
(* line that cannot be split into words.                                   *)
(***************************************************************************)
EXTENDS Integers, SequencesExt, FiniteSetsExt

CONSTANTS None, Bad

Found(S) == IF Cardinality(S) = 1 THEN CHOOSE x \in S : TRUE ELSE None

(* The lines are read in order; an AKA and an area each end the other.     *)
Start == [akas |-> <<>>, areas |-> <<>>, in |-> "file", ok |-> TRUE]

Areas == {"AREA", "NETMAIL", "LOCALAREA"}

LastOf(f, line) ==
  IF line.kw = "DOMAIN"
  THEN [f EXCEPT !.akas[Len(f.akas)].dom = line.dom, !.ok = f.ok /\ line.dom # None]
  ELSE [f EXCEPT !.areas[Len(f.areas)].links = @ \o line.links,
                 !.ok = f.ok /\ \A i \in DOMAIN line.links : line.links[i].addr # Bad]

ReadLine(f, line) ==
  CASE ~f.ok -> f
    [] line.kw = "AKA" ->
         [f EXCEPT !.akas = Append(@, [addr |-> line.addr, dom |-> None]), !.in = "aka",
                   !.ok = line.addr # Bad]
    [] line.kw \in Areas ->
         [f EXCEPT !.areas = Append(@, [kw |-> line.kw, tag |-> line.tag, addr |-> line.addr,
                                        base |-> line.base, path |-> line.path, links |-> <<>>,
                                        dom |-> None]),
                   !.in = line.kw, !.ok = line.addr # Bad]
    [] line.kw = "DOMAIN" /\ f.in = "aka" -> LastOf(f, line)
    [] line.kw = "EXPORT" /\ f.in = "AREA" -> LastOf(f, line)
    [] line.kw \in {"DOMAIN", "EXPORT", "bad"} -> [f EXCEPT !.ok = FALSE]
    [] OTHER -> f

(* Every area gets the domain of its address: of the first AKA that has it.*)
DomainOf(akas, addr) ==
  LET at == { i \in DOMAIN akas : akas[i].addr = addr }
  IN  IF at = {} THEN None ELSE akas[Min(at)].dom

Load(lines) ==
  LET f == FoldLeft(ReadLine, Start, lines)
      areas == [i \in DOMAIN f.areas |->
                  [f.areas[i] EXCEPT !.dom = DomainOf(f.akas, f.areas[i].addr)]]
  IN  IF f.ok /\ \A i \in DOMAIN areas : areas[i].dom # None
      THEN [ok |-> TRUE, areas |-> areas] ELSE [ok |-> FALSE, areas |-> <<>>]

(* An area number, or None when it is not exactly one or cannot be used.   *)
Usable(areas, i) ==
  IF i # None /\ areas[i].base = "MSG" /\ areas[i].path # None THEN i ELSE None

-----------------------------------------------------------------------------
(* Conferences: [num, name, ftn, conf], conf being None or the [dom, tag]  *)
(* of a correct ftnconf file, or Bad.                                      *)

(* A conference by its name, else by its echo tag if only one has it.      *)
FindConf(confs, name) ==
  LET named  == { i \in DOMAIN confs : confs[i].name = name }
      ftn    == { i \in DOMAIN confs : confs[i].ftn }
      tagged == { i \in ftn : confs[i].conf \notin {None, Bad} /\ confs[i].conf.tag = name }
  IN  IF named # {} THEN Min(named)
      ELSE IF \E i \in ftn : confs[i].conf = Bad THEN None
      ELSE Found(tagged)

FindConfNum(confs, num) ==
  LET at == { i \in DOMAIN confs : confs[i].num = num }
  IN  IF at = {} THEN None ELSE Min(at)

EchoAreaByTag(areas, conf, name) ==
  LET tag == IF conf.conf = None THEN name ELSE conf.conf.tag
      fit == { i \in DOMAIN areas : areas[i].kw = "AREA" /\ areas[i].tag = tag }
  IN  IF conf.conf = Bad \/ fit = {} THEN None ELSE Usable(areas, Min(fit))

(* The area of a conference: the one that its ftnconf names, else the one  *)
(* that is called like the name that was asked for.                        *)
EchoArea(areas, conf, name) ==
  LET tag == IF conf.conf = None THEN name ELSE conf.conf.tag
      fit == { i \in DOMAIN areas :
                 /\ areas[i].kw = "AREA" /\ areas[i].tag = tag
                 /\ conf.conf = None \/ areas[i].dom = conf.conf.dom }
  IN  IF conf.conf = Bad THEN None ELSE Usable(areas, Found(fit))

(* The link that messages are exported to: the one with a "%", else the    *)
(* only one.                                                               *)
Feed(area) ==
  LET marked == { i \in DOMAIN area.links : area.links[i].mod = "%" }
  IN  IF marked # {} THEN Found(marked) ELSE Found(DOMAIN area.links)

(* The area that messages can be exported from.                            *)
WithFeed(areas, i) == IF i = None \/ Feed(areas[i]) = None THEN None ELSE i

(* The area of a tag and a domain, for what belongs to no conference.      *)
EchoAreaByIdentity(areas, dom, tag) ==
  WithFeed(areas, Usable(areas, Found({ i \in DOMAIN areas :
    areas[i].kw = "AREA" /\ areas[i].tag = tag /\ areas[i].dom = dom })))

(* What the configuration dump shows as the feed: the first with a "%".    *)
PrimaryFeed(area) ==
  LET marked == { i \in DOMAIN area.links : area.links[i].mod = "%" }
  IN  IF marked # {} THEN Min(marked) ELSE Found(DOMAIN area.links)

(* --import-all with a name, --import-all-areas, and the export of a text, *)
(* which goes by the number of the conference.                             *)
ImportArea(areas, confs, name) ==
  LET i == FindConf(confs, name)
  IN  IF i = None \/ ~confs[i].ftn THEN None ELSE EchoArea(areas, confs[i], name)

AllAreas(areas, confs) ==
  { << i, ImportArea(areas, confs, confs[i].name) >> : i \in { j \in DOMAIN confs : confs[j].ftn } }

ExportArea(areas, confs, num) ==
  LET i == FindConfNum(confs, num)
  IN  IF i = None \/ ~confs[i].ftn THEN None
      ELSE WithFeed(areas, EchoArea(areas, confs[i], confs[i].name))

-----------------------------------------------------------------------------
(* Netmail.                                                                *)

Netmail(areas) == { i \in DOMAIN areas : areas[i].kw = "NETMAIL" }

(* The area that a message to a zone, or to a domain, leaves through.      *)
NetmailArea(areas, zone, dom) ==
  LET fit == { i \in Netmail(areas) :
                 IF dom # None THEN areas[i].dom = dom ELSE areas[i].addr.zone = zone }
      one == IF dom = None /\ fit = {} THEN Found(Netmail(areas)) ELSE Found(fit)
  IN  Usable(areas, one)

(* Whether the session asks for a domain.                                  *)
NeedsDomain(areas, zone) ==
  Cardinality({ i \in Netmail(areas) : areas[i].addr.zone = zone }) > 1

(* The areas whose spool --import-netmail reads: an area that shares its   *)
(* path with an earlier one is an alias, or in error.                      *)
SamePath(areas, i) ==
  { j \in Netmail(areas) : j < i /\ areas[i].path # None /\ areas[j].path = areas[i].path }

NetmailSpoolsAll(areas) == { i \in Netmail(areas) : Usable(areas, i) # None }

NetmailSpools(areas) ==
  { i \in Netmail(areas) : SamePath(areas, i) = {} /\ Usable(areas, i) # None }

Alias(areas, i) ==
  LET j == Min(SamePath(areas, i)) IN areas[i].dom = areas[j].dom /\ areas[i].addr = areas[j].addr

NetmailFailures(areas) ==
  { i \in Netmail(areas) \ NetmailSpools(areas) : SamePath(areas, i) # {} => ~Alias(areas, i) }

-----------------------------------------------------------------------------
(* The commands agree with each other about every configuration that is    *)
(* accepted (find_ftn_conf and load_echomail_area for an import, the same  *)
(* by number for an export, load_echomail_area_by_identity, the dump, and  *)
(* the netmail areas):                                                     *)
EchoRoutesAgree(areas, confs) ==
  \* the area that a conference's ftnconf names is the one that its texts are
  \* exported to, by the rules for what belongs to no conference, and messages
  \* are read from no other, and from it when it has no feed, too;
  /\ \A c \in DOMAIN confs : confs[c].ftn /\ confs[c].conf \notin {None, Bad} =>
       LET to   == ExportArea(areas, confs, confs[c].num)
           from == ImportArea(areas, confs, confs[c].name)
       IN  /\ to = EchoAreaByIdentity(areas, confs[c].conf.dom, confs[c].conf.tag)
           /\ from # None => /\ areas[from].tag = confs[c].conf.tag
                            /\ areas[from].dom = confs[c].conf.dom
                            /\ to = WithFeed(areas, from)
  \* without an ftnconf texts go nowhere else than where messages come from;
  /\ \A c \in DOMAIN confs :
       ExportArea(areas, confs, confs[c].num) \in {None, ImportArea(areas, confs, confs[c].name)}
  \* a message never leaves by a feed that the dump does not show.
  /\ \A i \in DOMAIN areas : Feed(areas[i]) \in {None, PrimaryFeed(areas[i])}

NetmailRoutesAgree(areas) ==
  \* no spool is read twice, and one is left out only with an error or for an
  \* area of the same context;
  /\ \A i, j \in NetmailSpools(areas) : areas[i].path = areas[j].path => i = j
  /\ \A i \in Netmail(areas) :
       \/ i \in NetmailSpools(areas) \cup NetmailFailures(areas)
       \/ \E j \in Netmail(areas) : /\ j < i /\ areas[j].path = areas[i].path
                                    /\ areas[j].dom = areas[i].dom
  \* a reply leaves through the context its message came in by, or not at all;
  /\ \A i \in NetmailSpools(areas) :
       LET a == NetmailArea(areas, areas[i].addr.zone, areas[i].dom)
       IN  a # None => areas[a].dom = areas[i].dom /\ areas[a].path = areas[i].path
  \* without being asked for a domain, nobody's mail takes one of several ways.
  /\ \A z \in { areas[i].addr.zone : i \in Netmail(areas) } :
       NeedsDomain(areas, z) => NetmailArea(areas, z, None) = None

RoutesAgree(lines, confs) ==
  LET f == Load(lines)
  IN  EchoRoutesAgree(f.areas, confs) /\ NetmailRoutesAgree(f.areas)
=============================================================================
