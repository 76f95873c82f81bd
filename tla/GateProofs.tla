----------------------------- MODULE GateProofs -----------------------------
(***************************************************************************)
(* For any number of ftntosses and runners, any spool and any messages that*)
(* arrive, and however often something is killed or fails: one process at  *)
(* a time is past the lock, a message comes in once and comments the text  *)
(* that it names, a job is removed only when its message is in the spool,  *)
(* and an old lock is reported once.                                       *)
(***************************************************************************)
EXTENDS FtnGate, FiniteSetTheorems, SequenceTheorems, NaturalsInduction, TLAPS

(* What is past the lock, and where each program can be.                   *)
Holding   == {"scan", "index", "loop", "write", "link", "free", "path", "put"}
Importing == {"index", "loop", "write", "link"}
TossAt    == {"idle", "lock", "warn", "mail", "scan", "index", "loop", "write", "link", "free"}
RunAt     == {"idle", "lock", "warn", "mail", "next", "path", "put", "rm", "free"}

Fields == DOMAIN Idle
Ref    == [id : Ids, num : Nat \ {0}]
Text   == [id : Ids, reply : Ids, local : BOOLEAN, com : Nat]

Files ==
  /\ IsFiniteSet(spool) /\ spool \subseteq Msgs
  /\ \A m, k \in spool : m.file = k.file => m = k

Texts ==
  /\ last \in Nat \ {0} /\ DOMAIN texts \subseteq 1 .. last /\ deleted \subseteq DOMAIN texts
  /\ \A n \in DOMAIN texts : texts[n] \in Text
  /\ links \subseteq (1 .. last) \X (1 .. last)
  /\ saved \subseteq DOMAIN texts /\ queue \subseteq DOMAIN texts /\ exported \subseteq DOMAIN texts

States ==
  /\ lock \in [held : BOOLEAN, by : Procs \cup {None}, old : BOOLEAN]
  /\ DOMAIN st = Procs
  /\ \A p \in Procs : DOMAIN st[p] = Fields
  /\ \A p \in Tossers : st[p].pc \in TossAt
  /\ \A p \in Runners : st[p].pc \in RunAt

Owner ==
  /\ lock.held \/ (lock.by = None /\ ~lock.old)
  /\ \A p \in Procs : lock.by = p <=> st[p].pc \in Holding

-----------------------------------------------------------------------------
(* Warnings: whoever is about to mail one has made the marker himself,     *)
(* unless the lock that he found has gone.                                 *)
Mailing == { p \in Procs : At(p, "mail") /\ ~st[p].late }

Warned ==
  /\ marker \in BOOLEAN /\ mails \in Nat /\ failed \in Nat
  /\ \A p \in Procs : st[p].late \in BOOLEAN
  /\ mails + Cardinality(Mailing) <= (IF marker THEN 1 ELSE 0) + failed

-----------------------------------------------------------------------------
(* Exports.                                                                *)
Kept(n) ==
  \E m \in spool :
    /\ m.id = Own(n) /\ ~m.bad
    /\ \A r \in Runners : At(r, "put") => st[r].file # m.file

(* A job is that of a text; it is done only when there is nothing left to  *)
(* do under the lock.                                                      *)
Jobs ==
  \A r \in Runners :
    /\ st[r].pc \in {"lock", "warn", "mail", "path", "put", "free", "rm"} => st[r].at \in DOMAIN texts
    /\ At(r, "put") => st[r].file \in Nat \ {0} /\ st[r].reply \in Ids
    /\ st[r].done \in BOOLEAN
    /\ st[r].pc \in {"lock", "warn", "mail", "path", "put"} => st[r].done = FALSE

Exports ==
  /\ \A n \in exported : Kept(n)
  /\ \A r \in Runners :
       At(r, "rm") \/ (At(r, "free") /\ st[r].done) => Kept(st[r].at)

-----------------------------------------------------------------------------
(* Imports.                                                                *)
RefsOf(p) ==
  st[p].pc \in Importing =>
    /\ st[p].refs \in Seq(Ref)
    /\ \A i \in DOMAIN st[p].refs :
         /\ st[p].refs[i].num \in DOMAIN texts
         /\ TextId(texts[st[p].refs[i].num], st[p].refs[i].num) = st[p].refs[i].id
    /\ st[p].at \in 1 .. last

ChosenOf(p) ==
  /\ st[p].pc \in {"loop", "write", "link"} => st[p].items \in Seq(Msgs)
  /\ st[p].pos \in Nat \ {0}
  /\ st[p].pc \in {"write", "link"} =>
       /\ st[p].pos \in DOMAIN st[p].items
       /\ Importable(Item(p), st[p].refs, Unsafe(p))
       /\ st[p].num \in 1 .. last /\ st[p].at < st[p].num
       /\ \A i \in DOMAIN st[p].refs : st[p].refs[i].num < st[p].num
  /\ st[p].pc = "write" => st[p].num \notin DOMAIN texts
  /\ st[p].pc = "link" =>
       /\ st[p].num \in DOMAIN texts
       /\ texts[st[p].num] = [id |-> Item(p).id, reply |-> Item(p).reply, local |-> FALSE,
                              com |-> Parent(p)]

Imports == \A p \in Tossers : RefsOf(p) /\ ChosenOf(p)

Parents ==
  \A n \in DOMAIN texts :
    /\ texts[n].com < n
    /\ texts[n].com # 0 => texts[n].com \in DOMAIN texts
    /\ texts[n].local => texts[n].id = NoId
    /\ ~texts[n].local /\ texts[n].com # 0 =>
         TextId(texts[texts[n].com], texts[n].com) = texts[n].reply

NotLinked == { n \in Unlinked : \A p \in Tossers : ~(At(p, "link") /\ st[p].num = n) }
Linked == stops \in Nat /\ Cardinality(NotLinked) <= stops

-----------------------------------------------------------------------------
(* Messages that come in once: those made here name a text that was there  *)
(* when the import read CONF_FILE, and every other text is on its list.    *)
Nums == 0 .. Serials - 1

OwnOf(p) ==
  \A k \in Nums :
    /\ At(p, "index") => \A m \in spool : m.id = Own(k) => k <= st[p].at
    /\ st[p].pc \in {"loop", "write", "link"} =>
         \A i \in DOMAIN st[p].items : st[p].items[i].id = Own(k) => k <= st[p].at

OwnIds ==
  /\ \A n \in DOMAIN texts : \A k \in Nums : texts[n].id = Own(k) => k <= last
  /\ \A m \in spool : \A k \in Nums : m.id = Own(k) => k <= last
  /\ \A p \in Tossers : OwnOf(p)

CoveredOf(p) ==
  st[p].pc \in Importing =>
    \A n \in Existing :
      /\ TextId(texts[n], n) # NoId
      /\ n <= st[p].at \/ ~texts[n].local
      /\ ~(At(p, "link") /\ n = st[p].num)
      => \E i \in DOMAIN st[p].refs : st[p].refs[i].id = TextId(texts[n], n)

Covered == \A p \in Tossers : CoveredOf(p)

-----------------------------------------------------------------------------
(* Natural numbers.                                                        *)
LEMMA Least ==
  ASSUME NEW T, T \subseteq Nat, T # {}
  PROVE  \E m \in T : \A k \in T : m <= k
<1> DEFINE R == {ss \in Nat \X Nat : ss[1] < ss[2]}
<1>1. IsWellFoundedOn(R, Nat)
  BY NatLessThanWellFounded DEF OpToRel
<1>2. \A a, b \in Nat : a < b => << a, b >> \in R
  OBVIOUS
<1> HIDE DEF R
<1>3. PICK x \in T : \A y \in T : ~ (<< y, x >> \in R)
  BY <1>1, WFMin
<1>4. ASSUME NEW y \in T PROVE x <= y
  <2>1. x \in Nat /\ y \in Nat /\ ~ (y < x)
    BY <1>2, <1>3
  <2> QED BY <2>1
<1> QED BY <1>4

LEMMA AllNumbers ==
  ASSUME NEW T, 0 \in T, \A n \in Nat : n \in T => n + 1 \in T
  PROVE  Nat \subseteq T
<1> SUFFICES ASSUME Nat \ T # {} PROVE FALSE
  OBVIOUS
<1>1. PICK m \in Nat \ T : \A k \in Nat \ T : m <= k
  BY Least
<1>2. m # 0 /\ m - 1 \in Nat /\ ~ (m <= m - 1)
  OBVIOUS
<1>3. m - 1 \in T
  BY <1>1, <1>2
<1>4. (m - 1) + 1 \in T
  BY <1>2, <1>3
<1> QED BY <1>1, <1>4

LEMMA MinOf ==
  ASSUME NEW T, T \subseteq Nat, T # {}
  PROVE  Min(T) \in T /\ \A k \in T : Min(T) <= k
BY Least DEF Min

LEMMA MaxOf ==
  ASSUME NEW T, T \subseteq Nat, T # {}, NEW b \in Nat, \A k \in T : k <= b
  PROVE  Max(T) \in T /\ \A k \in T : k <= Max(T)
<1> DEFINE U == { c \in Nat : \A k \in T : k <= c }
<1>1. PICK c \in U : \A d \in U : c <= d
  <2>1. U \subseteq Nat /\ b \in U
    OBVIOUS
  <2> HIDE DEF U
  <2> QED BY <2>1, Least
<1>2. c \in T
  <2> SUFFICES ASSUME c \notin T PROVE FALSE
    OBVIOUS
  <2>1. PICK k \in T : TRUE
    OBVIOUS
  <2>2. c # 0 /\ c - 1 \in Nat
    BY <2>1, <1>1
  <2>3. \A j \in T : j <= c - 1
    BY <1>1
  <2>4. c <= c - 1
    BY <1>1, <2>2, <2>3
  <2> QED BY <2>4, <1>1
<1>3. \E x \in T : \A y \in T : x >= y
  BY <1>1, <1>2
<1> QED BY <1>3 DEF Max

(* The last of some files in the spool.                                    *)
LEMMA LastFile ==
  ASSUME NEW s, IsFiniteSet(s), s \subseteq Msgs, s # {}
  PROVE  \E m \in s : \A k \in s : k.file <= m.file
<1> DEFINE T == { n \in Nat : \A u \in SUBSET Msgs :
                    IsFiniteSet(u) /\ u # {} /\ Cardinality(u) = n =>
                      \E m \in u : \A k \in u : k.file <= m.file }
<1>1. 0 \in T
  BY FS_EmptySet
<1>2. ASSUME NEW n \in Nat, n \in T PROVE n + 1 \in T
  <2> SUFFICES ASSUME NEW u \in SUBSET Msgs, IsFiniteSet(u), u # {}, Cardinality(u) = n + 1
               PROVE  \E m \in u : \A k \in u : k.file <= m.file
    OBVIOUS
  <2>1. PICK x \in u : TRUE
    OBVIOUS
  <2>2. IsFiniteSet(u \ {x}) /\ Cardinality(u \ {x}) = n
    <3>1. IsFiniteSet(u \ {x}) /\ Cardinality(u \ {x}) = Cardinality(u) - 1
      BY <2>1, FS_RemoveElement
    <3> QED BY <3>1
  <2>3. x.file \in Nat /\ \A k \in u : k.file \in Nat
    BY DEF Msgs
  <2>4. CASE u \ {x} = {}
    BY <2>3, <2>4
  <2>5. CASE u \ {x} # {}
    <3>1. u \ {x} \in SUBSET Msgs
      OBVIOUS
    <3>2. PICK m \in u \ {x} : \A k \in u \ {x} : k.file <= m.file
      BY <1>2, <2>2, <2>5, <3>1
    <3>3. CASE x.file <= m.file
      BY <3>2, <3>3
    <3>4. CASE ~ (x.file <= m.file)
      <4>1. \A k \in u : k.file <= x.file
        BY <3>2, <3>4, <2>3
      <4> QED BY <4>1
    <3> QED BY <3>3, <3>4
  <2> QED BY <2>4, <2>5
<1>3. Cardinality(s) \in T
  <2> HIDE DEF T
  <2> QED BY <1>1, <1>2, AllNumbers, FS_CardinalityType
<1> QED BY <1>3

(* next_msg_path takes a number above all files.                           *)
LEMMA MaxFileIs ==
  ASSUME Files
  PROVE  MaxFile \in Nat \ {0} /\ \A m \in spool : m.file <= MaxFile
<1> DEFINE T == {1} \cup { m.file : m \in spool }
<1>1. T \subseteq Nat /\ T # {}
  BY DEF Files, Msgs
<1>2. \E b \in Nat : \A k \in T : k <= b
  <2>1. CASE spool = {}
    BY <2>1
  <2>2. CASE spool # {}
    <3>1. PICK m \in spool : \A k \in spool : k.file <= m.file
      BY <2>2, LastFile DEF Files
    <3>2. m.file \in Nat \ {0} /\ \A k \in T : k <= m.file
      BY <3>1 DEF Files, Msgs
    <3> QED BY <3>2
  <2> QED BY <2>1, <2>2
<1>3. Max(T) \in T /\ \A k \in T : k <= Max(T)
  <2> HIDE DEF T
  <2> QED BY <1>1, <1>2, MaxOf
<1>4. MaxFile = Max(T) /\ 1 \in T /\ \A m \in spool : m.file \in T
  BY DEF MaxFile
<1> HIDE DEF T
<1>5. MaxFile \in Nat /\ 1 <= MaxFile
  BY <1>1, <1>3, <1>4
<1> QED BY <1>3, <1>4, <1>5

-----------------------------------------------------------------------------
(* What scan_existing_skl_msgids has found: texts that are there, with     *)
(* their MSGIDs, and every text that has one.                              *)
Scanned(list, tt, n) ==
  /\ list \in Seq(Ref)
  /\ \A i \in DOMAIN list : /\ list[i].num \in DOMAIN tt
                            /\ TextId(tt[list[i].num], list[i].num) = list[i].id
  /\ \A k \in DOMAIN tt \cap 1 .. n : TextId(tt[k], k) # NoId =>
       \E i \in DOMAIN list : list[i].id = TextId(tt[k], k)

LEMMA TextIdType ==
  ASSUME NEW t \in Text, NEW n \in Nat
  PROVE  TextId(t, n) \in Ids
<1>1. t.id \in Ids
  BY DEF Text
<1>3. Own(n) \in Ids
  BY SerialsAssumption DEF Ids, Own
<1>4. NoId \in Ids
  BY DEF Ids, NoId
<1> QED BY <1>1, <1>3, <1>4 DEF TextId

(* One more text.                                                          *)
LEMMA ScannedOn ==
  ASSUME NEW tt, NEW n \in Nat, NEW list, Scanned(list, tt, n),
         \A k \in DOMAIN tt : tt[k] \in Text
  PROVE  Scanned(IF n + 1 \in DOMAIN tt /\ TextId(tt[n + 1], n + 1) # NoId
                 THEN << [id |-> TextId(tt[n + 1], n + 1), num |-> n + 1] >> \o list
                 ELSE list, tt, n + 1)
<1>1. CASE n + 1 \in DOMAIN tt /\ TextId(tt[n + 1], n + 1) # NoId
  <2> DEFINE r == [id |-> TextId(tt[n + 1], n + 1), num |-> n + 1]
             new == << r >> \o list
  <2>1. r \in Ref /\ r.id = TextId(tt[n + 1], n + 1) /\ r.num = n + 1
    BY <1>1, TextIdType DEF Ref
  <2> HIDE DEF r
  <2>2. list \in Seq(Ref) /\ Len(list) \in Nat /\ DOMAIN list = 1 .. Len(list)
    BY DEF Scanned
  <2>3. /\ new \in Seq(Ref) /\ Len(new) = Len(list) + 1
        /\ new[1] = r /\ \A i \in 1 .. Len(list) : new[i + 1] = list[i]
    BY <2>1, <2>2
  <2> HIDE DEF new
  <2>4. ASSUME NEW i \in DOMAIN new
        PROVE  new[i].num \in DOMAIN tt /\ TextId(tt[new[i].num], new[i].num) = new[i].id
    <3>0. i \in 1 .. Len(list) + 1
      BY <2>3
    <3>1. CASE i = 1
      BY <3>1, <2>1, <2>3, <1>1
    <3>2. CASE i # 1
      <4>1. i - 1 \in 1 .. Len(list) /\ (i - 1) + 1 = i
        BY <3>0, <3>2, <2>2
      <4>2. new[i] = list[i - 1]
        BY <4>1, <2>3
      <4> QED BY <4>1, <4>2, <2>2 DEF Scanned
    <3> QED BY <3>1, <3>2
  <2>5. ASSUME NEW k \in DOMAIN tt \cap 1 .. n + 1, TextId(tt[k], k) # NoId
        PROVE  \E i \in DOMAIN new : new[i].id = TextId(tt[k], k)
    <3>0. DOMAIN new = 1 .. Len(list) + 1
      BY <2>3
    <3>1. CASE k = n + 1
      BY <3>0, <3>1, <2>1, <2>2, <2>3
    <3>2. CASE k # n + 1
      <4>1. k \in DOMAIN tt \cap 1 .. n
        BY <3>2
      <4>2. PICK i \in DOMAIN list : list[i].id = TextId(tt[k], k)
        BY <4>1, <2>5 DEF Scanned
      <4>3. i + 1 \in DOMAIN new /\ new[i + 1] = list[i]
        BY <3>0, <2>2, <2>3
      <4> QED BY <4>2, <4>3
    <3> QED BY <3>1, <3>2
  <2>6. Scanned(new, tt, n + 1)
    BY <2>3, <2>4, <2>5 DEF Scanned
  <2> QED BY <1>1, <2>6 DEF new, r
<1>2. CASE ~ (n + 1 \in DOMAIN tt /\ TextId(tt[n + 1], n + 1) # NoId)
  <2>1. \A k \in DOMAIN tt \cap 1 .. n + 1 : TextId(tt[k], k) # NoId => k \in 1 .. n
    BY <1>2
  <2>2. Scanned(list, tt, n + 1)
    BY <2>1 DEF Scanned
  <2> QED BY <1>2, <2>2
<1> QED BY <1>1, <1>2

LEMMA LastOf ==
  ASSUME NEW k \in Nat, NEW s \in SUBSET (1 .. k), s # {}
  PROVE  /\ Max(s) \in s /\ \A x \in s : x <= Max(s)
         /\ s \ {Max(s)} \in SUBSET (1 .. k)
<1>1. s \subseteq Nat /\ \A x \in s : x <= k
  OBVIOUS
<1> QED BY <1>1, MaxOf

(* The loop from 1 to n, as the fold says it.                              *)
LEMMA ScanIs ==
  ASSUME NEW tt, NEW n \in Nat, \A k \in DOMAIN tt : tt[k] \in Text
  PROVE  Scanned(ScanExisting(tt, n), tt, n)
<1> DEFINE seq == [k \in 1 .. n |-> k]
           Add(list, k) == IF k \in DOMAIN tt /\ TextId(tt[k], k) # NoId
                           THEN << [id |-> TextId(tt[k], k), num |-> k] >> \o list
                           ELSE list
           Body(f, s) == IF s = {} THEN <<>> ELSE Add(f[s \ {Max(s)}], seq[Max(s)])
           it == CHOOSE f : f = [s \in SUBSET DOMAIN seq |-> Body(f, s)]
<1>1. ScanExisting(tt, n) = it[DOMAIN seq]
  BY DEF ScanExisting, FoldLeft, MapThenFoldSet
<1>2. DOMAIN seq = 1 .. n /\ \A k \in 1 .. n : seq[k] = k
  OBVIOUS
<1> HIDE DEF seq, Add
<1> DEFINE T == { k \in Nat : \E f : f = [s \in SUBSET (1 .. k) |-> Body(f, s)] }
<1>3. 0 \in T
  <2> DEFINE f == [s \in SUBSET (1 .. 0) |-> <<>>]
  <2>1. \A s \in SUBSET (1 .. 0) : s = {}
    OBVIOUS
  <2>2. f = [s \in SUBSET (1 .. 0) |-> Body(f, s)]
    BY <2>1
  <2> QED BY <2>2
<1>4. ASSUME NEW k \in Nat, k \in T PROVE k + 1 \in T
  <2>1. PICK f : f = [s \in SUBSET (1 .. k) |-> Body(f, s)]
    BY <1>4
  <2> DEFINE g == [s \in SUBSET (1 .. k + 1) |-> IF k + 1 \in s THEN Body(f, s) ELSE f[s]]
  <2>2. ASSUME NEW s \in SUBSET (1 .. k + 1) PROVE g[s] = Body(g, s)
    <3>1. CASE s = {}
      <4>1. s \in SUBSET (1 .. k)
        BY <3>1
      <4> QED BY <4>1, <3>1, <2>1
    <3>2. CASE s # {}
      <4>1. /\ Max(s) \in s /\ \A x \in s : x <= Max(s)
            /\ s \ {Max(s)} \in SUBSET (1 .. k + 1)
        BY <3>2, LastOf
      <4>2. k + 1 \notin s \ {Max(s)}
        <5>1. CASE k + 1 \in s
          <6> DEFINE x == Max(s)
          <6>0. x \in s /\ k + 1 <= x
            BY <4>1, <5>1
          <6> HIDE DEF x
          <6>2. x \in 1 .. k + 1
            BY <6>0
          <6>3. x = k + 1
            BY <6>0, <6>2
          <6>1. Max(s) = k + 1
            BY <6>3 DEF x
          <6> QED BY <6>1
        <5>2. CASE k + 1 \notin s
          BY <5>2
        <5> QED BY <5>1, <5>2
      <4>3. g[s \ {Max(s)}] = f[s \ {Max(s)}]
        BY <4>1, <4>2
      <4>4. Body(g, s) = Body(f, s)
        BY <4>3
      <4>5. CASE k + 1 \in s
        BY <4>4, <4>5
      <4>6. CASE k + 1 \notin s
        <5>1. s \in SUBSET (1 .. k)
          BY <4>6
        <5>2. f[s] = Body(f, s)
          BY <5>1, <2>1
        <5> QED BY <4>4, <4>6, <5>2
      <4> QED BY <4>5, <4>6
    <3> QED BY <3>1, <3>2
  <2>3. g = [s \in SUBSET (1 .. k + 1) |-> Body(g, s)]
    <3> HIDE DEF Body
    <3> QED BY <2>2
  <2> HIDE DEF g
  <2>4. \E h : h = [s \in SUBSET (1 .. k + 1) |-> Body(h, s)]
    <3> HIDE DEF Body
    <3> QED BY <2>3
  <2> HIDE DEF Body
  <2> QED BY <2>4
<1>5. it = [s \in SUBSET (1 .. n) |-> Body(it, s)]
  <2>1. n \in T
    <3> HIDE DEF T
    <3> QED BY <1>3, <1>4, AllNumbers
  <2>2. \E f : f = [s \in SUBSET DOMAIN seq |-> Body(f, s)]
    BY <2>1, <1>2
  <2>3. it = [s \in SUBSET DOMAIN seq |-> Body(it, s)]
    <3> HIDE DEF Body
    <3> QED BY <2>2
  <2> HIDE DEF it
  <2> QED BY <2>3, <1>2
<1> HIDE DEF it, T
<1> DEFINE U == { k \in Nat : k <= n => Scanned(it[1 .. k], tt, k) }
<1>6. 0 \in U
  <2>1. 1 .. 0 = {}
    OBVIOUS
  <2>2. it[{}] = <<>>
    BY <1>5
  <2>3. Scanned(<<>>, tt, 0)
    BY DEF Scanned
  <2>4. Scanned(it[1 .. 0], tt, 0)
    BY <2>1, <2>2, <2>3
  <2> QED BY <2>4
<1>7. ASSUME NEW k \in Nat, k \in U PROVE k + 1 \in U
  <2> SUFFICES ASSUME k + 1 <= n PROVE Scanned(it[1 .. k + 1], tt, k + 1)
    OBVIOUS
  <2>1. k <= n /\ 1 .. k + 1 \in SUBSET (1 .. n) /\ 1 .. k + 1 # {} /\ k + 1 \in 1 .. n
    OBVIOUS
  <2>2. Scanned(it[1 .. k], tt, k)
    BY <1>7, <2>1
  <2>3. Max(1 .. k + 1) = k + 1
    <3>1. Max(1 .. k + 1) \in 1 .. k + 1 /\ \A x \in 1 .. k + 1 : x <= Max(1 .. k + 1)
      BY <2>1, LastOf
    <3> QED BY <3>1
  <2>4. (1 .. k + 1) \ {k + 1} = 1 .. k
    OBVIOUS
  <2>5. it[1 .. k + 1] = Body(it, 1 .. k + 1)
    BY <2>1, <1>5
  <2>6. it[1 .. k + 1] = Add(it[1 .. k], k + 1)
    BY <2>1, <2>3, <2>4, <2>5, <1>2
  <2>7. Scanned(Add(it[1 .. k], k + 1), tt, k + 1)
    BY <2>2, ScannedOn DEF Add
  <2> QED BY <2>6, <2>7
<1>8. n \in U
  <2> HIDE DEF U
  <2> QED BY <1>6, <1>7, AllNumbers
<1> QED BY <1>1, <1>2, <1>8

(* find_skref: the first that has the MSGID.                               *)
LEMMA FindTextIs ==
  ASSUME NEW list \in Seq(Ref), NEW id
  PROVE  /\ FindText(list, id) = 0 =>
              id = NoId \/ \A i \in DOMAIN list : list[i].id # id
         /\ FindText(list, id) # 0 =>
              \E i \in DOMAIN list : list[i].id = id /\ FindText(list, id) = list[i].num
         /\ FindText(list, id) \in Nat
<1> DEFINE at == { i \in DOMAIN list : list[i].id = id }
<1>0. DOMAIN list = 1 .. Len(list) /\ Len(list) \in Nat
  OBVIOUS
<1>1. at \subseteq Nat /\ \A i \in DOMAIN list : list[i].num \in Nat \ {0}
  <2>1. at \subseteq 1 .. Len(list)
    BY <1>0
  <2>2. at \subseteq Nat
    BY <1>0, <2>1
  <2>3. \A i \in DOMAIN list : list[i] \in Ref
    BY <1>0
  <2> QED BY <2>2, <2>3 DEF Ref
<1>2. FindText(list, id) = IF id = NoId \/ at = {} THEN 0 ELSE list[Min(at)].num
  BY DEF FindText
<1>3. CASE id = NoId \/ at = {}
  BY <1>2, <1>3
<1>4. CASE ~ (id = NoId \/ at = {})
  <2>1. Min(at) \in at
    <3> HIDE DEF at
    <3> QED BY <1>1, <1>4, MinOf
  <2>2. Min(at) \in DOMAIN list /\ list[Min(at)].id = id
    BY <2>1
  <2>3. FindText(list, id) = list[Min(at)].num
    BY <1>2, <1>4
  <2> HIDE DEF at
  <2> QED BY <2>2, <2>3, <1>1
<1> QED BY <1>3, <1>4

(* sort_msgitems_by_number: the files of a directory can be put in order.  *)
LEMMA SpoolItemsAre ==
  ASSUME NEW s, IsFiniteSet(s), s \subseteq Msgs, \A m, k \in s : m.file = k.file => m = k
  PROVE  /\ SpoolItems(s) \in Seq(s)
         /\ SpoolItems(s) \in Seq(Msgs)
<1> DEFINE Sorted(f) == \A i, j \in DOMAIN f : i < j => f[i].file < f[j].file
           OneEach(u) == \A m, k \in u : m.file = k.file => m = k
           T == { n \in Nat : \A u \in SUBSET Msgs :
                    IsFiniteSet(u) /\ OneEach(u) /\ Cardinality(u) = n =>
                      \E f \in [1 .. n -> u] : Sorted(f) }
<1>1. 0 \in T
  <2> SUFFICES ASSUME NEW u \in SUBSET Msgs, IsFiniteSet(u), Cardinality(u) = 0
               PROVE  \E f \in [1 .. 0 -> u] : Sorted(f)
    OBVIOUS
  <2>1. \A k : k \notin 1 .. 0
    OBVIOUS
  <2> DEFINE f == [i \in 1 .. 0 |-> CHOOSE m \in u : TRUE]
  <2>2. f \in [1 .. 0 -> u] /\ Sorted(f)
    BY <2>1
  <2> QED BY <2>2
<1>2. ASSUME NEW n \in Nat, n \in T PROVE n + 1 \in T
  <2> SUFFICES ASSUME NEW u \in SUBSET Msgs, IsFiniteSet(u), OneEach(u), Cardinality(u) = n + 1
               PROVE  \E f \in [1 .. n + 1 -> u] : Sorted(f)
    OBVIOUS
  <2>1. u # {}
    BY FS_EmptySet
  <2>2. PICK x \in u : \A k \in u : k.file <= x.file
    BY <2>1, LastFile
  <2>3. IsFiniteSet(u \ {x}) /\ Cardinality(u \ {x}) = n
    <3>1. IsFiniteSet(u \ {x}) /\ Cardinality(u \ {x}) = Cardinality(u) - 1
      BY FS_RemoveElement
    <3> QED BY <3>1
  <2>4. u \ {x} \in SUBSET Msgs /\ OneEach(u \ {x})
    OBVIOUS
  <2>5. PICK f \in [1 .. n -> u \ {x}] : Sorted(f)
    BY <1>2, <2>3, <2>4
  <2> DEFINE g == [i \in 1 .. n + 1 |-> IF i = n + 1 THEN x ELSE f[i]]
  <2>6. g \in [1 .. n + 1 -> u]
    <3>1. ASSUME NEW i \in 1 .. n + 1, i # n + 1 PROVE f[i] \in u
      <4>1. i \in 1 .. n
        BY <3>1
      <4> QED BY <4>1
    <3> QED BY <3>1
  <2>7. ASSUME NEW i \in 1 .. n + 1, NEW j \in 1 .. n + 1, i < j PROVE g[i].file < g[j].file
    <3>1. i \in 1 .. n /\ i # n + 1
      BY <2>7
    <3>2. CASE j = n + 1
      <4>1. g[i] = f[i] /\ g[j] = x /\ f[i] \in u \ {x}
        BY <3>1, <3>2
      <4>2. f[i].file <= x.file /\ f[i].file # x.file
        BY <4>1, <2>2
      <4>3. f[i].file \in Nat /\ x.file \in Nat
        BY <4>1 DEF Msgs
      <4> QED BY <4>1, <4>2, <4>3
    <3>3. CASE j # n + 1
      <4>1. j \in 1 .. n
        BY <3>3
      <4> QED BY <4>1, <3>1, <3>3, <2>5, <2>7
    <3> QED BY <3>2, <3>3
  <2>8. Sorted(g)
    BY <2>7
  <2> HIDE DEF g, Sorted
  <2> QED BY <2>6, <2>8
<1>3. Cardinality(s) \in T /\ Cardinality(s) \in Nat
  <2> HIDE DEF T
  <2> QED BY <1>1, <1>2, AllNumbers, FS_CardinalityType
<1>4. \E f \in [1 .. Cardinality(s) -> s] : Sorted(f)
  BY <1>3
<1>5. SpoolItems(s) = CHOOSE f \in [1 .. Cardinality(s) -> s] : Sorted(f)
  BY DEF SpoolItems
<1>6. SpoolItems(s) \in [1 .. Cardinality(s) -> s]
  <2> HIDE DEF Sorted
  <2> QED BY <1>4, <1>5
<1> QED BY <1>3, <1>6

-----------------------------------------------------------------------------
(* What a step does to the processes.                                      *)
LEMMA FieldNames ==
  /\ Fields = {"pc", "kind", "at", "refs", "known", "items", "told", "pos", "changed", "num",
               "done", "late", "jobs", "file", "reply"}
  /\ "pc" \in Fields /\ "at" \in Fields /\ "refs" \in Fields /\ "items" \in Fields
  /\ "pos" \in Fields /\ "num" \in Fields /\ "done" \in Fields /\ "late" \in Fields
  /\ "file" \in Fields /\ "reply" \in Fields /\ "kind" \in Fields
BY DEF Fields, Idle

(* A process whose program has not gone on.                                *)
Rests(q) ==
  /\ DOMAIN st'[q] = DOMAIN st[q]
  /\ st'[q].pc = st[q].pc /\ st'[q].kind = st[q].kind /\ st'[q].at = st[q].at
  /\ st'[q].refs = st[q].refs /\ st'[q].items = st[q].items /\ st'[q].pos = st[q].pos
  /\ st'[q].num = st[q].num /\ st'[q].done = st[q].done
  /\ st'[q].file = st[q].file /\ st'[q].reply = st[q].reply

(* Process p goes on to a label of its program; nobody else moves.         *)
Alone(p) ==
  /\ DOMAIN st' = Procs /\ DOMAIN st'[p] = Fields
  /\ \A q \in Procs \ {p} : Rests(q)

LEMMA AloneIs ==
  ASSUME States, NEW p \in Procs, NEW r, st' = [st EXCEPT ![p] = r], DOMAIN r = Fields
  PROVE  Alone(p) /\ st'[p] = r /\ \A q \in Procs \ {p} : st'[q] = st[q]
<1>1. DOMAIN st = Procs
  BY DEF States
<1>2. DOMAIN st' = Procs /\ st'[p] = r /\ \A q \in Procs \ {p} : st'[q] = st[q]
  BY <1>1
<1> QED BY <1>2 DEF Alone, Rests

LEMMA GotoIs ==
  ASSUME States, NEW p \in Procs, NEW label, Goto(p, label)
  PROVE  /\ Alone(p) /\ \A q \in Procs \ {p} : st'[q] = st[q]
         /\ st'[p] = [st[p] EXCEPT !.pc = label] /\ st'[p].pc = label
<1> DEFINE r == [st[p] EXCEPT !.pc = label]
<1>1. DOMAIN st[p] = Fields
  BY DEF States
<1>2. DOMAIN r = Fields /\ r.pc = label
  BY <1>1, FieldNames
<1>3. st' = [st EXCEPT ![p] = r]
  BY DEF Goto
<1> HIDE DEF r
<1>4. Alone(p) /\ st'[p] = r /\ \A q \in Procs \ {p} : st'[q] = st[q]
  BY <1>2, <1>3, AloneIs
<1> QED BY <1>2, <1>4 DEF r

(* The lock goes from nobody to p, from p to nobody, or stays.             *)
Keeps == lock'.by = lock.by /\ (lock'.held \/ (lock'.by = None /\ ~lock'.old))
Takes(p) == lock.by = None /\ lock'.held /\ lock'.by = p
Frees(p) == lock.by = p /\ lock'.by = None /\ (lock'.held \/ ~lock'.old)

LEMMA OwnerGoesOn ==
  ASSUME States, Owner, NEW p \in Procs, Alone(p),
         \/ Keeps /\ (st[p].pc \in Holding <=> st'[p].pc \in Holding)
         \/ Takes(p) /\ st[p].pc \notin Holding /\ st'[p].pc \in Holding
         \/ Frees(p) /\ st[p].pc \in Holding /\ st'[p].pc \notin Holding
  PROVE  Owner'
<1>0. None \notin Procs
  BY ProcsAssumption
<1>1. \A q \in Procs \ {p} : st'[q].pc = st[q].pc
  BY DEF Alone, Rests
<1>2. lock'.held \/ (lock'.by = None /\ ~lock'.old)
  BY DEF Keeps, Takes, Frees
<1>3. ASSUME NEW q \in Procs PROVE lock'.by = q <=> st'[q].pc \in Holding
  <2>1. lock.by = q <=> st[q].pc \in Holding
    BY DEF Owner
  <2>2. CASE q = p
    BY <2>1, <2>2, <1>0 DEF Keeps, Takes, Frees
  <2>3. CASE q # p
    BY <2>1, <2>3, <1>0, <1>1 DEF Keeps, Takes, Frees
  <2> QED BY <2>2, <2>3
<1> QED BY <1>2, <1>3 DEF Owner

LEMMA StatesGoOn ==
  ASSUME States, NEW p \in Procs, Alone(p),
         p \in Tossers => st'[p].pc \in TossAt,
         p \in Runners => st'[p].pc \in RunAt,
         lock' \in [held : BOOLEAN, by : Procs \cup {None}, old : BOOLEAN]
  PROVE  States'
<1>1. \A q \in Procs \ {p} : DOMAIN st'[q] = Fields /\ st'[q].pc = st[q].pc
  BY DEF Alone, Rests, States
<1>2. Procs = Tossers \cup Runners
  BY DEF Procs
<1>3. DOMAIN st' = Procs /\ DOMAIN st'[p] = Fields
  BY DEF Alone
<1>4. Fields' = Fields
  BY FieldNames DEF Fields, Idle
<1>5. \A q \in Procs : DOMAIN st'[q] = Fields
  BY <1>1, <1>3
<1>6. \A q \in Tossers : st'[q].pc \in TossAt
  BY <1>1, <1>2 DEF States
<1>7. \A q \in Runners : st'[q].pc \in RunAt
  BY <1>1, <1>2 DEF States
<1> QED BY <1>3, <1>5, <1>6, <1>7 DEF States

LEMMA LockType ==
  ASSUME States
  PROVE  /\ \A b \in BOOLEAN, x \in Procs \cup {None}, o \in BOOLEAN :
              [held |-> b, by |-> x, old |-> o] \in [held : BOOLEAN, by : Procs \cup {None}, old : BOOLEAN]
         /\ \A x \in Procs \cup {None} :
              [lock EXCEPT !.by = x] \in [held : BOOLEAN, by : Procs \cup {None}, old : BOOLEAN]
         /\ [lock EXCEPT !.old = TRUE] \in [held : BOOLEAN, by : Procs \cup {None}, old : BOOLEAN]
         /\ lock \in [held : BOOLEAN, by : Procs \cup {None}, old : BOOLEAN]
BY DEF States

RefusedAt == {"next", "idle"}
LEMMA RefusedIs ==
  ASSUME NEW p \in Procs
  PROVE  /\ Refused(p) \in RefusedAt
         /\ p \in Runners => Refused(p) = "next"
         /\ p \in Tossers => Refused(p) = "idle"
<1>1. Tossers \cap Runners = {}
  BY ProcsAssumption
<1> QED BY <1>1 DEF Refused, RefusedAt

-----------------------------------------------------------------------------
(* Each action of a process, by what it does to the process and the lock.  *)
LEMMA Sides ==
  /\ \A p \in Tossers : p \in Procs /\ p \notin Runners
  /\ \A r \in Runners : r \in Procs /\ r \notin Tossers
  /\ \A p \in Procs : p \in Tossers \/ p \in Runners
BY ProcsAssumption DEF Procs

LEMMA IdleIs ==
  /\ DOMAIN Idle = Fields /\ Idle.pc = "idle" /\ Idle.done = FALSE /\ Idle.pos = 1
  /\ Idle.late = FALSE
BY DEF Fields, Idle

LEMMA AcquireIs ==
  ASSUME States, NEW p \in Procs, Acquire(p)
  PROVE  /\ Alone(p)
         /\ st[p].pc = "lock"
         /\ st'[p].pc = IF p \in Runners THEN "path" ELSE "scan"
         /\ ~lock.held /\ lock' = [held |-> TRUE, by |-> p, old |-> FALSE]
         /\ st'[p].at = st[p].at /\ st'[p].done = st[p].done /\ st'[p].late = st[p].late
         /\ st'[p].pos = st[p].pos
         /\ \A q \in Procs \ {p} : st'[q].late = (st[q].late \/ st[q].pc \in {"warn", "mail"})
<1>1. DOMAIN st' = Procs /\ \A q \in Procs : DOMAIN st[q] = Fields
  BY DEF Acquire, States
<1>2. st'[p] = [st[p] EXCEPT !.pc = IF p \in Runners THEN "path" ELSE "scan"]
  BY DEF Acquire
<1>3. ASSUME NEW q \in Procs \ {p}
      PROVE  Rests(q) /\ st'[q].late = (st[q].late \/ st[q].pc \in {"warn", "mail"})
  <2> DEFINE v == st[q].late \/ st[q].pc \in {"warn", "mail"}
  <2>1. st'[q] = [st[q] EXCEPT !.late = v]
    BY DEF Acquire
  <2> HIDE DEF v
  <2>2. Rests(q) /\ st'[q].late = v
    BY <1>1, <2>1, FieldNames DEF Rests
  <2> QED BY <2>2 DEF v
<1>4. DOMAIN st'[p] = Fields
  BY <1>1, <1>2
<1>5. Alone(p)
  BY <1>1, <1>3, <1>4 DEF Alone
<1>6. /\ st'[p].pc = IF p \in Runners THEN "path" ELSE "scan"
      /\ st'[p].at = st[p].at /\ st'[p].done = st[p].done /\ st'[p].late = st[p].late
      /\ st'[p].pos = st[p].pos
  BY <1>1, <1>2, FieldNames
<1>7. st[p].pc = "lock" /\ ~lock.held /\ lock' = [held |-> TRUE, by |-> p, old |-> FALSE]
  BY DEF Acquire, At
<1> QED BY <1>3, <1>5, <1>6, <1>7

LEMMA BusyIs ==
  ASSUME States, NEW p \in Procs, Busy(p)
  PROVE  /\ Alone(p) /\ \A q \in Procs \ {p} : st'[q] = st[q]
         /\ st[p].pc = "lock" /\ st'[p].pc \in {"warn", Refused(p)}
         /\ st'[p].late = FALSE /\ st'[p].at = st[p].at /\ st'[p].done = st[p].done
         /\ st'[p].pos = st[p].pos
         /\ lock' = lock
<1> DEFINE v == IF lock.old THEN "warn" ELSE Refused(p)
           r == [st[p] EXCEPT !.pc = v, !.late = FALSE]
<1>1. DOMAIN st[p] = Fields
  BY DEF States
<1>2. st' = [st EXCEPT ![p] = r] /\ st[p].pc = "lock" /\ lock' = lock
  BY DEF Busy, At, locks
<1>3. v \in {"warn", Refused(p)}
  OBVIOUS
<1> HIDE DEF v
<1>4. /\ DOMAIN r = Fields /\ r.pc = v /\ r.late = FALSE /\ r.at = st[p].at
      /\ r.done = st[p].done /\ r.pos = st[p].pos
  BY <1>1, FieldNames
<1> HIDE DEF r
<1>5. Alone(p) /\ st'[p] = r /\ \A q \in Procs \ {p} : st'[q] = st[q]
  BY <1>2, <1>4, AloneIs
<1> QED BY <1>2, <1>3, <1>4, <1>5

(* What Goto leaves as it is.                                              *)
GoesTo(p, label) ==
  /\ Alone(p) /\ \A q \in Procs \ {p} : st'[q] = st[q]
  /\ st'[p].pc = label
  /\ st'[p].at = st[p].at /\ st'[p].done = st[p].done /\ st'[p].late = st[p].late
  /\ st'[p].items = st[p].items /\ st'[p].refs = st[p].refs /\ st'[p].pos = st[p].pos
  /\ st'[p].num = st[p].num /\ st'[p].kind = st[p].kind

LEMMA GotoGoes ==
  ASSUME States, NEW p \in Procs, NEW label, Goto(p, label)
  PROVE  GoesTo(p, label)
<1>1. DOMAIN st[p] = Fields
  BY DEF States
<1>2. /\ Alone(p) /\ \A q \in Procs \ {p} : st'[q] = st[q]
      /\ st'[p] = [st[p] EXCEPT !.pc = label] /\ st'[p].pc = label
  BY GotoIs
<1> QED BY <1>1, <1>2, FieldNames DEF GoesTo

LEMMA ReleaseIs ==
  ASSUME States, NEW p \in Procs, Release(p)
  PROVE  /\ Alone(p) /\ \A q \in Procs \ {p} : st'[q] = st[q]
         /\ st[p].pc = "free" /\ st'[p].late = FALSE /\ st'[p].done = FALSE /\ st'[p].pos = 1
         /\ p \in Tossers => st'[p].pc = "idle"
         /\ p \in Runners => /\ st'[p].pc = IF st[p].done THEN "rm" ELSE "next"
                             /\ st'[p].at = st[p].at
         /\ lock' = [held |-> FALSE, by |-> None, old |-> FALSE]
<1> DEFINE v == IF st[p].done THEN "rm" ELSE "next"
           r == IF p \in Tossers THEN Idle
                ELSE [Idle EXCEPT !.pc = v, !.jobs = st[p].jobs, !.at = st[p].at]
<1>1. /\ st' = [st EXCEPT ![p] = r] /\ st[p].pc = "free"
      /\ lock' = [held |-> FALSE, by |-> None, old |-> FALSE]
  BY DEF Release, At
<1>2. /\ DOMAIN r = Fields /\ r.late = FALSE /\ r.done = FALSE /\ r.pos = 1
      /\ p \in Tossers => r.pc = "idle"
      /\ p \in Runners => r.pc = v /\ r.at = st[p].at
  <2>1. CASE p \in Tossers
    BY <2>1, IdleIs, Sides
  <2>2. CASE p \notin Tossers
    <3> DEFINE e == [Idle EXCEPT !.pc = v, !.jobs = st[p].jobs, !.at = st[p].at]
    <3> HIDE DEF v
    <3>1. /\ DOMAIN e = Fields /\ e.pc = v /\ e.at = st[p].at /\ e.late = FALSE
          /\ e.done = FALSE /\ e.pos = 1
      BY IdleIs, FieldNames
    <3> HIDE DEF e
    <3>2. r = e
      BY <2>2 DEF e
    <3> HIDE DEF r
    <3> QED BY <2>2, <3>1, <3>2
  <2> QED BY <2>1, <2>2
<1> HIDE DEF r
<1>3. Alone(p) /\ st'[p] = r /\ \A q \in Procs \ {p} : st'[q] = st[q]
  BY <1>1, <1>2, AloneIs
<1> QED BY <1>1, <1>2, <1>3

LEMMA StartIs ==
  ASSUME States, NEW p \in Tossers, Start(p)
  PROVE  /\ Alone(p) /\ \A q \in Procs \ {p} : st'[q] = st[q]
         /\ st[p].pc = "idle" /\ st'[p].pc = "lock" /\ st'[p].late = FALSE /\ st'[p].pos = 1
         /\ lock' = lock
<1>1. PICK k \in Kinds : st' = [st EXCEPT ![p] = [Idle EXCEPT !.pc = "lock", !.kind = k]]
  BY DEF Start
<1> DEFINE r == [Idle EXCEPT !.pc = "lock", !.kind = k]
<1>2. DOMAIN r = Fields /\ r.pc = "lock" /\ r.late = FALSE /\ r.pos = 1
  BY IdleIs, FieldNames
<1>3. st' = [st EXCEPT ![p] = r]
  BY <1>1
<1> HIDE DEF r
<1>4. Alone(p) /\ st'[p] = r /\ \A q \in Procs \ {p} : st'[q] = st[q]
  BY <1>2, <1>3, AloneIs, Sides
<1> QED BY <1>2, <1>4 DEF Start, At, locks

LEMMA ScanGoes ==
  ASSUME States, NEW p \in Tossers, Scan(p)
  PROVE  /\ Alone(p) /\ \A q \in Procs \ {p} : st'[q] = st[q]
         /\ st[p].pc = "scan" /\ st'[p].pc = "index" /\ st'[p].late = st[p].late
         /\ st'[p].at = last /\ st'[p].refs = ScanExisting(Stored, last)
         /\ st'[p].pos = st[p].pos
         /\ lock' = lock
<1> DEFINE refs == ScanExisting(Stored, last)
           ids == IdsOf(refs)
           r == [st[p] EXCEPT !.pc = "index", !.at = last, !.refs = refs, !.known = ids]
<1>1. DOMAIN st[p] = Fields
  BY Sides DEF States
<1>2. st' = [st EXCEPT ![p] = r]
  BY DEF Scan
<1> HIDE DEF refs, ids
<1>3. /\ DOMAIN r = Fields /\ r.pc = "index" /\ r.late = st[p].late /\ r.at = last
      /\ r.refs = refs /\ r.pos = st[p].pos
  BY <1>1, FieldNames
<1> HIDE DEF r
<1>4. Alone(p) /\ st'[p] = r /\ \A q \in Procs \ {p} : st'[q] = st[q]
  BY <1>2, <1>3, AloneIs, Sides
<1>5. st[p].pc = "scan" /\ lock' = lock
  BY DEF Scan, At, locks
<1> QED BY <1>3, <1>4, <1>5 DEF refs

(* Everything of the spool, or one message of it, or nothing.              *)
LEMMA IndexIs ==
  ASSUME States, NEW p \in Tossers, Index(p)
  PROVE  /\ Alone(p) /\ \A q \in Procs \ {p} : st'[q] = st[q]
         /\ st[p].pc = "index" /\ st'[p].late = st[p].late
         /\ st'[p].at = st[p].at /\ st'[p].refs = st[p].refs /\ st'[p].pos = st[p].pos
         /\ \/ st'[p].pc = "free"
            \/ /\ st'[p].pc = "loop"
               /\ \/ st'[p].items = SpoolItems(spool)
                  \/ \E i \in DOMAIN SpoolItems(spool) : st'[p].items = << SpoolItems(spool)[i] >>
         /\ lock' = lock
<1> DEFINE items == SpoolItems(spool)
           plan  == BuildPlan(items, st[p].refs, st[p].at + 1, st[p].kind = "unsafe")
           one   == { i \in DOMAIN items : OneAllowed(items[i], plan, st[p].refs, st[p].at) }
           ids   == IdsOf(plan)
<1>0. DOMAIN st[p] = Fields
  BY Sides DEF States
<1>1. /\ st[p].pc = "index" /\ lock' = lock
      /\ \/ Goto(p, "free")
         \/ st' = [st EXCEPT ![p] = [st[p] EXCEPT !.pc = "loop", !.items = items, !.told = ids]]
         \/ \E i \in one :
              st' = [st EXCEPT ![p] = [st[p] EXCEPT !.pc = "loop", !.items = << items[i] >>]]
  BY DEF Index, At, locks
<1>2. one \subseteq DOMAIN items
  OBVIOUS
<1> HIDE DEF one, plan, ids, items
<1>3. CASE Goto(p, "free")
  <2>1. GoesTo(p, "free")
    BY <1>3, GotoGoes, Sides
  <2> QED BY <2>1, <1>1 DEF GoesTo
<1>4. CASE st' = [st EXCEPT ![p] = [st[p] EXCEPT !.pc = "loop", !.items = items, !.told = ids]]
  <2> DEFINE r == [st[p] EXCEPT !.pc = "loop", !.items = items, !.told = ids]
  <2>1. /\ DOMAIN r = Fields /\ r.pc = "loop" /\ r.late = st[p].late /\ r.at = st[p].at
        /\ r.refs = st[p].refs /\ r.pos = st[p].pos /\ r.items = items
    BY <1>0, FieldNames
  <2>2. st' = [st EXCEPT ![p] = r]
    BY <1>4
  <2> HIDE DEF r
  <2>3. Alone(p) /\ st'[p] = r /\ \A q \in Procs \ {p} : st'[q] = st[q]
    BY <2>1, <2>2, AloneIs, Sides
  <2> QED BY <1>1, <2>1, <2>3 DEF items
<1>5. CASE \E i \in one :
              st' = [st EXCEPT ![p] = [st[p] EXCEPT !.pc = "loop", !.items = << items[i] >>]]
  <2>0. PICK i \in one :
          st' = [st EXCEPT ![p] = [st[p] EXCEPT !.pc = "loop", !.items = << items[i] >>]]
    BY <1>5
  <2> DEFINE m == << items[i] >>
             r == [st[p] EXCEPT !.pc = "loop", !.items = m]
  <2>2. st' = [st EXCEPT ![p] = r]
    BY <2>0
  <2>4. i \in DOMAIN items /\ m = << items[i] >>
    BY <1>2
  <2> HIDE DEF m
  <2>1. /\ DOMAIN r = Fields /\ r.pc = "loop" /\ r.late = st[p].late /\ r.at = st[p].at
        /\ r.refs = st[p].refs /\ r.pos = st[p].pos /\ r.items = m
    BY <1>0, FieldNames
  <2> HIDE DEF r
  <2>3. Alone(p) /\ st'[p] = r /\ \A q \in Procs \ {p} : st'[q] = st[q]
    BY <2>1, <2>2, AloneIs, Sides
  <2> QED BY <1>1, <2>1, <2>3, <2>4 DEF items
<1> QED BY <1>1, <1>3, <1>4, <1>5

LEMMA CountIs ==
  ASSUME States, NEW p \in Tossers, Count(p)
  PROVE  /\ Alone(p) /\ \A q \in Procs \ {p} : st'[q] = st[q]
         /\ st[p].pc = "loop" /\ st'[p].pc = "write" /\ st'[p].late = st[p].late
         /\ Found(p) # {} /\ st'[p].pos = Min(Found(p)) /\ st'[p].num = last + 1
         /\ st'[p].at = st[p].at /\ st'[p].refs = st[p].refs /\ st'[p].items = st[p].items
         /\ st'[p].kind = st[p].kind
         /\ lock' = lock
<1> DEFINE i == Min(Found(p))
           n == last + 1
           r == [st[p] EXCEPT !.pc = "write", !.pos = i, !.num = n]
<1>0. DOMAIN st[p] = Fields
  BY Sides DEF States
<1>1. st' = [st EXCEPT ![p] = r] /\ st[p].pc = "loop" /\ lock' = lock /\ Found(p) # {}
  BY DEF Count, At, locks
<1> HIDE DEF i, n
<1>2. /\ DOMAIN r = Fields /\ r.pc = "write" /\ r.late = st[p].late /\ r.pos = i /\ r.num = n
      /\ r.at = st[p].at /\ r.refs = st[p].refs /\ r.items = st[p].items
      /\ r.kind = st[p].kind
  BY <1>0, FieldNames
<1> HIDE DEF r
<1>3. Alone(p) /\ st'[p] = r /\ \A q \in Procs \ {p} : st'[q] = st[q]
  BY <1>1, <1>2, AloneIs, Sides
<1> QED BY <1>1, <1>2, <1>3 DEF i, n

LEMMA LinkGoes ==
  ASSUME States, NEW p \in Tossers, Link(p)
  PROVE  /\ Alone(p) /\ \A q \in Procs \ {p} : st'[q] = st[q]
         /\ st[p].pc = "link" /\ st'[p].pc \in {"free", "loop"} /\ st'[p].late = st[p].late
         /\ st'[p].pos = st[p].pos + 1
         /\ st'[p].refs = << [id |-> Item(p).id, num |-> st[p].num] >> \o st[p].refs
         /\ st'[p].at = st[p].at /\ st'[p].items = st[p].items
         /\ lock' = lock
<1> DEFINE v == IF st[p].kind = "one" THEN "free" ELSE "loop"
           i == st[p].pos + 1
           list == << [id |-> Item(p).id, num |-> st[p].num] >> \o st[p].refs
           r == [st[p] EXCEPT !.pc = v, !.pos = i, !.changed = TRUE, !.refs = list]
<1>0. DOMAIN st[p] = Fields
  BY Sides DEF States
<1>1. st' = [st EXCEPT ![p] = r] /\ st[p].pc = "link" /\ lock' = lock
  BY DEF Link, At, locks
<1>4. v \in {"free", "loop"}
  OBVIOUS
<1> HIDE DEF v, i, list
<1>2. /\ DOMAIN r = Fields /\ r.pc = v /\ r.late = st[p].late /\ r.pos = i /\ r.refs = list
      /\ r.at = st[p].at /\ r.items = st[p].items
  BY <1>0, FieldNames
<1> HIDE DEF r
<1>3. Alone(p) /\ st'[p] = r /\ \A q \in Procs \ {p} : st'[q] = st[q]
  BY <1>1, <1>2, AloneIs, Sides
<1> QED BY <1>1, <1>2, <1>3, <1>4 DEF i, list

LEMMA PassIs ==
  ASSUME States, NEW p \in Tossers, Pass(p)
  PROVE  /\ Alone(p) /\ \A q \in Procs \ {p} : st'[q] = st[q]
         /\ st[p].pc = "loop" /\ st'[p].pc \in {"free", "loop"} /\ st'[p].late = st[p].late
         /\ st'[p].pos \in {1, st[p].pos}
         /\ st'[p].at = st[p].at /\ st'[p].refs = st[p].refs /\ st'[p].items = st[p].items
         /\ lock' = lock
<1> DEFINE r == IF st[p].changed THEN [st[p] EXCEPT !.pos = 1, !.changed = FALSE]
                ELSE [st[p] EXCEPT !.pc = "free", !.done = TRUE]
<1>0. DOMAIN st[p] = Fields
  BY Sides DEF States
<1>1. st' = [st EXCEPT ![p] = r] /\ st[p].pc = "loop" /\ lock' = lock
  BY DEF Pass, At, locks
<1>2. /\ DOMAIN r = Fields /\ r.pc \in {"free", "loop"} /\ r.late = st[p].late
      /\ r.pos \in {1, st[p].pos}
      /\ r.at = st[p].at /\ r.refs = st[p].refs /\ r.items = st[p].items
  <2>1. CASE st[p].changed
    <3> DEFINE e == [st[p] EXCEPT !.pos = 1, !.changed = FALSE]
    <3>1. /\ DOMAIN e = Fields /\ e.pc = "loop" /\ e.late = st[p].late /\ e.pos = 1
          /\ e.at = st[p].at /\ e.refs = st[p].refs /\ e.items = st[p].items
      BY <1>0, <1>1, FieldNames
    <3>2. r = e
      BY <2>1
    <3> HIDE DEF e, r
    <3> QED BY <3>1, <3>2
  <2>2. CASE ~ st[p].changed
    <3> DEFINE e == [st[p] EXCEPT !.pc = "free", !.done = TRUE]
    <3>1. /\ DOMAIN e = Fields /\ e.pc = "free" /\ e.late = st[p].late /\ e.pos = st[p].pos
          /\ e.at = st[p].at /\ e.refs = st[p].refs /\ e.items = st[p].items
      BY <1>0, <1>1, FieldNames
    <3>2. r = e
      BY <2>2
    <3> HIDE DEF e, r
    <3> QED BY <3>1, <3>2
  <2> QED BY <2>1, <2>2
<1> HIDE DEF r
<1>3. Alone(p) /\ st'[p] = r /\ \A q \in Procs \ {p} : st'[q] = st[q]
  BY <1>1, <1>2, AloneIs, Sides
<1> QED BY <1>1, <1>2, <1>3

LEMMA RunQueueIs ==
  ASSUME States, NEW r \in Runners, RunQueue(r)
  PROVE  /\ Alone(r) /\ \A q \in Procs \ {r} : st'[q] = st[q]
         /\ st[r].pc = "idle" /\ st'[r].pc = "next" /\ st'[r].late = FALSE /\ st'[r].done = FALSE
         /\ lock' = lock
<1> DEFINE e == [Idle EXCEPT !.pc = "next", !.jobs = queue]
<1>1. st' = [st EXCEPT ![r] = e] /\ st[r].pc = "idle" /\ lock' = lock
  BY DEF RunQueue, At, locks
<1>2. DOMAIN e = Fields /\ e.pc = "next" /\ e.late = FALSE /\ e.done = FALSE
  BY IdleIs, FieldNames
<1> HIDE DEF e
<1>3. Alone(r) /\ st'[r] = e /\ \A q \in Procs \ {r} : st'[q] = st[q]
  BY <1>1, <1>2, AloneIs, Sides
<1> QED BY <1>1, <1>2, <1>3

LEMMA NextJobIs ==
  ASSUME States, NEW r \in Runners, NextJob(r)
  PROVE  /\ Alone(r) /\ \A q \in Procs \ {r} : st'[q] = st[q]
         /\ st[r].pc = "next" /\ st'[r].pc = "lock" /\ st'[r].late = FALSE /\ st'[r].done = FALSE
         /\ st'[r].at = Min(st[r].jobs \cap queue)
         /\ lock' = lock
<1> DEFINE job == Min(st[r].jobs \cap queue)
           rest == { j \in st[r].jobs : j > job }
           e == [Idle EXCEPT !.pc = "lock", !.at = job, !.jobs = rest]
<1>1. st' = [st EXCEPT ![r] = e] /\ st[r].pc = "next" /\ lock' = lock
  BY DEF NextJob, At, locks
<1> HIDE DEF job, rest
<1>2. DOMAIN e = Fields /\ e.pc = "lock" /\ e.late = FALSE /\ e.done = FALSE /\ e.at = job
  BY IdleIs, FieldNames
<1> HIDE DEF e
<1>3. Alone(r) /\ st'[r] = e /\ \A q \in Procs \ {r} : st'[q] = st[q]
  BY <1>1, <1>2, AloneIs, Sides
<1> QED BY <1>1, <1>2, <1>3 DEF job

(* A process that ends.                                                    *)
Ended(p) ==
  /\ Alone(p) /\ \A q \in Procs \ {p} : st'[q] = st[q]
  /\ st'[p].pc = "idle" /\ st'[p].late = FALSE /\ st'[p].done = FALSE /\ st'[p].pos = 1

LEMMA EndedIs ==
  ASSUME States, NEW p \in Procs, st' = [st EXCEPT ![p] = Idle]
  PROVE  Ended(p)
<1>1. Alone(p) /\ st'[p] = Idle /\ \A q \in Procs \ {p} : st'[q] = st[q]
  BY IdleIs, AloneIs
<1> QED BY <1>1, IdleIs DEF Ended

LEMMA QueueDoneIs ==
  ASSUME States, NEW r \in Runners, QueueDone(r)
  PROVE  Ended(r) /\ st[r].pc = "next" /\ lock' = lock
BY EndedIs, Sides DEF QueueDone, At, locks

LEMMA KillIs ==
  ASSUME States, NEW p \in Procs, Kill(p)
  PROVE  Ended(p) /\ lock' = IF lock.by = p THEN [lock EXCEPT !.by = None] ELSE lock
BY EndedIs DEF Kill

(* The number of a new file, unless the text is gone.                      *)
LEMMA ExportPathIs ==
  ASSUME States, NEW r \in Runners, ExportPath(r)
  PROVE  /\ Alone(r) /\ \A q \in Procs \ {r} : st'[q] = st[q]
         /\ st[r].pc = "path" /\ st'[r].pc \in {"put", "free"}
         /\ st'[r].at = st[r].at /\ st'[r].done = st[r].done /\ st'[r].late = st[r].late
         /\ st'[r].pc = "put" =>
              /\ st[r].at \in Existing
              /\ st'[r].file = MaxFile + 1
              /\ LET com == texts[st[r].at].com
                 IN  st'[r].reply = IF com = 0 THEN NoId
                                    ELSE IF com \in Existing /\ texts[com].id # NoId
                                         THEN texts[com].id ELSE Own(com)
         /\ lock' = lock
<1> DEFINE n == st[r].at
           com == texts[n].com
           stored == IF com \in Existing /\ texts[com].id # NoId THEN texts[com].id ELSE Own(com)
           f == MaxFile + 1
           to == IF com = 0 THEN NoId ELSE stored
           e == [st[r] EXCEPT !.pc = "put", !.file = f, !.reply = to]
<1>0. DOMAIN st[r] = Fields
  BY Sides DEF States
<1>1. /\ st[r].pc = "path" /\ lock' = lock
      /\ \/ n \in Existing /\ st' = [st EXCEPT ![r] = e]
         \/ Goto(r, "free")
  BY DEF ExportPath, At, locks
<1>2. CASE Goto(r, "free")
  <2>1. GoesTo(r, "free")
    BY <1>2, GotoGoes, Sides
  <2> QED BY <1>1, <2>1 DEF GoesTo
<1>3. CASE n \in Existing /\ st' = [st EXCEPT ![r] = e]
  <2> HIDE DEF f, to
  <2>1. /\ DOMAIN e = Fields /\ e.pc = "put" /\ e.file = f /\ e.reply = to /\ e.at = st[r].at
        /\ e.done = st[r].done /\ e.late = st[r].late
    BY <1>0, FieldNames
  <2> HIDE DEF e
  <2>2. Alone(r) /\ st'[r] = e /\ \A q \in Procs \ {r} : st'[q] = st[q]
    BY <1>3, <2>1, AloneIs, Sides
  <2> QED BY <1>1, <1>3, <2>1, <2>2 DEF f, to
<1> QED BY <1>1, <1>2, <1>3

LEMMA ExportPutIs ==
  ASSUME States, NEW r \in Runners, ExportPut(r)
  PROVE  /\ Alone(r) /\ \A q \in Procs \ {r} : st'[q] = st[q]
         /\ st[r].pc = "put" /\ st'[r].pc = "free" /\ st'[r].done = TRUE
         /\ st'[r].at = st[r].at /\ st'[r].late = st[r].late
         /\ lock' = lock
<1> DEFINE e == [st[r] EXCEPT !.pc = "free", !.done = TRUE]
<1>0. DOMAIN st[r] = Fields
  BY Sides DEF States
<1>1. st' = [st EXCEPT ![r] = e] /\ st[r].pc = "put" /\ lock' = lock
  BY DEF ExportPut, At, locks
<1>2. /\ DOMAIN e = Fields /\ e.pc = "free" /\ e.done = TRUE /\ e.at = st[r].at
      /\ e.late = st[r].late
  BY <1>0, FieldNames
<1> HIDE DEF e
<1>3. Alone(r) /\ st'[r] = e /\ \A q \in Procs \ {r} : st'[q] = st[q]
  BY <1>1, <1>2, AloneIs, Sides
<1> QED BY <1>1, <1>2, <1>3

-----------------------------------------------------------------------------
(* One process at a time is past the lock.                                 *)
LInv == States /\ Owner

LEMMA OneHolds ==
  ASSUME Owner, NEW p \in Procs, NEW q \in Procs, st[p].pc \in Holding, st[q].pc \in Holding
  PROVE  p = q
BY DEF Owner

LEMMA HoldingIs ==
  /\ "scan" \in Holding /\ "path" \in Holding /\ "index" \in Holding /\ "loop" \in Holding
  /\ "write" \in Holding /\ "link" \in Holding /\ "free" \in Holding /\ "put" \in Holding
  /\ "idle" \notin Holding /\ "lock" \notin Holding /\ "warn" \notin Holding
  /\ "mail" \notin Holding /\ "next" \notin Holding /\ "rm" \notin Holding
BY DEF Holding

LEMMA LocksInit == Init => LInv
<1> SUFFICES ASSUME Init PROVE LInv
  OBVIOUS
<1>0. None \notin Procs
  BY ProcsAssumption
<1>1. /\ lock = [held |-> FALSE, by |-> None, old |-> FALSE]
      /\ st = [p \in Procs |-> Idle]
  BY DEF Init
<1>2. \A p \in Procs : DOMAIN st[p] = Fields /\ st[p].pc = "idle"
  BY <1>1, IdleIs
<1>3. \A p \in Procs : ~ (lock.by = p) /\ st[p].pc \notin Holding
  BY <1>0, <1>1, <1>2, HoldingIs
<1>4. lock.held \/ (lock.by = None /\ ~lock.old)
  BY <1>1
<1>5. lock \in [held : BOOLEAN, by : Procs \cup {None}, old : BOOLEAN]
  BY <1>1
<1>6. "idle" \in TossAt /\ "idle" \in RunAt
  BY DEF TossAt, RunAt
<1>7. States
  BY <1>1, <1>2, <1>5, <1>6, Sides DEF States
<1> QED BY <1>3, <1>4, <1>7 DEF LInv, Owner

(* Steps of nobody: processes and the lock's owner stay as they are.       *)
LEMMA NobodyMoves ==
  ASSUME LInv, st' = st, Keeps,
         lock' \in [held : BOOLEAN, by : Procs \cup {None}, old : BOOLEAN]
  PROVE  LInv'
<1>1. Fields' = Fields
  BY FieldNames DEF Fields, Idle
<1> QED BY <1>1 DEF LInv, States, Owner, Keeps

LEMMA LockStays ==
  ASSUME LInv, lock' = lock
  PROVE  Keeps /\ lock' \in [held : BOOLEAN, by : Procs \cup {None}, old : BOOLEAN]
BY DEF LInv, States, Owner, Keeps

(* A step of p that leaves the lock as it is.                              *)
LEMMA StaysOnItsSide ==
  ASSUME LInv, NEW p \in Procs, Alone(p), lock' = lock,
         p \in Tossers => st'[p].pc \in TossAt,
         p \in Runners => st'[p].pc \in RunAt,
         st[p].pc \in Holding <=> st'[p].pc \in Holding
  PROVE  LInv'
<1>1. Keeps /\ lock' \in [held : BOOLEAN, by : Procs \cup {None}, old : BOOLEAN]
  BY LockStays
<1>2. States'
  BY <1>1, StatesGoOn DEF LInv
<1>3. Owner'
  BY <1>1, OwnerGoesOn DEF LInv
<1> QED BY <1>2, <1>3 DEF LInv

LEMMA AcquireLocks ==
  ASSUME LInv, NEW p \in Procs, Acquire(p) PROVE LInv'
<1>1. /\ Alone(p) /\ st[p].pc = "lock" /\ st'[p].pc = IF p \in Runners THEN "path" ELSE "scan"
      /\ ~lock.held /\ lock' = [held |-> TRUE, by |-> p, old |-> FALSE]
  BY AcquireIs DEF LInv
<1>2. lock' \in [held : BOOLEAN, by : Procs \cup {None}, old : BOOLEAN]
  BY <1>1, LockType DEF LInv
<1>3. Takes(p)
  BY <1>1 DEF Takes, LInv, Owner
<1>4. /\ p \in Tossers => st'[p].pc \in TossAt
      /\ p \in Runners => st'[p].pc \in RunAt
      /\ st[p].pc \notin Holding /\ st'[p].pc \in Holding
  BY <1>1, Sides, HoldingIs DEF TossAt, RunAt
<1>5. States'
  BY <1>1, <1>2, <1>4, StatesGoOn DEF LInv
<1>6. Owner'
  BY <1>1, <1>3, <1>4, OwnerGoesOn DEF LInv
<1> QED BY <1>5, <1>6 DEF LInv

LEMMA ReleaseLocks ==
  ASSUME LInv, NEW p \in Procs, Release(p) PROVE LInv'
<1>1. /\ Alone(p) /\ st[p].pc = "free"
      /\ p \in Tossers => st'[p].pc = "idle"
      /\ p \in Runners => st'[p].pc = IF st[p].done THEN "rm" ELSE "next"
      /\ lock' = [held |-> FALSE, by |-> None, old |-> FALSE]
  BY ReleaseIs DEF LInv
<1>2. lock' \in [held : BOOLEAN, by : Procs \cup {None}, old : BOOLEAN]
  BY <1>1, LockType DEF LInv
<1>3. Frees(p)
  BY <1>1, HoldingIs DEF Frees, LInv, Owner
<1>4. /\ p \in Tossers => st'[p].pc \in TossAt
      /\ p \in Runners => st'[p].pc \in RunAt
      /\ st[p].pc \in Holding /\ st'[p].pc \notin Holding
  BY <1>1, Sides, HoldingIs DEF TossAt, RunAt
<1>5. States'
  BY <1>1, <1>2, <1>4, StatesGoOn DEF LInv
<1>6. Owner'
  BY <1>1, <1>3, <1>4, OwnerGoesOn DEF LInv
<1> QED BY <1>5, <1>6 DEF LInv

LEMMA KillLocks ==
  ASSUME LInv, NEW p \in Procs, Kill(p) PROVE LInv'
<1>1. /\ Ended(p) /\ lock' = IF lock.by = p THEN [lock EXCEPT !.by = None] ELSE lock
  BY KillIs DEF LInv
<1>2. Alone(p) /\ st'[p].pc = "idle"
  BY <1>1 DEF Ended
<1>3. lock' \in [held : BOOLEAN, by : Procs \cup {None}, old : BOOLEAN]
  BY <1>1, LockType DEF LInv
<1>4. /\ p \in Tossers => st'[p].pc \in TossAt
      /\ p \in Runners => st'[p].pc \in RunAt
      /\ st'[p].pc \notin Holding
  BY <1>2, HoldingIs DEF TossAt, RunAt
<1>5. States'
  BY <1>2, <1>3, <1>4, StatesGoOn DEF LInv
<1>6. Owner'
  <2>0. lock \in [held : BOOLEAN, by : Procs \cup {None}, old : BOOLEAN] /\ None \notin Procs
    BY ProcsAssumption DEF LInv, States
  <2>1. CASE lock.by = p
    <3>1. lock' = [lock EXCEPT !.by = None]
      BY <1>1, <2>1
    <3>2. lock'.by = None /\ lock'.held = lock.held
      BY <2>0, <3>1
    <3>3. lock.held
      BY <2>0, <2>1 DEF LInv, Owner
    <3>4. Frees(p) /\ st[p].pc \in Holding
      BY <2>1, <3>2, <3>3 DEF Frees, LInv, Owner
    <3> QED BY <1>2, <1>4, <3>4, OwnerGoesOn DEF LInv
  <2>2. CASE lock.by # p
    <3>1. Keeps /\ st[p].pc \notin Holding
      BY <1>1, <2>2 DEF Keeps, LInv, Owner
    <3> QED BY <1>2, <1>4, <3>1, OwnerGoesOn DEF LInv
  <2> QED BY <2>1, <2>2
<1> QED BY <1>5, <1>6 DEF LInv

LEMMA BusyLocks ==
  ASSUME LInv, NEW p \in Procs, Busy(p) PROVE LInv'
<1>1. Alone(p) /\ st[p].pc = "lock" /\ st'[p].pc \in {"warn", Refused(p)} /\ lock' = lock
  BY BusyIs DEF LInv
<1>2. /\ p \in Tossers => st'[p].pc \in {"warn", "idle"}
      /\ p \in Runners => st'[p].pc \in {"warn", "next"}
      /\ p \in Tossers \/ p \in Runners
  BY <1>1, RefusedIs, Sides
<1>3. /\ p \in Tossers => st'[p].pc \in TossAt
      /\ p \in Runners => st'[p].pc \in RunAt
      /\ st[p].pc \in Holding <=> st'[p].pc \in Holding
  BY <1>1, <1>2, HoldingIs DEF TossAt, RunAt
<1> QED BY <1>1, <1>3, StaysOnItsSide

LEMMA MailLocks ==
  ASSUME LInv, NEW p \in Procs, Mark(p) \/ SendLockMail(p) PROVE LInv'
<1>1. /\ st[p].pc \in {"warn", "mail"} /\ lock' = lock
      /\ Goto(p, "mail") \/ Goto(p, Refused(p))
  BY DEF Mark, SendLockMail, At, locks
<1>2. Alone(p) /\ st'[p].pc \in {"mail", Refused(p)}
  BY <1>1, GotoIs DEF LInv
<1>3. /\ p \in Tossers => st'[p].pc \in {"mail", "idle"}
      /\ p \in Runners => st'[p].pc \in {"mail", "next"}
      /\ p \in Tossers \/ p \in Runners
  BY <1>2, RefusedIs, Sides
<1>4. /\ p \in Tossers => st'[p].pc \in TossAt
      /\ p \in Runners => st'[p].pc \in RunAt
      /\ st[p].pc \in Holding <=> st'[p].pc \in Holding
  BY <1>1, <1>3, HoldingIs DEF TossAt, RunAt
<1> QED BY <1>1, <1>2, <1>4, StaysOnItsSide

(* An import goes on, with the lock.                                       *)
LEMMA ImportLocks ==
  ASSUME LInv, NEW p \in Tossers, Start(p) \/ Import(p) \/ Index(p) \/ ImportFails(p)
  PROVE  LInv'
<1>1. /\ Alone(p) /\ lock' = lock
      /\ \/ st[p].pc = "idle" /\ st'[p].pc = "lock"
         \/ /\ st[p].pc \in {"scan", "index", "loop", "write", "link"}
            /\ st'[p].pc \in {"index", "loop", "write", "link", "free"}
  <2>1. CASE Start(p)
    BY <2>1, StartIs DEF LInv
  <2>2. CASE Scan(p)
    BY <2>2, ScanGoes DEF LInv
  <2>3. CASE Count(p)
    BY <2>3, CountIs DEF LInv
  <2>4. CASE WriteText(p)
    <3>1. Goto(p, "link") /\ st[p].pc = "write" /\ lock' = lock
      BY <2>4 DEF WriteText, At, locks
    <3> QED BY <3>1, GotoIs, Sides DEF LInv
  <2>5. CASE Link(p)
    BY <2>5, LinkGoes DEF LInv
  <2>6. CASE Pass(p)
    BY <2>6, PassIs DEF LInv
  <2>7. CASE Index(p)
    BY <2>7, IndexIs DEF LInv
  <2>8. CASE ImportFails(p)
    <3>1. Goto(p, "free") /\ st[p].pc \in {"loop", "write", "link"} /\ lock' = lock
      BY <2>8 DEF ImportFails, At, locks
    <3> QED BY <3>1, GotoIs, Sides DEF LInv
  <2> QED BY <2>1, <2>2, <2>3, <2>4, <2>5, <2>6, <2>7, <2>8 DEF Import
<1>2. p \in Procs /\ p \notin Runners
  BY Sides
<1>3. st'[p].pc \in TossAt /\ (st[p].pc \in Holding <=> st'[p].pc \in Holding)
  BY <1>1, HoldingIs DEF TossAt
<1> QED BY <1>1, <1>2, <1>3, StaysOnItsSide

LEMMA ExportLocks ==
  ASSUME LInv, NEW r \in Runners, Export(r) \/ ExportFails(r)
  PROVE  LInv'
<1>1. /\ Alone(r) /\ lock' = lock
      /\ \/ st[r].pc \in {"idle", "next", "rm"} /\ st'[r].pc \in {"idle", "lock", "next"}
         \/ st[r].pc \in {"path", "put"} /\ st'[r].pc \in {"put", "free"}
  <2>1. CASE RunQueue(r)
    BY <2>1, RunQueueIs DEF LInv
  <2>2. CASE NextJob(r)
    BY <2>2, NextJobIs DEF LInv
  <2>3. CASE QueueDone(r)
    BY <2>3, QueueDoneIs DEF LInv, Ended
  <2>4. CASE ExportPath(r)
    BY <2>4, ExportPathIs DEF LInv
  <2>5. CASE ExportPut(r)
    BY <2>5, ExportPutIs DEF LInv
  <2>6. CASE RemoveJob(r)
    <3>1. Goto(r, "next") /\ st[r].pc = "rm" /\ lock' = lock
      BY <2>6 DEF RemoveJob, At, locks
    <3> QED BY <3>1, GotoIs, Sides DEF LInv
  <2>7. CASE ExportFails(r)
    <3>1. Goto(r, "free") /\ st[r].pc \in {"path", "put"} /\ lock' = lock
      BY <2>7 DEF ExportFails, locks
    <3> QED BY <3>1, GotoIs, Sides DEF LInv
  <2> QED BY <2>1, <2>2, <2>3, <2>4, <2>5, <2>6, <2>7 DEF Export
<1>2. r \in Procs /\ r \notin Tossers
  BY Sides
<1>3. st'[r].pc \in RunAt /\ (st[r].pc \in Holding <=> st'[r].pc \in Holding)
  BY <1>1, HoldingIs DEF RunAt
<1> QED BY <1>1, <1>2, <1>3, StaysOnItsSide

(* Sessions, CrashMail, the clock and the operator.                        *)
Others ==
  \/ SaveText \/ Arrive \/ Age \/ RemoveLock
  \/ \E n \in 1 .. last : QueueExport(n) \/ SessionEnds(n) \/ DeleteText(n)
  \/ \E r \in Runners : SignalRunner(r)

LEMMA OthersLocks == ASSUME LInv, Others PROVE LInv'
<1>0. lock \in [held : BOOLEAN, by : Procs \cup {None}, old : BOOLEAN]
  BY DEF LInv, States
<1>1. CASE Age
  <2>1. st' = st /\ lock' = [lock EXCEPT !.old = TRUE] /\ lock.held
    BY <1>1 DEF Age
  <2>2. lock' \in [held : BOOLEAN, by : Procs \cup {None}, old : BOOLEAN] /\ Keeps
    BY <1>0, <2>1 DEF Keeps
  <2> QED BY <2>1, <2>2, NobodyMoves
<1>2. CASE RemoveLock
  <2>1. /\ st' = st /\ lock' = [held |-> FALSE, by |-> None, old |-> FALSE] /\ lock.by = None
    BY <1>2 DEF RemoveLock
  <2>2. lock' \in [held : BOOLEAN, by : Procs \cup {None}, old : BOOLEAN] /\ Keeps
    BY <2>1 DEF Keeps
  <2> QED BY <2>1, <2>2, NobodyMoves
<1>3. ASSUME ~ Age, ~ RemoveLock
      PROVE  LInv'
  <2>1. st' = st /\ lock' = lock
    <3>1. CASE SaveText
      BY <3>1 DEF SaveText, locks
    <3>2. CASE Arrive
      BY <3>2 DEF Arrive, locks
    <3>3. ASSUME NEW n \in 1 .. last, QueueExport(n) \/ SessionEnds(n) \/ DeleteText(n)
          PROVE  st' = st /\ lock' = lock
      BY <3>3 DEF QueueExport, SessionEnds, DeleteText, locks
    <3>4. ASSUME NEW r \in Runners, SignalRunner(r) PROVE st' = st /\ lock' = lock
      BY <3>4 DEF SignalRunner, locks
    <3> QED BY <1>3, <3>1, <3>2, <3>3, <3>4 DEF Others
  <2> QED BY <2>1, LockStays, NobodyMoves
<1> QED BY <1>1, <1>2, <1>3

LEMMA NextIs ==
  ASSUME Next
  PROVE  \/ Others
         \/ \E p \in Procs : Step(p) \/ Kill(p)
         \/ \E p \in Tossers : Start(p) \/ Import(p) \/ Index(p) \/ ImportFails(p)
         \/ \E r \in Runners : Export(r) \/ ExportFails(r)
BY DEF Next, Others

LEMMA LocksNext == LInv /\ [Next]_vars => LInv'
<1> SUFFICES ASSUME LInv, [Next]_vars PROVE LInv'
  OBVIOUS
<1>1. CASE UNCHANGED vars
  <2>1. st' = st /\ lock' = lock
    BY <1>1 DEF vars, locks
  <2> QED BY <2>1, LockStays, NobodyMoves
<1>2. CASE Next
  <2>1. CASE Others
    BY <2>1, OthersLocks
  <2>2. ASSUME NEW p \in Procs, Step(p) \/ Kill(p) PROVE LInv'
    BY <2>2, AcquireLocks, BusyLocks, MailLocks, ReleaseLocks, KillLocks DEF Step
  <2>3. ASSUME NEW p \in Tossers, Start(p) \/ Import(p) \/ Index(p) \/ ImportFails(p) PROVE LInv'
    BY <2>3, ImportLocks
  <2>4. ASSUME NEW r \in Runners, Export(r) \/ ExportFails(r) PROVE LInv'
    BY <2>4, ExportLocks
  <2> QED BY <1>2, <2>1, <2>2, <2>3, <2>4, NextIs
<1> QED BY <1>1, <1>2

-----------------------------------------------------------------------------
(* Who is about to mail.                                                   *)
WInv == LInv /\ Warned

LEMMA MailingFinite ==
  /\ IsFiniteSet(Mailing) /\ Cardinality(Mailing) \in Nat
<1>1. Mailing \subseteq Procs /\ IsFiniteSet(Procs)
  BY ProcsAssumption DEF Mailing
<1> QED BY <1>1, FS_Subset, FS_CardinalityType

(* Nobody new is about to mail.                                            *)
LEMMA FewerMail ==
  ASSUME Warned, Mailing' \subseteq Mailing
  PROVE  /\ Cardinality(Mailing') \in Nat
         /\ Cardinality(Mailing') <= Cardinality(Mailing)
BY MailingFinite, FS_Subset, FS_CardinalityType

LEMMA WarnedGoesOn ==
  ASSUME Warned, Mailing' \subseteq Mailing, marker' = marker, mails' = mails, failed' = failed,
         \A p \in Procs : st'[p].late \in BOOLEAN
  PROVE  Warned'
<1>1. /\ Cardinality(Mailing') \in Nat /\ Cardinality(Mailing) \in Nat
      /\ Cardinality(Mailing') <= Cardinality(Mailing)
  BY FewerMail, MailingFinite
<1>2. (Cardinality(Mailing))' = Cardinality(Mailing')
  OBVIOUS
<1> DEFINE c == Cardinality(Mailing)
           d == Cardinality(Mailing')
           w == IF marker THEN 1 ELSE 0
<1>3. mails + c <= w + failed /\ mails \in Nat /\ failed \in Nat /\ w \in Nat /\ marker \in BOOLEAN
  BY DEF Warned
<1>4. mails + d <= w + failed
  <2> HIDE DEF c, d, w
  <2> QED BY <1>1, <1>3 DEF c, d
<1> QED BY <1>3, <1>4 DEF Warned

(* A step of p after which p is not about to mail.                         *)
LEMMA NotMailing ==
  ASSUME LInv, Warned, NEW p \in Procs, Alone(p), st'[p].pc # "mail", st'[p].late \in BOOLEAN,
         \A q \in Procs \ {p} : st'[q] = st[q],
         marker' = marker, mails' = mails, failed' = failed
  PROVE  Warned'
<1>1. Mailing' \subseteq Mailing
  BY DEF Mailing, At
<1>2. \A q \in Procs : st'[q].late \in BOOLEAN
  BY DEF Warned
<1> QED BY <1>1, <1>2, WarnedGoesOn

(* A new lock: whoever was about to mail comes late.                       *)
LEMMA AcquireWarned ==
  ASSUME LInv, Warned, NEW p \in Procs, Acquire(p) PROVE Warned'
<1>1. /\ st'[p].pc = IF p \in Runners THEN "path" ELSE "scan"
      /\ st'[p].late = st[p].late
      /\ \A q \in Procs \ {p} : st'[q].late = (st[q].late \/ st[q].pc \in {"warn", "mail"})
      /\ \A q \in Procs \ {p} : st'[q].pc = st[q].pc
  BY AcquireIs DEF LInv, Alone, Rests
<1>2. Mailing' = {}
  <2>1. ASSUME NEW q \in Procs, st'[q].pc = "mail" PROVE st'[q].late
    BY <1>1, <2>1
  <2> QED BY <2>1 DEF Mailing, At
<1>3. marker' = FALSE /\ mails' = 0 /\ failed' = failed /\ failed \in Nat
  BY DEF Acquire, Warned
<1>4. \A q \in Procs : st'[q].late \in BOOLEAN
  <2>1. ASSUME NEW q \in Procs PROVE st'[q].late \in BOOLEAN
    BY <1>1 DEF Warned
  <2> QED BY <2>1
<1>5. Cardinality(Mailing') = 0
  BY <1>2, FS_EmptySet
<1>6. mails' + Cardinality(Mailing') <= (IF marker' THEN 1 ELSE 0) + failed'
  BY <1>3, <1>5
<1> QED BY <1>3, <1>4, <1>6 DEF Warned

(* Only one finds no marker.                                               *)
LEMMA MarkWarned ==
  ASSUME LInv, Warned, NEW p \in Procs, Mark(p) PROVE Warned'
<1>0. /\ marker' = TRUE /\ mails' = mails /\ failed' = failed /\ st[p].pc = "warn"
      /\ Goto(p, IF marker THEN Refused(p) ELSE "mail")
  BY DEF Mark, At
<1> DEFINE v == IF marker THEN Refused(p) ELSE "mail"
<1>1. GoesTo(p, v)
  BY <1>0, GotoGoes DEF LInv
<1>2. \A q \in Procs : st'[q].late \in BOOLEAN /\ st'[q].late = st[q].late
  BY <1>1 DEF GoesTo, Warned
<1>3. /\ mails \in Nat /\ failed \in Nat /\ marker \in BOOLEAN
      /\ mails + Cardinality(Mailing) <= (IF marker THEN 1 ELSE 0) + failed
  BY DEF Warned
<1>4. Cardinality(Mailing) \in Nat /\ IsFiniteSet(Mailing)
  BY MailingFinite
<1>5. CASE marker
  <2>1. v \in RefusedAt
    BY <1>5, RefusedIs
  <2>2. st'[p].pc # "mail"
    BY <1>1, <2>1 DEF GoesTo, RefusedAt
  <2>3. Mailing' \subseteq Mailing
    BY <1>1, <2>2 DEF GoesTo, Mailing, At
  <2>4. Cardinality(Mailing') <= Cardinality(Mailing) /\ Cardinality(Mailing') \in Nat
    BY <2>3, FewerMail
  <2>5. mails + Cardinality(Mailing') <= 1 + failed
    BY <1>3, <1>4, <1>5, <2>4
  <2> QED BY <1>0, <1>2, <1>3, <2>5 DEF Warned
<1>6. CASE ~ marker
  <2>1. Mailing' \subseteq Mailing \cup {p}
    BY <1>1 DEF GoesTo, Mailing, At
  <2>2. /\ IsFiniteSet(Mailing \cup {p})
        /\ Cardinality(Mailing \cup {p}) = IF p \in Mailing THEN Cardinality(Mailing)
                                           ELSE Cardinality(Mailing) + 1
    BY <1>4, FS_AddElement
  <2>3. Cardinality(Mailing') <= Cardinality(Mailing \cup {p})
    BY <2>1, <2>2, FS_Subset
  <2>4. Cardinality(Mailing') \in Nat
    BY <2>1, <2>2, FS_Subset, FS_CardinalityType
  <2>5. mails + Cardinality(Mailing') <= 1 + failed
    BY <1>3, <1>4, <1>6, <2>2, <2>3, <2>4
  <2> QED BY <1>0, <1>2, <1>3, <2>5 DEF Warned
<1> QED BY <1>3, <1>5, <1>6

LEMMA SendWarned ==
  ASSUME LInv, Warned, NEW p \in Procs, SendLockMail(p) PROVE Warned'
<1>0. /\ st[p].pc = "mail" /\ Goto(p, Refused(p))
      /\ \/ mails' = (IF st[p].late THEN mails ELSE mails + 1) /\ marker' = marker /\ failed' = failed
         \/ failed' = failed + 1 /\ marker' = FALSE /\ mails' = mails
  BY DEF SendLockMail, At
<1>1. GoesTo(p, Refused(p)) /\ Refused(p) \in RefusedAt
  BY <1>0, GotoGoes, RefusedIs DEF LInv
<1>2. \A q \in Procs : st'[q].late \in BOOLEAN /\ st'[q].late = st[q].late
  BY <1>1 DEF GoesTo, Warned
<1>3. /\ mails \in Nat /\ failed \in Nat /\ marker \in BOOLEAN
      /\ mails + Cardinality(Mailing) <= (IF marker THEN 1 ELSE 0) + failed
  BY DEF Warned
<1>4. Cardinality(Mailing) \in Nat /\ IsFiniteSet(Mailing)
  BY MailingFinite
<1>5. Mailing' = Mailing \ {p}
  <2>1. st'[p].pc # "mail"
    BY <1>1 DEF GoesTo, RefusedAt
  <2> QED BY <1>1, <2>1 DEF GoesTo, Mailing, At
<1>6. Cardinality(Mailing') = IF st[p].late THEN Cardinality(Mailing) ELSE Cardinality(Mailing) - 1
  <2>1. p \in Mailing <=> ~ st[p].late
    BY <1>0 DEF Mailing, At
  <2>2. Cardinality(Mailing \ {p}) = IF p \in Mailing THEN Cardinality(Mailing) - 1
                                     ELSE Cardinality(Mailing)
    BY <1>4, FS_RemoveElement
  <2> QED BY <1>5, <2>1, <2>2
<1>7. Cardinality(Mailing') \in Nat
  BY <1>4, <1>5, FS_RemoveElement, FS_CardinalityType
<1> DEFINE c == Cardinality(Mailing)
           d == Cardinality(Mailing')
<1>9. c \in Nat /\ d \in Nat /\ d = IF st[p].late THEN c ELSE c - 1
  BY <1>4, <1>6, <1>7
<1>8. /\ mails' \in Nat /\ failed' \in Nat /\ marker' \in BOOLEAN
      /\ mails' + d <= (IF marker' THEN 1 ELSE 0) + failed'
  <2>1. mails + c <= (IF marker THEN 1 ELSE 0) + failed
    BY <1>3
  <2> HIDE DEF c, d
  <2>2. CASE mails' = (IF st[p].late THEN mails ELSE mails + 1) /\ marker' = marker /\ failed' = failed
    BY <1>3, <1>9, <2>1, <2>2
  <2>3. CASE failed' = failed + 1 /\ marker' = FALSE /\ mails' = mails
    <3>1. d <= c
      BY <1>9
    <3>2. mails + c <= 1 + failed
      BY <1>3, <1>9, <2>1
    <3>3. mails + d <= 0 + (failed + 1)
      BY <1>3, <1>9, <3>1, <3>2
    <3>4. (IF marker' THEN 1 ELSE 0) = 0 /\ marker' \in BOOLEAN
      BY <2>3
    <3>5. mails' \in Nat /\ failed' \in Nat /\ mails' + d <= 0 + failed'
      BY <1>3, <2>3, <3>3
    <3> QED BY <3>4, <3>5
  <2> QED BY <1>0, <2>2, <2>3
<1> QED BY <1>2, <1>8 DEF Warned

LEMMA OthersWarned ==
  ASSUME LInv, Warned, st' = st, marker' = marker, mails' = mails, failed' = failed PROVE Warned'
<1>1. Mailing' = Mailing
  BY DEF Mailing, At
<1> QED BY <1>1 DEF Warned

(* The rest of the program does not touch the warnings.                    *)
LEMMA ProgramWarned ==
  ASSUME LInv, Warned, NEW p \in Procs, Alone(p), \A q \in Procs \ {p} : st'[q] = st[q],
         st'[p].pc # "mail", st'[p].late = FALSE \/ st'[p].late = st[p].late,
         marker' = marker, mails' = mails, failed' = failed
  PROVE  Warned'
<1>1. st'[p].late \in BOOLEAN
  BY DEF Warned
<1> QED BY <1>1, NotMailing

LEMMA ImportWarned ==
  ASSUME LInv, Warned, NEW p \in Tossers, Start(p) \/ Import(p) \/ Index(p) \/ ImportFails(p)
  PROVE  Warned'
<1>1. marker' = marker /\ mails' = mails /\ failed' = failed
  BY DEF Start, Import, Scan, Count, WriteText, Link, Pass, Index, ImportFails, locks
<1>2. /\ Alone(p) /\ \A q \in Procs \ {p} : st'[q] = st[q]
      /\ st'[p].pc # "mail" /\ (st'[p].late = FALSE \/ st'[p].late = st[p].late)
  <2>1. CASE Start(p)
    BY <2>1, StartIs DEF LInv
  <2>2. CASE Scan(p)
    BY <2>2, ScanGoes DEF LInv
  <2>3. CASE Count(p)
    BY <2>3, CountIs DEF LInv
  <2>4. CASE WriteText(p)
    BY <2>4, GotoGoes, Sides DEF LInv, WriteText, GoesTo
  <2>5. CASE Link(p)
    BY <2>5, LinkGoes DEF LInv
  <2>6. CASE Pass(p)
    BY <2>6, PassIs DEF LInv
  <2>7. CASE Index(p)
    BY <2>7, IndexIs DEF LInv
  <2>8. CASE ImportFails(p)
    BY <2>8, GotoGoes, Sides DEF LInv, ImportFails, GoesTo
  <2> QED BY <2>1, <2>2, <2>3, <2>4, <2>5, <2>6, <2>7, <2>8 DEF Import
<1> QED BY <1>1, <1>2, ProgramWarned, Sides

LEMMA ExportWarned ==
  ASSUME LInv, Warned, NEW r \in Runners, Export(r) \/ ExportFails(r)
  PROVE  Warned'
<1>1. marker' = marker /\ mails' = mails /\ failed' = failed
  BY DEF Export, RunQueue, NextJob, QueueDone, ExportPath, ExportPut, RemoveJob, ExportFails, locks
<1>2. /\ Alone(r) /\ \A q \in Procs \ {r} : st'[q] = st[q]
      /\ st'[r].pc # "mail" /\ (st'[r].late = FALSE \/ st'[r].late = st[r].late)
  <2>1. CASE RunQueue(r)
    BY <2>1, RunQueueIs DEF LInv
  <2>2. CASE NextJob(r)
    BY <2>2, NextJobIs DEF LInv
  <2>3. CASE QueueDone(r)
    BY <2>3, QueueDoneIs DEF LInv, Ended
  <2>4. CASE ExportPath(r)
    BY <2>4, ExportPathIs DEF LInv
  <2>5. CASE ExportPut(r)
    BY <2>5, ExportPutIs DEF LInv
  <2>6. CASE RemoveJob(r)
    BY <2>6, GotoGoes, Sides DEF LInv, RemoveJob, GoesTo
  <2>7. CASE ExportFails(r)
    BY <2>7, GotoGoes, Sides DEF LInv, ExportFails, GoesTo
  <2> QED BY <2>1, <2>2, <2>3, <2>4, <2>5, <2>6, <2>7 DEF Export
<1> QED BY <1>1, <1>2, ProgramWarned, Sides

LEMMA StepWarned ==
  ASSUME LInv, Warned, NEW p \in Procs, Step(p) \/ Kill(p)
  PROVE  Warned'
<1>1. CASE Acquire(p)
  BY <1>1, AcquireWarned
<1>2. CASE Busy(p)
  <2>1. /\ Alone(p) /\ \A q \in Procs \ {p} : st'[q] = st[q]
        /\ st'[p].pc \in {"warn", Refused(p)} /\ st'[p].late = FALSE
    BY <1>2, BusyIs DEF LInv
  <2>2. st'[p].pc # "mail"
    BY <2>1, RefusedIs DEF RefusedAt
  <2>3. marker' = marker /\ mails' = mails /\ failed' = failed
    BY <1>2 DEF Busy, locks
  <2> QED BY <2>1, <2>2, <2>3, ProgramWarned
<1>3. CASE Mark(p)
  BY <1>3, MarkWarned
<1>4. CASE SendLockMail(p)
  BY <1>4, SendWarned
<1>5. CASE Release(p)
  <2>1. /\ Alone(p) /\ \A q \in Procs \ {p} : st'[q] = st[q]
        /\ st'[p].late = FALSE
        /\ p \in Tossers => st'[p].pc = "idle"
        /\ p \in Runners => st'[p].pc = IF st[p].done THEN "rm" ELSE "next"
    BY <1>5, ReleaseIs DEF LInv
  <2>2. st'[p].pc # "mail"
    BY <2>1, Sides
  <2>3. marker' = marker /\ mails' = mails /\ failed' = failed
    BY <1>5 DEF Release
  <2> QED BY <2>1, <2>2, <2>3, ProgramWarned
<1>6. CASE Kill(p)
  <2>1. Ended(p)
    BY <1>6, KillIs DEF LInv
  <2>2. marker' = marker /\ mails' = mails /\ failed' = failed
    BY <1>6 DEF Kill
  <2> QED BY <2>1, <2>2, ProgramWarned DEF Ended
<1> QED BY <1>1, <1>2, <1>3, <1>4, <1>5, <1>6 DEF Step

LEMMA WarnedInit == Init => Warned
<1> SUFFICES ASSUME Init PROVE Warned
  OBVIOUS
<1>1. marker = FALSE /\ mails = 0 /\ failed = 0 /\ st = [p \in Procs |-> Idle]
  BY DEF Init
<1>2. \A p \in Procs : st[p].late = FALSE /\ st[p].pc = "idle"
  BY <1>1, IdleIs
<1>3. Mailing = {}
  BY <1>2 DEF Mailing, At
<1>4. Cardinality(Mailing) = 0
  BY <1>3, FS_EmptySet
<1>5. mails + Cardinality(Mailing) <= (IF marker THEN 1 ELSE 0) + failed
  BY <1>1, <1>4
<1> QED BY <1>1, <1>2, <1>5 DEF Warned

LEMMA WarnedNext == LInv /\ Warned /\ [Next]_vars => Warned'
<1> SUFFICES ASSUME LInv, Warned, [Next]_vars PROVE Warned'
  OBVIOUS
<1>1. CASE UNCHANGED vars
  BY <1>1, OthersWarned DEF vars, locks
<1>2. CASE Next
  <2>1. CASE Others
    <3>1. st' = st /\ marker' = marker /\ mails' = mails /\ failed' = failed
      <4>1. CASE SaveText \/ Arrive \/ Age \/ RemoveLock
        BY <4>1 DEF SaveText, Arrive, Age, RemoveLock, locks
      <4>2. ASSUME NEW n \in 1 .. last, QueueExport(n) \/ SessionEnds(n) \/ DeleteText(n)
            PROVE  st' = st /\ marker' = marker /\ mails' = mails /\ failed' = failed
        BY <4>2 DEF QueueExport, SessionEnds, DeleteText, locks
      <4>3. ASSUME NEW r \in Runners, SignalRunner(r)
            PROVE  st' = st /\ marker' = marker /\ mails' = mails /\ failed' = failed
        BY <4>3 DEF SignalRunner, locks
      <4> QED BY <2>1, <4>1, <4>2, <4>3 DEF Others
    <3> QED BY <3>1, OthersWarned
  <2>2. ASSUME NEW p \in Procs, Step(p) \/ Kill(p) PROVE Warned'
    BY <2>2, StepWarned
  <2>3. ASSUME NEW p \in Tossers, Start(p) \/ Import(p) \/ Index(p) \/ ImportFails(p) PROVE Warned'
    BY <2>3, ImportWarned
  <2>4. ASSUME NEW r \in Runners, Export(r) \/ ExportFails(r) PROVE Warned'
    BY <2>4, ExportWarned
  <2> QED BY <1>2, <2>1, <2>2, <2>3, <2>4, NextIs
<1> QED BY <1>1, <1>2

(* An old lock is reported once, unless a report could not be mailed,      *)
(* however many commands find it and whoever dies or comes late.           *)
THEOREM ReportedOnce == Spec => []WarnedOnce
<1>1. Init => LInv /\ Warned
  BY LocksInit, WarnedInit
<1>2. LInv /\ Warned /\ [Next]_vars => (LInv /\ Warned)'
  BY LocksNext, WarnedNext
<1>3. LInv /\ Warned => WarnedOnce
  <2> SUFFICES ASSUME Warned PROVE WarnedOnce
    OBVIOUS
  <2>1. /\ mails \in Nat /\ failed \in Nat /\ marker \in BOOLEAN
        /\ mails + Cardinality(Mailing) <= (IF marker THEN 1 ELSE 0) + failed
    BY DEF Warned
  <2>2. Cardinality(Mailing) \in Nat
    BY MailingFinite
  <2> QED BY <2>1, <2>2 DEF WarnedOnce
<1> QED BY <1>1, <1>2, <1>3, PTL DEF Spec

-----------------------------------------------------------------------------
(* Texts, and what an import knows of them.                                *)
DInv == Files /\ Texts /\ Jobs /\ Imports /\ Parents

LEMMA WithIs ==
  ASSUME NEW n, NEW t
  PROVE  /\ DOMAIN With(n, t) = DOMAIN texts \cup {n} /\ With(n, t)[n] = t
         /\ \A k \in DOMAIN texts : k # n => With(n, t)[k] = texts[k]
BY DEF With

(* Texts only come, with new numbers; what is written stays.               *)
Grown ==
  /\ last' \in Nat /\ last <= last'
  /\ \A n \in DOMAIN texts : n \in DOMAIN texts' /\ texts'[n] = texts[n]

LEMMA RefsStay ==
  ASSUME Texts, NEW p \in Tossers, RefsOf(p), Grown,
         st'[p].refs = st[p].refs, st'[p].at = st[p].at, st[p].pc \in Importing
  PROVE  RefsOf(p)'
<1>1. st[p].refs \in Seq(Ref) /\ st[p].at \in 1 .. last
  BY DEF RefsOf
<1>2. st'[p].at \in 1 .. last'
  BY <1>1 DEF Grown, Texts
<1>3. ASSUME NEW i \in DOMAIN st'[p].refs
      PROVE  /\ st'[p].refs[i].num \in DOMAIN texts'
             /\ TextId(texts'[st'[p].refs[i].num], st'[p].refs[i].num) = st'[p].refs[i].id
  BY DEF RefsOf, Grown
<1> QED BY <1>1, <1>2, <1>3 DEF RefsOf

(* What a process that rests has chosen stays chosen.                      *)
LEMMA ItemStays ==
  ASSUME NEW p \in Tossers, st'[p].items = st[p].items, st'[p].pos = st[p].pos,
         st'[p].refs = st[p].refs, st'[p].kind = st[p].kind
  PROVE  Item(p)' = Item(p) /\ Parent(p)' = Parent(p) /\ Unsafe(p)' = Unsafe(p)
BY DEF Item, Parent, Unsafe

LEMMA RestsInImports ==
  ASSUME Texts, NEW p \in Tossers, RefsOf(p), ChosenOf(p), Rests(p), Grown,
         \A n \in DOMAIN texts' : n \in DOMAIN texts \/ n > last
  PROVE  RefsOf(p)' /\ ChosenOf(p)'
<1>0. /\ st'[p].pc = st[p].pc /\ st'[p].kind = st[p].kind /\ st'[p].at = st[p].at
      /\ st'[p].refs = st[p].refs /\ st'[p].items = st[p].items /\ st'[p].pos = st[p].pos
      /\ st'[p].num = st[p].num
  BY DEF Rests
<1>1. Item(p)' = Item(p) /\ Parent(p)' = Parent(p) /\ Unsafe(p)' = Unsafe(p)
  BY <1>0, ItemStays
<1>2. RefsOf(p)'
  <2>1. CASE st[p].pc \in Importing
    BY <1>0, <2>1, RefsStay
  <2>2. CASE st[p].pc \notin Importing
    <3>1. st'[p].pc \notin Importing
      BY <1>0, <2>2
    <3> QED BY <3>1 DEF RefsOf, Importing
  <2> QED BY <2>1, <2>2
<1>3. last \in Nat /\ last' \in Nat /\ last <= last'
  BY DEF Grown, Texts
<1>4. /\ st'[p].pc \in {"loop", "write", "link"} => st'[p].items \in Seq(Msgs)
      /\ st'[p].pos \in Nat \ {0}
  BY <1>0 DEF ChosenOf
<1>5. ASSUME st'[p].pc \in {"write", "link"}
      PROVE  /\ st'[p].pos \in DOMAIN st'[p].items
             /\ Importable(Item(p)', st'[p].refs, Unsafe(p)')
             /\ st'[p].num \in 1 .. last' /\ st'[p].at < st'[p].num
             /\ \A i \in DOMAIN st'[p].refs : st'[p].refs[i].num < st'[p].num
  <2>1. /\ st[p].pos \in DOMAIN st[p].items
        /\ Importable(Item(p), st[p].refs, Unsafe(p))
        /\ st[p].num \in 1 .. last /\ st[p].at < st[p].num
        /\ \A i \in DOMAIN st[p].refs : st[p].refs[i].num < st[p].num
    BY <1>0, <1>5 DEF ChosenOf
  <2>2. st[p].num \in 1 .. last'
    BY <1>3, <2>1
  <2> QED BY <1>0, <1>1, <2>1, <2>2
<1>6. ASSUME st'[p].pc = "write" PROVE st'[p].num \notin DOMAIN texts'
  <2>1. st[p].num \notin DOMAIN texts /\ st[p].num \in 1 .. last
    BY <1>0, <1>6 DEF ChosenOf
  <2>2. ~ (st[p].num > last)
    BY <2>1, <1>3
  <2> QED BY <1>0, <2>1, <2>2
<1>7. ASSUME st'[p].pc = "link"
      PROVE  /\ st'[p].num \in DOMAIN texts'
             /\ texts'[st'[p].num] = [id |-> Item(p)'.id, reply |-> Item(p)'.reply, local |-> FALSE,
                                      com |-> Parent(p)']
  <2>1. /\ st[p].num \in DOMAIN texts
        /\ texts[st[p].num] = [id |-> Item(p).id, reply |-> Item(p).reply, local |-> FALSE,
                               com |-> Parent(p)]
    BY <1>0, <1>7 DEF ChosenOf
  <2> QED BY <1>0, <1>1, <2>1 DEF Grown
<1>8. ChosenOf(p)'
  BY <1>4, <1>5, <1>6, <1>7 DEF ChosenOf
<1> QED BY <1>2, <1>8

(* A process that is at no import has none.                                *)
LEMMA NotImporting ==
  ASSUME NEW p \in Tossers, st'[p].pc \notin Importing, st'[p].pos \in Nat \ {0}
  PROVE  RefsOf(p)' /\ ChosenOf(p)'
BY DEF RefsOf, ChosenOf, Importing

LEMMA ConfSame ==
  ASSUME Texts, texts' = texts, last' = last
  PROVE  Grown /\ \A n \in DOMAIN texts' : n \in DOMAIN texts \/ n > last
BY DEF Grown, Texts

LEMMA TextsSame ==
  ASSUME Texts, UNCHANGED << conf, saved, queue, exported >>
  PROVE  Texts'
BY DEF Texts, conf

LEMMA ParentsSame == ASSUME Parents, texts' = texts PROVE Parents'
BY DEF Parents

LEMMA FilesSame == ASSUME Files, spool' = spool PROVE Files'
BY DEF Files

(* A job goes on.                                                          *)
LEMMA JobsStay ==
  ASSUME Texts, Jobs, Grown, NEW p \in Procs, Alone(p),
         p \in Runners =>
           /\ st'[p].pc \in {"lock", "warn", "mail", "path", "put", "free", "rm"} =>
                st'[p].at \in DOMAIN texts'
           /\ st'[p].pc = "put" => st'[p].file \in Nat \ {0} /\ st'[p].reply \in Ids
           /\ st'[p].done \in BOOLEAN
           /\ st'[p].pc \in {"lock", "warn", "mail", "path", "put"} => st'[p].done = FALSE
  PROVE  Jobs'
<1>1. ASSUME NEW r \in Runners, r # p
      PROVE  /\ st'[r].pc \in {"lock", "warn", "mail", "path", "put", "free", "rm"} =>
                  st'[r].at \in DOMAIN texts'
             /\ st'[r].pc = "put" => st'[r].file \in Nat \ {0} /\ st'[r].reply \in Ids
             /\ st'[r].done \in BOOLEAN
             /\ st'[r].pc \in {"lock", "warn", "mail", "path", "put"} => st'[r].done = FALSE
  <2>1. Rests(r)
    BY <1>1, Sides DEF Alone
  <2> QED BY <2>1 DEF Rests, Jobs, Grown, At
<1>2. ASSUME NEW r \in Runners
      PROVE  /\ st'[r].pc \in {"lock", "warn", "mail", "path", "put", "free", "rm"} =>
                  st'[r].at \in DOMAIN texts'
             /\ st'[r].pc = "put" => st'[r].file \in Nat \ {0} /\ st'[r].reply \in Ids
             /\ st'[r].done \in BOOLEAN
             /\ st'[r].pc \in {"lock", "warn", "mail", "path", "put"} => st'[r].done = FALSE
  <2>1. CASE r = p
    BY <2>1
  <2>2. CASE r # p
    BY <2>2, <1>1
  <2> QED BY <2>1, <2>2
<1> QED BY <1>2 DEF Jobs, At

LEMMA JobsSame ==
  ASSUME Texts, Jobs, Grown, st' = st
  PROVE  Jobs'
BY DEF Jobs, Grown, At

LEMMA ImportsStay ==
  ASSUME Texts, Imports, Grown, NEW p \in Procs, Alone(p),
         \A n \in DOMAIN texts' : n \in DOMAIN texts \/ n > last,
         p \in Tossers => RefsOf(p)' /\ ChosenOf(p)'
  PROVE  Imports'
<1>1. ASSUME NEW q \in Tossers PROVE RefsOf(q)' /\ ChosenOf(q)'
  <2>1. CASE q = p
    BY <2>1
  <2>2. CASE q # p
    <3>1. Rests(q) /\ RefsOf(q) /\ ChosenOf(q)
      BY <2>2, Sides DEF Alone, Imports
    <3> QED BY <3>1, RestsInImports
  <2> QED BY <2>1, <2>2
<1> QED BY <1>1 DEF Imports

LEMMA ImportsSame ==
  ASSUME Texts, Imports, Grown, st' = st, States,
         \A n \in DOMAIN texts' : n \in DOMAIN texts \/ n > last
  PROVE  Imports'
<1>1. ASSUME NEW q \in Tossers PROVE RefsOf(q)' /\ ChosenOf(q)'
  <2>1. Rests(q) /\ RefsOf(q) /\ ChosenOf(q)
    BY Sides DEF Rests, Imports
  <2> QED BY <2>1, RestsInImports
<1> QED BY <1>1 DEF Imports

(* Sessions and CrashMail.                                                 *)
LEMMA SaveTextData ==
  ASSUME DInv, States, SaveText PROVE DInv'
<1>0. /\ last \in Nat \ {0} /\ DOMAIN texts \subseteq 1 .. last
      /\ \A n \in DOMAIN texts : texts[n] \in Text
      /\ links \subseteq (1 .. last) \X (1 .. last)
  BY DEF DInv, Texts
<1>1. PICK com \in {0} \cup Existing :
        /\ texts' = With(last + 1, [id |-> NoId, reply |-> NoId, local |-> TRUE, com |-> com])
        /\ links' = IF com = 0 THEN links ELSE links \cup {<< com, last + 1 >>}
  BY DEF SaveText
<1>2. /\ last' = last + 1 /\ saved' = saved \cup {last + 1} /\ st' = st /\ spool' = spool
      /\ deleted' = deleted /\ queue' = queue /\ exported' = exported
  BY DEF SaveText
<1> DEFINE t == [id |-> NoId, reply |-> NoId, local |-> TRUE, com |-> com]
<1>3. com \in Nat /\ com < last + 1 /\ (com # 0 => com \in DOMAIN texts)
  BY <1>0, <1>1 DEF Existing
<1>4. NoId \in Ids
  BY DEF NoId, Ids
<1>5. t \in Text /\ t.local = TRUE /\ t.id = NoId /\ t.com = com
  BY <1>3, <1>4 DEF Text
<1>6. texts' = With(last + 1, t)
  BY <1>1
<1> HIDE DEF t
<1>7. /\ DOMAIN texts' = DOMAIN texts \cup {last + 1} /\ texts'[last + 1] = t
      /\ \A n \in DOMAIN texts : n # last + 1 /\ texts'[n] = texts[n]
  <2>1. \A n \in DOMAIN texts : n # last + 1
    BY <1>0
  <2>2. DOMAIN texts' = DOMAIN texts \cup {last + 1}
    BY <1>6, WithIs
  <2>3. texts'[last + 1] = t
    BY <1>6, WithIs
  <2>4. \A n \in DOMAIN texts : n # last + 1 => texts'[n] = texts[n]
    BY <1>6 DEF With
  <2>5. ASSUME NEW n \in DOMAIN texts PROVE n # last + 1 /\ texts'[n] = texts[n]
    BY <2>1, <2>4
  <2> QED BY <2>2, <2>3, <2>5
<1>8. Grown /\ \A n \in DOMAIN texts' : n \in DOMAIN texts \/ n > last
  <2>1. last' \in Nat /\ last <= last' /\ last + 1 > last
    BY <1>0, <1>2
  <2> QED BY <1>7, <2>1 DEF Grown
<1>9. Texts'
  <2>1. last' \in Nat \ {0} /\ DOMAIN texts' \subseteq 1 .. last'
    BY <1>0, <1>2, <1>7
  <2>2. \A n \in DOMAIN texts' : texts'[n] \in Text
    BY <1>0, <1>5, <1>7
  <2>3. links' \subseteq (1 .. last') \X (1 .. last')
    <3>1. 1 .. last \subseteq 1 .. last' /\ last + 1 \in 1 .. last'
      BY <1>0, <1>2
    <3>2. com # 0 => com \in 1 .. last'
      BY <3>1, <1>3, <1>0
    <3> QED BY <1>0, <1>1, <3>1, <3>2
  <2>4. /\ deleted' \subseteq DOMAIN texts' /\ saved' \subseteq DOMAIN texts'
        /\ queue' \subseteq DOMAIN texts' /\ exported' \subseteq DOMAIN texts'
    BY <1>2, <1>7 DEF DInv, Texts
  <2> QED BY <2>1, <2>2, <2>3, <2>4 DEF Texts
<1>10. Parents'
  <2>1. ASSUME NEW n \in DOMAIN texts'
        PROVE  /\ texts'[n].com < n
               /\ texts'[n].com # 0 => texts'[n].com \in DOMAIN texts'
               /\ texts'[n].local => texts'[n].id = NoId
               /\ ~texts'[n].local /\ texts'[n].com # 0 =>
                    TextId(texts'[texts'[n].com], texts'[n].com) = texts'[n].reply
    <3>1. CASE n = last + 1
      BY <1>3, <1>5, <1>7, <3>1
    <3>2. CASE n # last + 1
      <4>1. n \in DOMAIN texts /\ texts'[n] = texts[n]
        BY <1>7, <3>2
      <4>2. texts[n].com # 0 => texts[n].com \in DOMAIN texts
        BY <4>1 DEF DInv, Parents
      <4> QED BY <1>7, <4>1, <4>2 DEF DInv, Parents
    <3> QED BY <3>1, <3>2
  <2> QED BY <2>1 DEF Parents
<1>11. Jobs' /\ Imports' /\ Files'
  BY <1>2, <1>8, JobsSame, ImportsSame, FilesSame DEF DInv
<1> QED BY <1>9, <1>10, <1>11 DEF DInv

(* Only the sets of numbers change.                                        *)
LEMMA NumbersData ==
  ASSUME DInv, States, NEW n \in 1 .. last, QueueExport(n) \/ SessionEnds(n) \/ DeleteText(n)
  PROVE  DInv'
<1>1. st' = st /\ last' = last /\ texts' = texts /\ spool' = spool /\ exported' = exported
  BY DEF QueueExport, SessionEnds, DeleteText, conf, files
<1>2. /\ saved' \subseteq DOMAIN texts /\ queue' \subseteq DOMAIN texts
      /\ deleted' \subseteq DOMAIN texts /\ links' \subseteq links
  BY DEF QueueExport, SessionEnds, DeleteText, conf, files, DInv, Texts, Existing
<1>3. Texts'
  BY <1>1, <1>2 DEF Texts, DInv
<1>4. Grown /\ \A k \in DOMAIN texts' : k \in DOMAIN texts \/ k > last
  BY <1>1, ConfSame DEF DInv
<1> QED BY <1>1, <1>3, <1>4, JobsSame, ImportsSame, FilesSame, ParentsSame DEF DInv

LEMMA ArriveData ==
  ASSUME DInv, States, Arrive PROVE DInv'
<1>1. /\ st' = st /\ last' = last /\ texts' = texts
      /\ UNCHANGED << conf, saved, queue, exported >>
  BY DEF Arrive, conf
<1>2. Grown /\ \A k \in DOMAIN texts' : k \in DOMAIN texts \/ k > last
  BY <1>1, ConfSame DEF DInv
<1>3. Files'
  <2>1. PICK a \in Arrivals :
          spool' = spool \cup {[file |-> MaxFile + 1, id |-> a.id, reply |-> a.reply,
                                re |-> a.re, bad |-> a.bad]}
    BY DEF Arrive
  <2> DEFINE m == [file |-> MaxFile + 1, id |-> a.id, reply |-> a.reply, re |-> a.re, bad |-> a.bad]
  <2>2. MaxFile \in Nat /\ \A k \in spool : k.file <= MaxFile
    BY MaxFileIs DEF DInv
  <2>3. a \in Header
    BY SpoolsAssumption
  <2>4. m \in Msgs /\ m.file = MaxFile + 1
    BY <2>2, <2>3 DEF Header, Msgs
  <2>5. spool' = spool \cup {m}
    BY <2>1
  <2> HIDE DEF m
  <2>6. IsFiniteSet(spool') /\ spool' \subseteq Msgs
    BY <2>4, <2>5, FS_AddElement DEF DInv, Files
  <2>7. \A k \in spool : k.file # m.file
    <3>1. ASSUME NEW k \in spool PROVE k.file # m.file
      <4>1. k.file \in Nat /\ k.file <= MaxFile
        BY <2>2 DEF DInv, Files, Msgs
      <4> QED BY <4>1, <2>2, <2>4
    <3> QED BY <3>1
  <2>8. \A j, k \in spool' : j.file = k.file => j = k
    BY <2>5, <2>7 DEF DInv, Files
  <2> QED BY <2>6, <2>8 DEF Files
<1> QED BY <1>1, <1>2, <1>3, JobsSame, ImportsSame, TextsSame, ParentsSame DEF DInv

LEMMA NothingData ==
  ASSUME DInv, States, st' = st, UNCHANGED << conf, files >> PROVE DInv'
<1>1. /\ last' = last /\ texts' = texts /\ spool' = spool
      /\ UNCHANGED << conf, saved, queue, exported >>
  BY DEF conf, files
<1>2. Grown /\ \A k \in DOMAIN texts' : k \in DOMAIN texts \/ k > last
  BY <1>1, ConfSame DEF DInv
<1> QED BY <1>1, <1>2, JobsSame, ImportsSame, TextsSame, ParentsSame, FilesSame DEF DInv

LEMMA OthersData == ASSUME DInv, States, Others PROVE DInv'
<1>1. CASE SaveText
  BY <1>1, SaveTextData
<1>2. CASE Arrive
  BY <1>2, ArriveData
<1>3. CASE Age \/ RemoveLock
  BY <1>3, NothingData DEF Age, RemoveLock
<1>4. ASSUME NEW n \in 1 .. last, QueueExport(n) \/ SessionEnds(n) \/ DeleteText(n) PROVE DInv'
  BY <1>4, NumbersData
<1>5. ASSUME NEW r \in Runners, SignalRunner(r) PROVE DInv'
  BY <1>5, NothingData DEF SignalRunner
<1> QED BY <1>1, <1>2, <1>3, <1>4, <1>5 DEF Others

(* A step that leaves the conference and the area as they are, and that    *)
(* leads to no import.                                                     *)
LEMMA AwayData ==
  ASSUME DInv, States, NEW p \in Procs, Alone(p), UNCHANGED << conf, files >>,
         p \in Tossers => st'[p].pc \notin Importing /\ st'[p].pos \in Nat \ {0},
         p \in Runners =>
           /\ st'[p].pc \in {"lock", "warn", "mail", "path", "put", "free", "rm"} =>
                st'[p].at \in DOMAIN texts
           /\ st'[p].pc = "put" => st'[p].file \in Nat \ {0} /\ st'[p].reply \in Ids
           /\ st'[p].done \in BOOLEAN
           /\ st'[p].pc \in {"lock", "warn", "mail", "path", "put"} => st'[p].done = FALSE
  PROVE  DInv'
<1>1. /\ last' = last /\ texts' = texts /\ spool' = spool
      /\ UNCHANGED << conf, saved, queue, exported >>
  BY DEF conf, files
<1>2. Grown /\ \A k \in DOMAIN texts' : k \in DOMAIN texts \/ k > last
  BY <1>1, ConfSame DEF DInv
<1>3. p \in Tossers => RefsOf(p)' /\ ChosenOf(p)'
  BY NotImporting
<1>4. Imports'
  BY <1>2, <1>3, ImportsStay DEF DInv
<1>5. Jobs'
  BY <1>1, <1>2, JobsStay DEF DInv
<1> QED BY <1>1, <1>4, <1>5, TextsSame, ParentsSame, FilesSame DEF DInv

LEMMA StepData ==
  ASSUME LInv, DInv, NEW p \in Procs, Step(p) PROVE DInv'
<1>0. /\ States /\ (p \in Tossers => st[p].pos \in Nat \ {0})
      /\ UNCHANGED << conf, files >>
      /\ p \in Runners =>
           /\ st[p].done \in BOOLEAN
           /\ st[p].pc \in {"lock", "warn", "mail", "path", "put", "free", "rm"} =>
                st[p].at \in DOMAIN texts
           /\ st[p].pc \in {"lock", "warn", "mail", "path", "put"} => st[p].done = FALSE
  BY DEF LInv, DInv, Imports, ChosenOf, Jobs, Step, Acquire, Busy, Mark, SendLockMail, Release
<1>1. CASE Acquire(p)
  <2>1. /\ Alone(p) /\ st[p].pc = "lock" /\ st'[p].pc = IF p \in Runners THEN "path" ELSE "scan"
        /\ st'[p].at = st[p].at /\ st'[p].done = st[p].done /\ st'[p].pos = st[p].pos
    BY <1>0, <1>1, AcquireIs
  <2> QED BY <1>0, <2>1, AwayData, Sides DEF Importing
<1>2. CASE Busy(p)
  <2>1. /\ Alone(p) /\ st[p].pc = "lock" /\ st'[p].pc \in {"warn", Refused(p)}
        /\ st'[p].at = st[p].at /\ st'[p].done = st[p].done /\ st'[p].pos = st[p].pos
    BY <1>0, <1>2, BusyIs
  <2>2. st'[p].pc \in {"warn", "next", "idle"}
    BY <2>1, RefusedIs DEF RefusedAt
  <2> QED BY <1>0, <2>1, <2>2, AwayData DEF Importing
<1>3. CASE Mark(p) \/ SendLockMail(p)
  <2>1. /\ st[p].pc \in {"warn", "mail"}
        /\ Goto(p, "mail") \/ Goto(p, Refused(p))
    BY <1>3 DEF Mark, SendLockMail, At
  <2>2. GoesTo(p, "mail") \/ GoesTo(p, Refused(p))
    BY <1>0, <2>1, GotoGoes
  <2>3. Alone(p) /\ st'[p].pc \in {"mail", "next", "idle"}
    BY <2>2, RefusedIs DEF RefusedAt, GoesTo
  <2>4. st'[p].at = st[p].at /\ st'[p].done = st[p].done /\ st'[p].pos = st[p].pos
    BY <2>2 DEF GoesTo
  <2> QED BY <1>0, <2>1, <2>3, <2>4, AwayData DEF Importing
<1>4. CASE Release(p)
  <2>1. /\ Alone(p) /\ st[p].pc = "free" /\ st'[p].done = FALSE /\ st'[p].pos = 1
        /\ p \in Tossers => st'[p].pc = "idle"
        /\ p \in Runners => /\ st'[p].pc = IF st[p].done THEN "rm" ELSE "next"
                            /\ st'[p].at = st[p].at
    BY <1>0, <1>4, ReleaseIs
  <2>2. CASE p \in Tossers
    <3>1. p \notin Runners /\ st'[p].pc \notin Importing /\ st'[p].pos \in Nat \ {0}
      BY <2>1, <2>2, Sides DEF Importing
    <3> QED BY <1>0, <2>1, <3>1, AwayData
  <2>3. CASE p \in Runners
    <3>1. /\ p \notin Tossers /\ st'[p].pc \in {"rm", "next"} /\ st'[p].done \in BOOLEAN
          /\ st'[p].at \in DOMAIN texts
      BY <1>0, <2>1, <2>3, Sides
    <3> QED BY <1>0, <2>1, <3>1, AwayData
  <2> QED BY <2>2, <2>3, Sides
<1> QED BY <1>1, <1>2, <1>3, <1>4 DEF Step

(* A message written over a file of the same number, or beside the others. *)
LEMMA PutFiles ==
  ASSUME Files, NEW m \in Msgs, spool' = Put(m)
  PROVE  Files'
<1> DEFINE u == { k \in spool : k.file # m.file }
<1>1. IsFiniteSet(u) /\ u \subseteq Msgs
  BY FS_Subset DEF Files
<1>2. spool' = u \cup {m} /\ \A k \in u : k.file # m.file /\ k \in spool
  BY DEF Put
<1> HIDE DEF u
<1>3. IsFiniteSet(spool') /\ spool' \subseteq Msgs
  BY <1>1, <1>2, FS_AddElement
<1>4. \A j, k \in spool' : j.file = k.file => j = k
  BY <1>2 DEF Files
<1> QED BY <1>3, <1>4 DEF Files

LEMMA MessageIs ==
  ASSUME LInv, DInv, NEW r \in Runners, st[r].pc = "put", NEW bad \in BOOLEAN
  PROVE  /\ Message(r, bad) \in Msgs /\ Message(r, bad).id = Own(st[r].at)
         /\ Message(r, bad).file = st[r].file /\ Message(r, bad).bad = bad
<1>1. /\ st[r].at \in DOMAIN texts /\ st[r].file \in Nat \ {0} /\ st[r].reply \in Ids
  BY DEF DInv, Jobs, At
<1>2. st[r].at \in Nat
  BY <1>1 DEF DInv, Texts
<1>3. Own(st[r].at) \in Ids
  BY <1>2, SerialsAssumption DEF Own, Ids
<1> QED BY <1>1, <1>3 DEF Message, Msgs

LEMMA KillData ==
  ASSUME LInv, DInv, NEW p \in Procs, Kill(p) PROVE DInv'
<1>1. Alone(p) /\ st'[p].pc = "idle" /\ st'[p].done = FALSE /\ st'[p].pos = 1
  BY KillIs DEF Ended, LInv
<1>2. /\ last' = last /\ texts' = texts
      /\ UNCHANGED << conf, saved, queue, exported >>
  BY DEF Kill, conf
<1>3. Grown /\ \A k \in DOMAIN texts' : k \in DOMAIN texts \/ k > last
  BY <1>2, ConfSame DEF DInv
<1>4. p \in Tossers => RefsOf(p)' /\ ChosenOf(p)'
  BY <1>1, NotImporting DEF Importing
<1>5. Imports' /\ Jobs'
  BY <1>1, <1>3, <1>4, ImportsStay, JobsStay DEF DInv
<1>6. Files'
  <2>1. CASE spool' = spool
    BY <2>1, FilesSame DEF DInv
  <2>2. CASE At(p, "put") /\ \E bad \in BOOLEAN : spool' = Put(Message(p, bad))
    <3>1. p \in Runners
      BY <2>2, Sides DEF At, LInv, States, TossAt
    <3> QED BY <2>2, <3>1, MessageIs, PutFiles DEF At, DInv
  <2> QED BY <2>1, <2>2 DEF Kill
<1> QED BY <1>2, <1>5, <1>6, TextsSame, ParentsSame DEF DInv

LEMMA ExportData ==
  ASSUME LInv, DInv, NEW r \in Runners, Export(r) \/ ExportFails(r) PROVE DInv'
<1>0. /\ States /\ r \in Procs /\ r \notin Tossers
      /\ st[r].done \in BOOLEAN
      /\ st[r].pc \in {"lock", "warn", "mail", "path", "put", "free", "rm"} => st[r].at \in DOMAIN texts
      /\ st[r].pc \in {"lock", "warn", "mail", "path", "put"} => st[r].done = FALSE
  BY Sides DEF LInv, DInv, Jobs
<1>1. CASE RunQueue(r)
  BY <1>0, <1>1, RunQueueIs, AwayData DEF RunQueue
<1>2. CASE NextJob(r)
  <2>1. Alone(r) /\ st'[r].pc = "lock" /\ st'[r].done = FALSE /\ st'[r].at = Min(st[r].jobs \cap queue)
    BY <1>0, <1>2, NextJobIs
  <2>2. Min(st[r].jobs \cap queue) \in DOMAIN texts
    <3>1. st[r].jobs \cap queue \subseteq Nat /\ queue \subseteq DOMAIN texts
      BY DEF DInv, Texts
    <3>2. st[r].jobs \cap queue # {}
      BY <1>2 DEF NextJob
    <3> QED BY <3>1, <3>2, MinOf
  <2>3. UNCHANGED << conf, files >>
    BY <1>2 DEF NextJob
  <2> QED BY <1>0, <2>1, <2>2, <2>3, AwayData
<1>3. CASE QueueDone(r)
  BY <1>0, <1>3, QueueDoneIs, AwayData DEF QueueDone, Ended
<1>4. CASE ExportPath(r)
  <2>1. /\ Alone(r) /\ st[r].pc = "path" /\ st'[r].pc \in {"put", "free"}
        /\ st'[r].at = st[r].at /\ st'[r].done = st[r].done
    BY <1>0, <1>4, ExportPathIs
  <2>2. st'[r].pc = "put" => st'[r].file \in Nat \ {0} /\ st'[r].reply \in Ids
    <3>1. SUFFICES ASSUME st'[r].pc = "put" PROVE st'[r].file \in Nat \ {0} /\ st'[r].reply \in Ids
      OBVIOUS
    <3> DEFINE com == texts[st[r].at].com
    <3>2. /\ st[r].at \in Existing /\ st'[r].file = MaxFile + 1
          /\ st'[r].reply = IF com = 0 THEN NoId
                            ELSE IF com \in Existing /\ texts[com].id # NoId
                                 THEN texts[com].id ELSE Own(com)
      BY <1>0, <1>4, <3>1, ExportPathIs
    <3>3. MaxFile \in Nat
      BY MaxFileIs DEF DInv
    <3>4. com \in Nat /\ (com \in Existing => texts[com].id \in Ids)
      BY <3>2 DEF Existing, DInv, Texts, Text
    <3>5. NoId \in Ids /\ Own(com) \in Ids
      BY <3>4, SerialsAssumption DEF NoId, Own, Ids
    <3> HIDE DEF com
    <3> QED BY <3>2, <3>3, <3>4, <3>5
  <2>3. UNCHANGED << conf, files >>
    BY <1>4 DEF ExportPath
  <2> QED BY <1>0, <2>1, <2>2, <2>3, AwayData
<1>5. CASE ExportPut(r)
  <2>1. /\ Alone(r) /\ st[r].pc = "put" /\ st'[r].pc = "free" /\ st'[r].done = TRUE
        /\ st'[r].at = st[r].at
    BY <1>0, <1>5, ExportPutIs
  <2>2. /\ last' = last /\ texts' = texts /\ spool' = Put(Message(r, FALSE))
        /\ UNCHANGED << conf, saved, queue, exported >>
    BY <1>5 DEF ExportPut, conf
  <2>3. Grown /\ \A k \in DOMAIN texts' : k \in DOMAIN texts \/ k > last
    BY <2>2, ConfSame DEF DInv
  <2>4. Jobs' /\ Imports'
    BY <1>0, <2>1, <2>2, <2>3, JobsStay, ImportsStay DEF DInv
  <2>5. Files'
    BY <2>1, <2>2, MessageIs, PutFiles DEF DInv
  <2> QED BY <2>2, <2>4, <2>5, TextsSame, ParentsSame DEF DInv
<1>6. CASE RemoveJob(r)
  <2>1. Goto(r, "next") /\ st[r].pc = "rm"
    BY <1>6 DEF RemoveJob, At
  <2>2. Alone(r) /\ st'[r].pc = "next" /\ st'[r].done = st[r].done
    BY <1>0, <2>1, GotoGoes DEF GoesTo
  <2>3. /\ last' = last /\ texts' = texts /\ spool' = spool /\ conf' = conf /\ saved' = saved
        /\ queue' = queue \ {st[r].at} /\ exported' = exported \cup {st[r].at}
    BY <1>6 DEF RemoveJob, conf
  <2>4. Grown /\ \A k \in DOMAIN texts' : k \in DOMAIN texts \/ k > last
    BY <2>3, ConfSame DEF DInv
  <2>5. Jobs' /\ Imports'
    BY <1>0, <2>2, <2>3, <2>4, JobsStay, ImportsStay DEF DInv
  <2>6. Texts'
    <3>1. queue' \subseteq DOMAIN texts /\ exported' \subseteq DOMAIN texts
      BY <1>0, <2>1, <2>3 DEF DInv, Texts
    <3> QED BY <2>3, <3>1 DEF DInv, Texts, conf
  <2> QED BY <2>3, <2>5, <2>6, ParentsSame, FilesSame DEF DInv
<1>7. CASE ExportFails(r)
  <2>1. Goto(r, "free") /\ st[r].pc \in {"path", "put"} /\ UNCHANGED << conf, files >>
    BY <1>7 DEF ExportFails
  <2>2. Alone(r) /\ st'[r].pc = "free" /\ st'[r].done = st[r].done /\ st'[r].at = st[r].at
    BY <1>0, <2>1, GotoGoes DEF GoesTo
  <2> QED BY <1>0, <2>1, <2>2, AwayData
<1> QED BY <1>1, <1>2, <1>3, <1>4, <1>5, <1>6, <1>7 DEF Export

(* Conf and spool stay; the import of p goes on.                           *)
LEMMA InsideData ==
  ASSUME LInv, DInv, NEW p \in Tossers, Alone(p), UNCHANGED << conf, files >>,
         RefsOf(p)', ChosenOf(p)'
  PROVE  DInv'
<1>1. /\ last' = last /\ texts' = texts /\ spool' = spool
      /\ UNCHANGED << conf, saved, queue, exported >>
  BY DEF conf, files
<1>2. Grown /\ \A k \in DOMAIN texts' : k \in DOMAIN texts \/ k > last
  BY <1>1, ConfSame DEF DInv
<1>3. Imports' /\ Jobs'
  BY <1>2, ImportsStay, JobsStay, Sides DEF DInv
<1> QED BY <1>1, <1>3, TextsSame, ParentsSame, FilesSame DEF DInv

LEMMA StoredIs ==
  ASSUME Texts
  PROVE  /\ DOMAIN Stored = Existing /\ Existing \subseteq DOMAIN texts
         /\ \A n \in Existing : Stored[n] = texts[n]
         /\ \A n \in DOMAIN Stored : Stored[n] \in Text
BY DEF Stored, Existing, Texts

(* The list of texts that are there, made from CONF_FILE.                  *)
LEMMA ScanIsRight ==
  ASSUME Texts
  PROVE  /\ ScanExisting(Stored, last) \in Seq(Ref)
         /\ \A i \in DOMAIN ScanExisting(Stored, last) :
              LET r == ScanExisting(Stored, last)[i]
              IN  r.num \in Existing /\ TextId(texts[r.num], r.num) = r.id
         /\ \A n \in Existing : TextId(texts[n], n) # NoId =>
              \E i \in DOMAIN ScanExisting(Stored, last) :
                ScanExisting(Stored, last)[i].id = TextId(texts[n], n)
<1> DEFINE list == ScanExisting(Stored, last)
<1>1. Scanned(list, Stored, last)
  BY StoredIs, ScanIs DEF Texts
<1> HIDE DEF list
<1>2. list \in Seq(Ref)
  BY <1>1 DEF Scanned
<1>3. ASSUME NEW i \in DOMAIN list
      PROVE  list[i].num \in Existing /\ TextId(texts[list[i].num], list[i].num) = list[i].id
  BY <1>1, StoredIs DEF Scanned
<1>4. ASSUME NEW n \in Existing, TextId(texts[n], n) # NoId
      PROVE  \E i \in DOMAIN list : list[i].id = TextId(texts[n], n)
  <2>1. n \in DOMAIN Stored \cap 1 .. last /\ TextId(Stored[n], n) = TextId(texts[n], n)
    BY StoredIs DEF Texts
  <2> QED BY <1>1, <1>4, <2>1 DEF Scanned
<1> QED BY <1>2, <1>3, <1>4 DEF list

LEMMA ScanData ==
  ASSUME LInv, DInv, NEW p \in Tossers, Scan(p) PROVE DInv'
<1>1. /\ Alone(p) /\ st'[p].pc = "index" /\ st'[p].at = last /\ st'[p].pos = st[p].pos
      /\ st'[p].refs = ScanExisting(Stored, last)
  BY ScanGoes DEF LInv
<1>2. UNCHANGED << conf, files >> /\ last' = last /\ texts' = texts
  BY DEF Scan, conf
<1> DEFINE list == ScanExisting(Stored, last)
<1>3. /\ list \in Seq(Ref)
      /\ \A i \in DOMAIN list : /\ list[i].num \in DOMAIN texts
                                /\ TextId(texts[list[i].num], list[i].num) = list[i].id
  BY ScanIsRight, StoredIs DEF DInv
<1> HIDE DEF list
<1>4. last \in 1 .. last
  BY DEF DInv, Texts
<1>5. RefsOf(p)'
  BY <1>1, <1>2, <1>3, <1>4 DEF RefsOf, list
<1>6. ChosenOf(p)'
  BY <1>1 DEF ChosenOf, DInv, Imports
<1> QED BY <1>1, <1>2, <1>5, <1>6, InsideData

LEMMA RefsKept ==
  ASSUME DInv, NEW p \in Tossers, st[p].pc \in Importing, texts' = texts, last' = last,
         st'[p].refs = st[p].refs, st'[p].at = st[p].at
  PROVE  RefsOf(p)'
<1>1. Grown
  BY ConfSame DEF DInv
<1> QED BY <1>1, RefsStay DEF DInv, Imports

LEMMA IndexData ==
  ASSUME LInv, DInv, NEW p \in Tossers, Index(p) PROVE DInv'
<1>1. /\ Alone(p) /\ st[p].pc = "index"
      /\ st'[p].at = st[p].at /\ st'[p].refs = st[p].refs /\ st'[p].pos = st[p].pos
      /\ \/ st'[p].pc = "free"
         \/ /\ st'[p].pc = "loop"
            /\ \/ st'[p].items = SpoolItems(spool)
               \/ \E i \in DOMAIN SpoolItems(spool) : st'[p].items = << SpoolItems(spool)[i] >>
  BY IndexIs DEF LInv
<1>2. UNCHANGED << conf, files >> /\ last' = last /\ texts' = texts
  BY DEF Index, conf
<1>3. RefsOf(p)'
  BY <1>1, <1>2, RefsKept DEF Importing
<1>4. SpoolItems(spool) \in Seq(Msgs)
  BY SpoolItemsAre DEF DInv, Files
<1>5. st'[p].pc = "loop" => st'[p].items \in Seq(Msgs)
  <2> DEFINE all == SpoolItems(spool)
  <2>1. all \in Seq(Msgs)
    BY <1>4
  <2>2. st'[p].pc = "loop" =>
          st'[p].items = all \/ \E i \in DOMAIN all : st'[p].items = << all[i] >>
    BY <1>1
  <2> HIDE DEF all
  <2>3. ASSUME NEW i \in DOMAIN all PROVE << all[i] >> \in Seq(Msgs)
    <3>1. all[i] \in Msgs
      BY <2>1
    <3> QED BY <3>1
  <2> QED BY <2>1, <2>2, <2>3
<1>6. ChosenOf(p)'
  BY <1>1, <1>5 DEF ChosenOf, DInv, Imports
<1> QED BY <1>1, <1>2, <1>3, <1>6, InsideData

LEMMA PassData ==
  ASSUME LInv, DInv, NEW p \in Tossers, Pass(p) PROVE DInv'
<1>1. /\ Alone(p) /\ st[p].pc = "loop" /\ st'[p].pc \in {"free", "loop"}
      /\ st'[p].pos \in {1, st[p].pos}
      /\ st'[p].at = st[p].at /\ st'[p].refs = st[p].refs /\ st'[p].items = st[p].items
  BY PassIs DEF LInv
<1>2. UNCHANGED << conf, files >> /\ last' = last /\ texts' = texts
  BY DEF Pass, conf
<1>3. RefsOf(p)'
  BY <1>1, <1>2, RefsKept DEF Importing
<1>4. ChosenOf(p)'
  <2>1. st[p].items \in Seq(Msgs) /\ st[p].pos \in Nat \ {0}
    BY <1>1 DEF ChosenOf, DInv, Imports
  <2>2. st'[p].items \in Seq(Msgs) /\ st'[p].pos \in Nat \ {0}
    BY <1>1, <2>1
  <2>3. st'[p].pc \notin {"write", "link"}
    BY <1>1
  <2> QED BY <2>2, <2>3 DEF ChosenOf
<1> QED BY <1>1, <1>2, <1>3, <1>4, InsideData

LEMMA EndsData ==
  ASSUME LInv, DInv, NEW p \in Tossers, Start(p) \/ ImportFails(p) PROVE DInv'
<1>1. CASE Start(p)
  <2>1. Alone(p) /\ st'[p].pc = "lock" /\ st'[p].pos = 1
    BY <1>1, StartIs DEF LInv
  <2>2. RefsOf(p)' /\ ChosenOf(p)'
    BY <2>1, NotImporting DEF Importing
  <2> QED BY <1>1, <2>1, <2>2, InsideData DEF Start
<1>2. CASE ImportFails(p)
  <2>1. GoesTo(p, "free")
    BY <1>2, GotoGoes, Sides DEF ImportFails, LInv
  <2>2. Alone(p) /\ st'[p].pc = "free" /\ st'[p].pos = st[p].pos
    BY <2>1 DEF GoesTo
  <2>3. RefsOf(p)' /\ ChosenOf(p)'
    BY <2>2, NotImporting DEF Importing, DInv, Imports, ChosenOf
  <2> QED BY <1>2, <2>2, <2>3, InsideData DEF ImportFails
<1> QED BY <1>1, <1>2

(* Two imports never run at a time.                                        *)
LEMMA OneImports ==
  ASSUME LInv, NEW p \in Tossers, NEW q \in Tossers, q # p, st[p].pc \in Holding
  PROVE  st[q].pc \notin Importing
<1>1. Importing \subseteq Holding
  BY DEF Importing, Holding
<1> QED BY <1>1, OneHolds, Sides DEF LInv

(* The import of p goes on, and nobody else's is touched.                  *)
LEMMA ImportsAlone ==
  ASSUME LInv, DInv, NEW p \in Tossers, st[p].pc \in Holding, Alone(p),
         RefsOf(p)', ChosenOf(p)'
  PROVE  Imports'
<1>1. ASSUME NEW q \in Tossers PROVE RefsOf(q)' /\ ChosenOf(q)'
  <2>1. CASE q = p
    BY <2>1
  <2>2. CASE q # p
    <3>1. Rests(q) /\ st[q].pc \notin Importing /\ st[q].pos \in Nat \ {0}
      BY <2>2, OneImports, Sides DEF Alone, DInv, Imports, ChosenOf
    <3> QED BY <3>1, NotImporting DEF Rests
  <2> QED BY <2>1, <2>2
<1> QED BY <1>1 DEF Imports

LEMMA CountData ==
  ASSUME LInv, DInv, NEW p \in Tossers, Count(p) PROVE DInv'
<1>1. /\ Alone(p) /\ st[p].pc = "loop" /\ st'[p].pc = "write"
      /\ Found(p) # {} /\ st'[p].pos = Min(Found(p)) /\ st'[p].num = last + 1
      /\ st'[p].at = st[p].at /\ st'[p].refs = st[p].refs /\ st'[p].items = st[p].items
      /\ st'[p].kind = st[p].kind
  BY CountIs DEF LInv
<1>2. /\ last' = last + 1 /\ texts' = texts /\ deleted' = deleted /\ links' = links
      /\ UNCHANGED files /\ spool' = spool /\ saved' = saved /\ queue' = queue
      /\ exported' = exported
  BY DEF Count, files
<1>3. /\ last \in Nat \ {0} /\ DOMAIN texts \subseteq 1 .. last
      /\ links \subseteq (1 .. last) \X (1 .. last)
  BY DEF DInv, Texts
<1>4. Grown
  BY <1>2, <1>3 DEF Grown
<1>5. RefsOf(p)'
  BY <1>1, <1>4, RefsStay DEF DInv, Imports, Importing
<1>6. /\ st[p].items \in Seq(Msgs) /\ st[p].pos \in Nat \ {0} /\ st[p].refs \in Seq(Ref)
      /\ st[p].at \in 1 .. last
      /\ \A i \in DOMAIN st[p].refs : st[p].refs[i].num \in DOMAIN texts
  BY <1>1 DEF DInv, Imports, ChosenOf, RefsOf, Importing
<1>7. Min(Found(p)) \in Found(p)
  <2>1. Found(p) \subseteq Nat
    BY <1>6 DEF Found
  <2> QED BY <1>1, <2>1, MinOf
<1> DEFINE k == Min(Found(p))
<1>8. /\ k \in DOMAIN st[p].items /\ k \in Nat \ {0}
      /\ Importable(st[p].items[k], st[p].refs, Unsafe(p))
  <2> HIDE DEF k
  <2>1. k \in st[p].pos .. Len(st[p].items) /\ Importable(st[p].items[k], st[p].refs, Unsafe(p))
    BY <1>7 DEF Found, k
  <2> QED BY <2>1, <1>6
<1>9. ChosenOf(p)'
  <2>1. Item(p)' = st[p].items[k] /\ Unsafe(p)' = Unsafe(p)
    BY <1>1 DEF Item, Unsafe
  <2>2. last + 1 \in 1 .. last' /\ st[p].at < last + 1 /\ last + 1 \notin DOMAIN texts
    BY <1>2, <1>3, <1>6
  <2>3. \A i \in DOMAIN st[p].refs : st[p].refs[i].num < last + 1
    BY <1>3, <1>6
  <2> HIDE DEF k
  <2>4. st'[p].pos = k
    BY <1>1 DEF k
  <2> QED BY <1>1, <1>2, <1>6, <1>8, <2>1, <2>2, <2>3, <2>4 DEF ChosenOf
<1>10. Imports'
  BY <1>1, <1>5, <1>9, ImportsAlone, HoldingIs
<1>11. Texts'
  <2>1. 1 .. last \subseteq 1 .. last'
    BY <1>2, <1>3
  <2>2. links' \subseteq (1 .. last') \X (1 .. last')
    BY <1>2, <1>3, <2>1
  <2>3. last' \in Nat \ {0} /\ DOMAIN texts' \subseteq 1 .. last'
    BY <1>2, <1>3, <2>1
  <2> QED BY <1>2, <2>2, <2>3 DEF DInv, Texts
<1>12. Jobs'
  BY <1>1, <1>4, JobsStay, Sides DEF DInv
<1> QED BY <1>2, <1>10, <1>11, <1>12, ParentsSame, FilesSame DEF DInv

(* The message that an import is at, and the text that it comments.        *)
LEMMA ItemIs ==
  ASSUME DInv, NEW p \in Tossers, st[p].pc \in {"write", "link"}
  PROVE  /\ Item(p) \in Msgs /\ Parent(p) \in Nat
         /\ st[p].num \in 1 .. last /\ st[p].num \in Nat \ {0}
         /\ Parent(p) # 0 =>
              /\ Item(p).reply # NoId /\ Parent(p) < st[p].num /\ Parent(p) \in DOMAIN texts
              /\ TextId(texts[Parent(p)], Parent(p)) = Item(p).reply
<1>1. /\ st[p].items \in Seq(Msgs) /\ st[p].pos \in DOMAIN st[p].items
      /\ st[p].num \in 1 .. last
      /\ \A i \in DOMAIN st[p].refs : st[p].refs[i].num < st[p].num
  BY DEF DInv, Imports, ChosenOf
<1>2. /\ st[p].refs \in Seq(Ref)
      /\ \A i \in DOMAIN st[p].refs :
           /\ st[p].refs[i].num \in DOMAIN texts
           /\ TextId(texts[st[p].refs[i].num], st[p].refs[i].num) = st[p].refs[i].id
  BY DEF DInv, Imports, RefsOf, Importing
<1>3. Item(p) \in Msgs
  BY <1>1 DEF Item
<1>4. /\ Parent(p) \in Nat
      /\ Parent(p) # 0 =>
           \E i \in DOMAIN st[p].refs : st[p].refs[i].id = Item(p).reply /\ Parent(p) = st[p].refs[i].num
  <2>1. Parent(p) = FindText(st[p].refs, Item(p).reply)
    BY DEF Parent
  <2> QED BY <1>2, <2>1, FindTextIs
<1>5. Parent(p) # 0 => Item(p).reply # NoId
  BY DEF Parent, FindText
<1>6. last \in Nat
  BY DEF DInv, Texts
<1>7. st[p].num \in Nat \ {0}
  BY <1>1, <1>6
<1> QED BY <1>1, <1>2, <1>3, <1>4, <1>5, <1>7

LEMMA WriteTextData ==
  ASSUME LInv, DInv, NEW p \in Tossers, WriteText(p) PROVE DInv'
<1>1. /\ st[p].pc = "write" /\ GoesTo(p, "link")
      /\ texts' = With(st[p].num, [id |-> Item(p).id, reply |-> Item(p).reply, local |-> FALSE,
                                   com |-> Parent(p)])
      /\ last' = last /\ deleted' = deleted /\ links' = links
      /\ spool' = spool /\ saved' = saved /\ queue' = queue /\ exported' = exported
  <2>1. Goto(p, "link") /\ st[p].pc = "write"
    BY DEF WriteText, At
  <2>2. GoesTo(p, "link")
    BY <2>1, GotoGoes, Sides DEF LInv
  <2> QED BY <2>1, <2>2 DEF WriteText, files
<1>2. /\ Alone(p) /\ st'[p].pc = "link" /\ st'[p].at = st[p].at /\ st'[p].items = st[p].items
      /\ st'[p].refs = st[p].refs /\ st'[p].pos = st[p].pos /\ st'[p].num = st[p].num
      /\ st'[p].kind = st[p].kind
  BY <1>1 DEF GoesTo
<1> DEFINE n == st[p].num
           t == [id |-> Item(p).id, reply |-> Item(p).reply, local |-> FALSE, com |-> Parent(p)]
<1>3. n \notin DOMAIN texts /\ n \in 1 .. last /\ n \in Nat \ {0}
  BY <1>1, ItemIs DEF DInv, Imports, ChosenOf
<1>4. t \in Text /\ t.com = Parent(p) /\ t.reply = Item(p).reply /\ t.local = FALSE
  BY <1>1, ItemIs DEF Text, Msgs
<1>5. texts' = With(n, t)
  BY <1>1
<1>6. Parent(p) # 0 =>
        /\ Parent(p) < n /\ Parent(p) \in DOMAIN texts
        /\ TextId(texts[Parent(p)], Parent(p)) = t.reply
  BY <1>1, ItemIs
<1>7. Item(p)' = Item(p) /\ Parent(p)' = Parent(p) /\ Unsafe(p)' = Unsafe(p)
  BY <1>2, ItemStays
<1>7a. t = [id |-> Item(p).id, reply |-> Item(p).reply, local |-> FALSE, com |-> Parent(p)]
  OBVIOUS
<1> HIDE DEF t
<1>8. /\ DOMAIN texts' = DOMAIN texts \cup {n} /\ texts'[n] = t
      /\ \A k \in DOMAIN texts : k # n /\ texts'[k] = texts[k]
  <2>1. DOMAIN texts' = DOMAIN texts \cup {n} /\ texts'[n] = t
    BY <1>5 DEF With
  <2>2. ASSUME NEW k \in DOMAIN texts PROVE k # n /\ texts'[k] = texts[k]
    BY <1>3, <1>5 DEF With
  <2> QED BY <2>1, <2>2
<1>9. Grown
  <2>1. last' \in Nat /\ last <= last'
    BY <1>1 DEF DInv, Texts
  <2> QED BY <1>8, <2>1 DEF Grown
<1>10. Texts'
  <2>1. DOMAIN texts' \subseteq 1 .. last' /\ \A k \in DOMAIN texts' : texts'[k] \in Text
    BY <1>1, <1>3, <1>4, <1>8 DEF DInv, Texts
  <2>2. /\ deleted' \subseteq DOMAIN texts' /\ saved' \subseteq DOMAIN texts'
        /\ queue' \subseteq DOMAIN texts' /\ exported' \subseteq DOMAIN texts'
    BY <1>1, <1>8 DEF DInv, Texts
  <2>3. last' \in Nat \ {0} /\ links' \subseteq (1 .. last') \X (1 .. last')
    BY <1>1 DEF DInv, Texts
  <2> QED BY <2>1, <2>2, <2>3 DEF Texts
<1>11. Parents'
  <2>1. ASSUME NEW k \in DOMAIN texts'
        PROVE  /\ texts'[k].com < k
               /\ texts'[k].com # 0 => texts'[k].com \in DOMAIN texts'
               /\ texts'[k].local => texts'[k].id = NoId
               /\ ~texts'[k].local /\ texts'[k].com # 0 =>
                    TextId(texts'[texts'[k].com], texts'[k].com) = texts'[k].reply
    <3>1. CASE k = n
      <4>1. texts'[k].com = Parent(p) /\ texts'[k].reply = t.reply /\ texts'[k].local = FALSE
        BY <1>4, <1>8, <3>1
      <4>2. CASE Parent(p) = 0
        BY <3>1, <4>1, <4>2, <1>3
      <4>3. CASE Parent(p) # 0
        <5>1. texts'[Parent(p)] = texts[Parent(p)] /\ Parent(p) \in DOMAIN texts'
          BY <1>6, <1>8, <4>3
        <5> QED BY <3>1, <4>1, <4>3, <1>6, <5>1
      <4> QED BY <4>2, <4>3
    <3>2. CASE k # n
      <4>1. k \in DOMAIN texts /\ texts'[k] = texts[k]
        BY <1>8, <3>2
      <4>2. texts[k].com # 0 => texts[k].com \in DOMAIN texts
        BY <4>1 DEF DInv, Parents
      <4> QED BY <1>8, <4>1, <4>2 DEF DInv, Parents
    <3> QED BY <3>1, <3>2
  <2> QED BY <2>1 DEF Parents
<1>12. RefsOf(p)'
  BY <1>1, <1>2, <1>9, RefsStay DEF DInv, Imports, Importing
<1>13. ChosenOf(p)'
  <2>1. /\ st[p].items \in Seq(Msgs) /\ st[p].pos \in Nat \ {0}
        /\ st[p].pos \in DOMAIN st[p].items
        /\ Importable(Item(p), st[p].refs, Unsafe(p))
        /\ st[p].at < st[p].num
        /\ \A i \in DOMAIN st[p].refs : st[p].refs[i].num < st[p].num
    BY <1>1 DEF DInv, Imports, ChosenOf
  <2>2. n \in DOMAIN texts' /\ texts'[n] = [id |-> Item(p).id, reply |-> Item(p).reply,
                                            local |-> FALSE, com |-> Parent(p)]
    BY <1>7a, <1>8
  <2> QED BY <1>1, <1>2, <1>3, <1>7, <2>1, <2>2 DEF ChosenOf
<1>14. Imports'
  BY <1>1, <1>2, <1>12, <1>13, ImportsAlone, HoldingIs
<1>15. Jobs'
  BY <1>2, <1>9, JobsStay, Sides DEF DInv
<1> QED BY <1>1, <1>10, <1>11, <1>14, <1>15, FilesSame DEF DInv

(* The list that the import carries on with.                               *)
LEMMA ListedFirst ==
  ASSUME NEW list \in Seq(Ref), NEW r \in Ref
  PROVE  /\ << r >> \o list \in Seq(Ref)
         /\ \E i \in DOMAIN (<< r >> \o list) : (<< r >> \o list)[i] = r
         /\ \A i \in DOMAIN list : \E j \in DOMAIN (<< r >> \o list) : (<< r >> \o list)[j] = list[i]
         /\ \A j \in DOMAIN (<< r >> \o list) :
              (<< r >> \o list)[j] = r \/ \E i \in DOMAIN list : (<< r >> \o list)[j] = list[i]
<1> DEFINE new == << r >> \o list
<1>1. Len(list) \in Nat /\ DOMAIN list = 1 .. Len(list)
  OBVIOUS
<1>2. /\ new \in Seq(Ref) /\ Len(new) = Len(list) + 1
      /\ new[1] = r /\ \A i \in 1 .. Len(list) : new[i + 1] = list[i]
  BY <1>1
<1> HIDE DEF new
<1>3. DOMAIN new = 1 .. Len(list) + 1
  BY <1>2
<1>4. 1 \in DOMAIN new
  BY <1>1, <1>3
<1>5. ASSUME NEW i \in DOMAIN list PROVE \E j \in DOMAIN new : new[j] = list[i]
  <2>1. i + 1 \in DOMAIN new /\ new[i + 1] = list[i]
    BY <1>1, <1>2, <1>3
  <2> QED BY <2>1
<1>6. ASSUME NEW j \in DOMAIN new, j # 1 PROVE \E i \in DOMAIN list : new[j] = list[i]
  <2>1. j - 1 \in 1 .. Len(list) /\ (j - 1) + 1 = j
    BY <1>1, <1>3, <1>6
  <2>2. new[j] = list[j - 1]
    BY <1>2, <2>1
  <2> QED BY <1>1, <2>1, <2>2
<1>7. /\ new \in Seq(Ref)
      /\ \E i \in DOMAIN new : new[i] = r
      /\ \A i \in DOMAIN list : \E j \in DOMAIN new : new[j] = list[i]
      /\ \A j \in DOMAIN new : new[j] = r \/ \E i \in DOMAIN list : new[j] = list[i]
  BY <1>2, <1>4, <1>5, <1>6
<1> QED BY <1>7 DEF new

LEMMA LinkData ==
  ASSUME LInv, DInv, NEW p \in Tossers, Link(p) PROVE DInv'
<1>1. /\ Alone(p) /\ st[p].pc = "link" /\ st'[p].pc \in {"free", "loop"}
      /\ st'[p].pos = st[p].pos + 1
      /\ st'[p].refs = << [id |-> Item(p).id, num |-> st[p].num] >> \o st[p].refs
      /\ st'[p].at = st[p].at /\ st'[p].items = st[p].items
  BY LinkGoes DEF LInv
<1>2. /\ last' = last /\ texts' = texts /\ deleted' = deleted
      /\ links' = IF Parent(p) = 0 THEN links ELSE links \cup {<< Parent(p), st[p].num >>}
      /\ spool' = spool /\ saved' = saved /\ queue' = queue /\ exported' = exported
  BY DEF Link, files
<1>3. /\ Item(p) \in Msgs /\ Parent(p) \in Nat
      /\ st[p].num \in 1 .. last /\ st[p].num \in Nat \ {0}
      /\ Parent(p) # 0 => Parent(p) \in DOMAIN texts
  BY <1>1, ItemIs
<1>4. Texts'
  <2>1. DOMAIN texts \subseteq 1 .. last /\ links \subseteq (1 .. last) \X (1 .. last)
    BY DEF DInv, Texts
  <2>2. links' \subseteq (1 .. last) \X (1 .. last)
    BY <1>2, <1>3, <2>1
  <2> QED BY <1>2, <2>2 DEF DInv, Texts
<1>5. st[p].num \in DOMAIN texts /\ TextId(texts[st[p].num], st[p].num) = Item(p).id
  <2>1. /\ st[p].num \in DOMAIN texts
        /\ texts[st[p].num] = [id |-> Item(p).id, reply |-> Item(p).reply, local |-> FALSE,
                               com |-> Parent(p)]
        /\ Importable(Item(p), st[p].refs, Unsafe(p))
    BY <1>1 DEF DInv, Imports, ChosenOf
  <2>2. Item(p).id # NoId
    BY <2>1 DEF Importable
  <2> QED BY <2>1, <2>2 DEF TextId
<1> DEFINE r == [id |-> Item(p).id, num |-> st[p].num]
<1>6. r \in Ref /\ r.id = Item(p).id /\ r.num = st[p].num
  BY <1>3 DEF Ref, Msgs
<1>7. st'[p].refs = << r >> \o st[p].refs
  BY <1>1
<1> HIDE DEF r
<1>8. /\ st[p].refs \in Seq(Ref) /\ st[p].at \in 1 .. last
      /\ \A i \in DOMAIN st[p].refs :
           /\ st[p].refs[i].num \in DOMAIN texts
           /\ TextId(texts[st[p].refs[i].num], st[p].refs[i].num) = st[p].refs[i].id
  BY <1>1 DEF DInv, Imports, RefsOf, Importing
<1>9. RefsOf(p)'
  <2> DEFINE new == << r >> \o st[p].refs
  <2>1. /\ new \in Seq(Ref)
        /\ \A j \in DOMAIN new : new[j] = r \/ \E i \in DOMAIN st[p].refs : new[j] = st[p].refs[i]
    BY <1>6, <1>8, ListedFirst
  <2>2. st'[p].refs = new
    BY <1>7
  <2> HIDE DEF new
  <2>3. ASSUME NEW j \in DOMAIN new
        PROVE  new[j].num \in DOMAIN texts /\ TextId(texts[new[j].num], new[j].num) = new[j].id
    <3>1. CASE new[j] = r
      BY <3>1, <1>5, <1>6
    <3>2. CASE new[j] # r
      BY <3>2, <2>1, <1>8
    <3> QED BY <3>1, <3>2
  <2> QED BY <1>1, <1>2, <1>8, <2>1, <2>2, <2>3 DEF RefsOf
<1>10. ChosenOf(p)'
  <2>1. st[p].items \in Seq(Msgs) /\ st[p].pos \in Nat \ {0}
    BY <1>1 DEF ChosenOf, DInv, Imports
  <2>2. st'[p].items \in Seq(Msgs) /\ st'[p].pos \in Nat \ {0}
    BY <1>1, <2>1
  <2>3. st'[p].pc \notin {"write", "link"}
    BY <1>1
  <2> QED BY <2>2, <2>3 DEF ChosenOf
<1>11. Imports'
  BY <1>1, <1>9, <1>10, ImportsAlone, HoldingIs
<1>12. Jobs'
  <2>1. Grown
    BY <1>2, ConfSame DEF DInv
  <2> QED BY <1>1, <2>1, JobsStay, Sides DEF DInv
<1> QED BY <1>2, <1>4, <1>11, <1>12, ParentsSame, FilesSame DEF DInv

LEMMA DataInit == Init => DInv
<1> SUFFICES ASSUME Init PROVE DInv
  OBVIOUS
<1>1. /\ last = 1
      /\ texts = [n \in {1} |-> [id |-> NoId, reply |-> NoId, local |-> TRUE, com |-> 0]]
      /\ deleted = {} /\ links = {} /\ spool \in Spools
      /\ saved = {} /\ queue = {} /\ exported = {}
      /\ st = [p \in Procs |-> Idle]
  BY DEF Init
<1>2. \A p \in Procs : st[p].pc = "idle" /\ st[p].done = FALSE /\ st[p].pos = 1
  BY <1>1, IdleIs
<1>3. Files
  BY <1>1, SpoolsAssumption DEF Files
<1> DEFINE t == [id |-> NoId, reply |-> NoId, local |-> TRUE, com |-> 0]
<1>4. NoId \in Ids
  BY DEF NoId, Ids
<1>5. t \in Text /\ t.com = 0 /\ t.id = NoId /\ t.local = TRUE
  BY <1>4 DEF Text
<1>6. DOMAIN texts = {1} /\ texts[1] = t
  BY <1>1
<1> HIDE DEF t
<1>7. Texts
  <2>1. last \in Nat \ {0} /\ DOMAIN texts \subseteq 1 .. last
    BY <1>1, <1>6
  <2>2. \A n \in DOMAIN texts : texts[n] \in Text
    BY <1>5, <1>6
  <2>3. links \subseteq (1 .. last) \X (1 .. last)
    BY <1>1
  <2> QED BY <1>1, <2>1, <2>2, <2>3 DEF Texts
<1>8. Parents
  BY <1>5, <1>6 DEF Parents
<1>9. Jobs
  BY <1>2, Sides DEF Jobs, At
<1>10. Imports
  BY <1>2, Sides DEF Imports, RefsOf, ChosenOf, Importing
<1> QED BY <1>3, <1>7, <1>8, <1>9, <1>10 DEF DInv

LEMMA DataNext == LInv /\ DInv /\ [Next]_vars => DInv'
<1> SUFFICES ASSUME LInv, DInv, [Next]_vars PROVE DInv'
  OBVIOUS
<1>0. States
  BY DEF LInv
<1>1. CASE UNCHANGED vars
  BY <1>0, <1>1, NothingData DEF vars
<1>2. CASE Next
  <2>1. CASE Others
    BY <1>0, <2>1, OthersData
  <2>2. ASSUME NEW p \in Procs, Step(p) \/ Kill(p) PROVE DInv'
    BY <2>2, StepData, KillData
  <2>3. ASSUME NEW p \in Tossers, Start(p) \/ Import(p) \/ Index(p) \/ ImportFails(p) PROVE DInv'
    BY <2>3, EndsData, ScanData, CountData, WriteTextData, LinkData, PassData, IndexData DEF Import
  <2>4. ASSUME NEW r \in Runners, Export(r) \/ ExportFails(r) PROVE DInv'
    BY <2>4, ExportData
  <2> QED BY <1>2, <2>1, <2>2, <2>3, <2>4, NextIs
<1> QED BY <1>1, <1>2

-----------------------------------------------------------------------------
(* Messages of jobs that are done stay: a new file has a number above all  *)
(* others, and only the export that is past the lock writes one.           *)
SpoolKeeps ==
  \A m \in spool : m \in spool' \/ \E r \in Runners : st[r].pc = "put" /\ st[r].file = m.file

LEMMA KeptStays ==
  ASSUME Files, NEW n, Kept(n), SpoolKeeps,
         \A r \in Runners : st'[r].pc = "put" =>
           (st[r].pc = "put" /\ st'[r].file = st[r].file) \/ st'[r].file = MaxFile + 1
  PROVE  Kept(n)'
<1>1. PICK m \in spool : /\ m.id = Own(n) /\ ~m.bad
                         /\ \A r \in Runners : st[r].pc = "put" => st[r].file # m.file
  BY DEF Kept, At
<1>2. m \in spool'
  BY <1>1 DEF SpoolKeeps
<1>3. m.file # MaxFile + 1
  <2>1. MaxFile \in Nat /\ m.file <= MaxFile /\ m.file \in Nat
    BY MaxFileIs DEF Files, Msgs
  <2> QED BY <2>1
<1>4. \A r \in Runners : st'[r].pc = "put" => st'[r].file # m.file
  BY <1>1, <1>3
<1> QED BY <1>1, <1>2, <1>4 DEF Kept, At

LEMMA ExportsGoOn ==
  ASSUME DInv, Exports, NEW p \in Procs, Alone(p), SpoolKeeps,
         p \in Runners /\ st'[p].pc = "put" => st'[p].file = MaxFile + 1,
         \A n \in exported' : n \in exported \/ Kept(n),
         p \in Runners /\ (st'[p].pc = "rm" \/ (st'[p].pc = "free" /\ st'[p].done)) =>
           Kept(st'[p].at) \/ Kept(st[p].at)'
  PROVE  Exports'
<1>1. \A r \in Runners : r # p => Rests(r)
  BY Sides DEF Alone
<1>2. \A r \in Runners : st'[r].pc = "put" =>
        (st[r].pc = "put" /\ st'[r].file = st[r].file) \/ st'[r].file = MaxFile + 1
  BY <1>1 DEF Rests
<1>3. ASSUME NEW n, Kept(n) PROVE Kept(n)'
  BY <1>2, <1>3, KeptStays DEF DInv
<1>4. \A n \in exported' : Kept(n)'
  BY <1>3 DEF Exports
<1>5. ASSUME NEW r \in Runners, st'[r].pc = "rm" \/ (st'[r].pc = "free" /\ st'[r].done)
      PROVE  Kept(st[r].at)'
  <2>1. \A n : Kept(n) => Kept(n)'
    BY <1>3
  <2>2. CASE r = p
    BY <2>1, <2>2, <1>5 DEF Kept
  <2>3. CASE r # p
    <3>1. /\ st'[r].pc = st[r].pc /\ st'[r].done = st[r].done /\ st'[r].at = st[r].at
      BY <2>3, <1>1 DEF Rests
    <3>2. Kept(st[r].at)
      BY <1>5, <3>1 DEF Exports, At
    <3> QED BY <2>1, <3>1, <3>2 DEF Kept
  <2> QED BY <2>2, <2>3
<1> QED BY <1>4, <1>5 DEF Exports, At

LEMMA ExportsSame ==
  ASSUME DInv, Exports, st' = st, exported' = exported, \A m \in spool : m \in spool'
  PROVE  Exports'
<1>1. SpoolKeeps
  BY DEF SpoolKeeps
<1>2. ASSUME NEW n, Kept(n) PROVE Kept(n)'
  BY <1>1, <1>2, KeptStays DEF DInv
<1> QED BY <1>2 DEF Exports, At

(* A step of p that leaves the area as it is.                              *)
LEMMA ExportsStay ==
  ASSUME DInv, Exports, NEW p \in Procs, Alone(p), spool' = spool, exported' = exported,
         p \in Runners => /\ st'[p].pc \notin {"put", "rm"}
                          /\ st'[p].pc = "free" => st'[p].done = FALSE
  PROVE  Exports'
BY ExportsGoOn DEF SpoolKeeps

LEMMA StepExports ==
  ASSUME LInv, DInv, Exports, NEW p \in Procs, Step(p) PROVE Exports'
<1>0. States /\ spool' = spool /\ exported' = exported /\ SpoolKeeps
  BY DEF LInv, Step, Acquire, Busy, Mark, SendLockMail, Release, files, SpoolKeeps
<1>1. CASE Acquire(p)
  <2>1. Alone(p) /\ st'[p].pc = IF p \in Runners THEN "path" ELSE "scan"
    BY <1>0, <1>1, AcquireIs
  <2> QED BY <1>0, <2>1, ExportsStay
<1>2. CASE Busy(p)
  <2>1. Alone(p) /\ st'[p].pc \in {"warn", Refused(p)}
    BY <1>0, <1>2, BusyIs
  <2>2. st'[p].pc \in {"warn", "next", "idle"}
    BY <2>1, RefusedIs DEF RefusedAt
  <2> QED BY <1>0, <2>1, <2>2, ExportsStay
<1>3. CASE Mark(p) \/ SendLockMail(p)
  <2>1. Goto(p, "mail") \/ Goto(p, Refused(p))
    BY <1>3 DEF Mark, SendLockMail, At
  <2>2. Alone(p) /\ st'[p].pc \in {"mail", Refused(p)}
    BY <1>0, <2>1, GotoIs
  <2>3. st'[p].pc \in {"mail", "next", "idle"}
    BY <2>2, RefusedIs DEF RefusedAt
  <2> QED BY <1>0, <2>2, <2>3, ExportsStay
<1>4. CASE Release(p)
  <2>1. /\ Alone(p) /\ st[p].pc = "free"
        /\ p \in Runners => /\ st'[p].pc = IF st[p].done THEN "rm" ELSE "next"
                            /\ st'[p].at = st[p].at
    BY <1>0, <1>4, ReleaseIs
  <2>2. CASE p \in Runners /\ st[p].done
    <3>1. Kept(st[p].at)
      BY <2>1, <2>2 DEF Exports, At
    <3>2. st'[p].pc = "rm" /\ st'[p].at = st[p].at
      BY <2>1, <2>2
    <3> QED BY <1>0, <2>1, <3>1, <3>2, ExportsGoOn
  <2>3. CASE ~ (p \in Runners /\ st[p].done)
    <3>1. p \in Runners => st'[p].pc = "next"
      BY <2>1, <2>3
    <3> QED BY <1>0, <2>1, <3>1, ExportsStay
  <2> QED BY <2>2, <2>3
<1> QED BY <1>1, <1>2, <1>3, <1>4 DEF Step

(* What Put takes away is the file that the export has opened.             *)
LEMMA PutKeeps ==
  ASSUME LInv, DInv, NEW r \in Runners, st[r].pc = "put", NEW bad \in BOOLEAN,
         spool' = Put(Message(r, bad))
  PROVE  SpoolKeeps /\ Message(r, bad) \in spool'
<1>1. Message(r, bad).file = st[r].file
  BY MessageIs
<1> DEFINE m == Message(r, bad)
<1> HIDE DEF m
<1>2. spool' = Put(m) /\ m.file = st[r].file
  BY <1>1 DEF m
<1>3. SpoolKeeps /\ m \in spool'
  BY <1>2 DEF SpoolKeeps, Put
<1> QED BY <1>3 DEF m

LEMMA KillExports ==
  ASSUME LInv, DInv, Exports, NEW p \in Procs, Kill(p) PROVE Exports'
<1>1. Alone(p) /\ st'[p].pc = "idle" /\ exported' = exported
  BY KillIs DEF Ended, LInv, Kill
<1>2. SpoolKeeps
  <2>1. CASE spool' = spool
    BY <2>1 DEF SpoolKeeps
  <2>2. CASE At(p, "put") /\ \E bad \in BOOLEAN : spool' = Put(Message(p, bad))
    <3>1. p \in Runners
      BY <2>2, Sides DEF At, LInv, States, TossAt
    <3> QED BY <2>2, <3>1, PutKeeps DEF At
  <2> QED BY <2>1, <2>2 DEF Kill
<1> QED BY <1>1, <1>2, ExportsGoOn

LEMMA ExportPutExports ==
  ASSUME LInv, DInv, Exports, NEW r \in Runners, ExportPut(r) PROVE Exports'
<1>1. /\ Alone(r) /\ st[r].pc = "put" /\ st'[r].pc = "free" /\ st'[r].at = st[r].at
  BY ExportPutIs DEF LInv
<1>2. exported' = exported /\ spool' = Put(Message(r, FALSE))
  BY DEF ExportPut
<1>3. SpoolKeeps /\ Message(r, FALSE) \in spool'
  BY <1>1, <1>2, PutKeeps
<1>4. \A q \in Runners : st'[q].pc # "put"
  <2>1. ASSUME NEW q \in Runners, q # r, st[q].pc = "put" PROVE FALSE
    BY <1>1, <2>1, OneHolds, Sides, HoldingIs DEF LInv
  <2> QED BY <1>1, <2>1, Sides DEF Alone, Rests
<1>5. Kept(st[r].at)'
  <2>1. Message(r, FALSE).id = Own(st'[r].at) /\ ~ Message(r, FALSE).bad
    BY <1>1, MessageIs
  <2> DEFINE m == Message(r, FALSE)
  <2> HIDE DEF m
  <2>2. m \in spool' /\ m.id = Own(st'[r].at) /\ ~ m.bad
    BY <1>3, <2>1 DEF m
  <2> QED BY <2>2, <1>4 DEF Kept, At
<1> QED BY <1>1, <1>2, <1>3, <1>5, ExportsGoOn, Sides

LEMMA ExportExports ==
  ASSUME LInv, DInv, Exports, NEW r \in Runners, Export(r) \/ ExportFails(r) PROVE Exports'
<1>0. /\ States /\ r \in Procs
      /\ st[r].pc \in {"lock", "warn", "mail", "path", "put"} => st[r].done = FALSE
  BY Sides DEF LInv, DInv, Jobs
<1>1. CASE RunQueue(r)
  BY <1>0, <1>1, RunQueueIs, ExportsStay DEF RunQueue, files
<1>2. CASE NextJob(r)
  BY <1>0, <1>2, NextJobIs, ExportsStay DEF NextJob, files
<1>3. CASE QueueDone(r)
  BY <1>0, <1>3, QueueDoneIs, ExportsStay DEF QueueDone, Ended, files
<1>4. CASE ExportPath(r)
  <2>1. /\ Alone(r) /\ st[r].pc = "path" /\ st'[r].pc \in {"put", "free"}
        /\ st'[r].done = st[r].done
        /\ st'[r].pc = "put" => st'[r].file = MaxFile + 1
    BY <1>0, <1>4, ExportPathIs
  <2>2. spool' = spool /\ exported' = exported /\ SpoolKeeps
    BY <1>4 DEF ExportPath, files, SpoolKeeps
  <2>3. st'[r].done = FALSE
    BY <1>0, <2>1
  <2> QED BY <1>0, <2>1, <2>2, <2>3, ExportsGoOn
<1>5. CASE ExportPut(r)
  BY <1>5, ExportPutExports
<1>6. CASE RemoveJob(r)
  <2>1. Goto(r, "next") /\ st[r].pc = "rm"
    BY <1>6 DEF RemoveJob, At
  <2>2. Alone(r) /\ st'[r].pc = "next"
    BY <1>0, <2>1, GotoIs
  <2>3. spool' = spool /\ exported' = exported \cup {st[r].at} /\ SpoolKeeps
    BY <1>6 DEF RemoveJob, SpoolKeeps
  <2>4. Kept(st[r].at)
    BY <2>1 DEF Exports, At
  <2> QED BY <1>0, <2>2, <2>3, <2>4, ExportsGoOn
<1>7. CASE ExportFails(r)
  <2>1. Goto(r, "free") /\ st[r].pc \in {"path", "put"} /\ spool' = spool /\ exported' = exported
    BY <1>7 DEF ExportFails, files
  <2>2. Alone(r) /\ st'[r].pc = "free" /\ st'[r].done = st[r].done
    BY <1>0, <2>1, GotoGoes DEF GoesTo
  <2>3. st'[r].done = FALSE
    BY <1>0, <2>1, <2>2
  <2> QED BY <1>0, <2>1, <2>2, <2>3, ExportsStay
<1> QED BY <1>1, <1>2, <1>3, <1>4, <1>5, <1>6, <1>7 DEF Export

LEMMA ImportExports ==
  ASSUME LInv, DInv, Exports, NEW p \in Tossers,
         Start(p) \/ Import(p) \/ Index(p) \/ ImportFails(p)
  PROVE  Exports'
<1>1. spool' = spool /\ exported' = exported
  BY DEF Start, Import, Index, ImportFails, Scan, Count, WriteText, Link, Pass, files
<1>2. Alone(p)
  <2>1. CASE WriteText(p) \/ ImportFails(p)
    BY <2>1, GotoIs, Sides DEF WriteText, ImportFails, LInv
  <2> QED BY <2>1, StartIs, ScanGoes, CountIs, LinkGoes, PassIs, IndexIs DEF LInv, Import
<1> QED BY <1>1, <1>2, Sides, ExportsStay

LEMMA ExportsInit == Init => Exports
<1> SUFFICES ASSUME Init PROVE Exports
  OBVIOUS
<1>1. exported = {} /\ st = [p \in Procs |-> Idle]
  BY DEF Init
<1>2. \A p \in Procs : st[p].pc = "idle"
  BY <1>1, IdleIs
<1> QED BY <1>1, <1>2, Sides DEF Exports, At

LEMMA ExportsNext == LInv /\ DInv /\ Exports /\ [Next]_vars => Exports'
<1> SUFFICES ASSUME LInv, DInv, Exports, [Next]_vars PROVE Exports'
  OBVIOUS
<1>1. CASE UNCHANGED vars
  BY <1>1, ExportsSame DEF vars, files
<1>2. CASE Next
  <2>1. CASE Others
    <3>1. st' = st /\ exported' = exported /\ \A m \in spool : m \in spool'
      <4>1. CASE SaveText \/ Arrive \/ Age \/ RemoveLock
        BY <4>1 DEF SaveText, Arrive, Age, RemoveLock, files
      <4>2. ASSUME NEW n \in 1 .. last, QueueExport(n) \/ SessionEnds(n) \/ DeleteText(n)
            PROVE  st' = st /\ exported' = exported /\ \A m \in spool : m \in spool'
        BY <4>2 DEF QueueExport, SessionEnds, DeleteText, files
      <4>3. ASSUME NEW r \in Runners, SignalRunner(r)
            PROVE  st' = st /\ exported' = exported /\ \A m \in spool : m \in spool'
        BY <4>3 DEF SignalRunner, files
      <4> QED BY <2>1, <4>1, <4>2, <4>3 DEF Others
    <3> QED BY <3>1, ExportsSame
  <2>2. ASSUME NEW p \in Procs, Step(p) \/ Kill(p) PROVE Exports'
    BY <2>2, StepExports, KillExports
  <2>3. ASSUME NEW p \in Tossers, Start(p) \/ Import(p) \/ Index(p) \/ ImportFails(p) PROVE Exports'
    BY <2>3, ImportExports
  <2>4. ASSUME NEW r \in Runners, Export(r) \/ ExportFails(r) PROVE Exports'
    BY <2>4, ExportExports
  <2> QED BY <1>2, <2>1, <2>2, <2>3, <2>4, NextIs
<1> QED BY <1>1, <1>2

(* What was exported stays in the area: a job is removed only after its    *)
(* message was written whole, and no export or kill writes over it.        *)
THEOREM ExportsStayWritten == Spec => []ExportsKept
<1>1. Init => LInv /\ DInv /\ Exports
  BY LocksInit, DataInit, ExportsInit
<1>2. LInv /\ DInv /\ Exports /\ [Next]_vars => (LInv /\ DInv /\ Exports)'
  BY LocksNext, DataNext, ExportsNext
<1>3. LInv /\ DInv /\ Exports => ExportsKept
  BY DEF Exports, Kept, ExportsKept
<1> QED BY <1>1, <1>2, <1>3, PTL DEF Spec

-----------------------------------------------------------------------------
(* Links are missing only where an import was cut short.                   *)
LEMMA NotLinkedFinite ==
  ASSUME DInv
  PROVE  IsFiniteSet(NotLinked) /\ Cardinality(NotLinked) \in Nat
<1>1. NotLinked \subseteq 1 .. last /\ last \in Nat
  BY DEF DInv, Texts, NotLinked, Unlinked, Existing
<1>2. IsFiniteSet(1 .. last)
  BY <1>1, FS_Interval
<1> QED BY <1>1, <1>2, FS_Subset, FS_CardinalityType

LEMMA LinkedGoesOn ==
  ASSUME DInv, Linked, stops' \in {stops, stops + 1},
         \/ NotLinked' \subseteq NotLinked
         \/ stops' = stops + 1 /\ \E x : NotLinked' \subseteq NotLinked \cup {x}
  PROVE  Linked'
<1>0. stops \in Nat /\ Cardinality(NotLinked) <= stops
  BY DEF Linked
<1>1. IsFiniteSet(NotLinked) /\ Cardinality(NotLinked) \in Nat
  BY NotLinkedFinite
<1>2. CASE NotLinked' \subseteq NotLinked
  <2> DEFINE a == Cardinality(NotLinked)
             b == Cardinality(NotLinked')
  <2>1. b \in Nat /\ b <= a
    BY <1>1, <1>2, FS_Subset, FS_CardinalityType
  <2>2. a \in Nat /\ a <= stops
    BY <1>0, <1>1
  <2>3. stops' \in Nat /\ b <= stops'
    <3> HIDE DEF a, b
    <3> QED BY <1>0, <2>1, <2>2
  <2> QED BY <2>3 DEF Linked
<1>3. CASE stops' = stops + 1 /\ \E x : NotLinked' \subseteq NotLinked \cup {x}
  <2>1. PICK x : NotLinked' \subseteq NotLinked \cup {x}
    BY <1>3
  <2> DEFINE u == NotLinked \cup {x}
             a == Cardinality(NotLinked)
             b == Cardinality(NotLinked')
             c == Cardinality(u)
  <2>2. IsFiniteSet(u)
    BY <1>1, FS_AddElement
  <2>3. c = a \/ c = a + 1
    BY <1>1, FS_AddElement
  <2>4. b \in Nat /\ b <= c
    BY <2>1, <2>2, FS_Subset, FS_CardinalityType
  <2>5. a \in Nat /\ a <= stops
    BY <1>0, <1>1
  <2>6. stops' \in Nat /\ b <= stops'
    <3> HIDE DEF a, b, c
    <3> QED BY <1>0, <1>3, <2>3, <2>4, <2>5
  <2> QED BY <2>6 DEF Linked
<1> QED BY <1>2, <1>3

(* The conference stays: only p can have been about to write a link.       *)
LEMMA ThreadsStay ==
  ASSUME NEW p \in Procs, Alone(p), UNCHANGED << texts, deleted, links >>
  PROVE  /\ st[p].pc # "link" => NotLinked' \subseteq NotLinked
         /\ NotLinked' \subseteq NotLinked \cup {st[p].num}
<1>1. Unlinked' = Unlinked
  BY DEF Unlinked, Existing
<1>2. \A q \in Tossers : q # p => st'[q].pc = st[q].pc /\ st'[q].num = st[q].num
  BY Sides DEF Alone, Rests
<1> QED BY <1>1, <1>2 DEF NotLinked, At

(* A step of p that is not about to write a link.                          *)
LEMMA LinkedStays ==
  ASSUME DInv, Linked, NEW p \in Procs, Alone(p), UNCHANGED << texts, deleted, links >>,
         (stops' = stops /\ st[p].pc # "link") \/ stops' = stops + 1
  PROVE  Linked'
BY ThreadsStay, LinkedGoesOn

LEMMA StepLinked ==
  ASSUME LInv, DInv, Linked, NEW p \in Procs, Step(p) PROVE Linked'
<1>0. States /\ UNCHANGED << texts, deleted, links >>
  BY DEF LInv, Step, Acquire, Busy, Mark, SendLockMail, Release, conf
<1>1. CASE Acquire(p)
  <2>1. Alone(p) /\ st[p].pc = "lock" /\ stops' = stops
    BY <1>0, <1>1, AcquireIs DEF Acquire
  <2> QED BY <1>0, <2>1, LinkedStays
<1>2. CASE Busy(p)
  <2>1. Alone(p) /\ st[p].pc = "lock" /\ stops' = stops
    BY <1>0, <1>2, BusyIs DEF Busy
  <2> QED BY <1>0, <2>1, LinkedStays
<1>3. CASE Mark(p) \/ SendLockMail(p)
  <2>1. /\ Goto(p, "mail") \/ Goto(p, Refused(p))
        /\ st[p].pc \in {"warn", "mail"} /\ (stops' = stops \/ stops' = stops + 1)
    BY <1>3 DEF Mark, SendLockMail, At, Stop
  <2>2. Alone(p)
    BY <1>0, <2>1, GotoIs
  <2> QED BY <1>0, <2>1, <2>2, LinkedStays
<1>4. CASE Release(p)
  <2>1. Alone(p) /\ st[p].pc = "free" /\ stops' = stops
    BY <1>0, <1>4, ReleaseIs DEF Release
  <2> QED BY <1>0, <2>1, LinkedStays
<1> QED BY <1>1, <1>2, <1>3, <1>4 DEF Step

LEMMA KillLinked ==
  ASSUME LInv, DInv, Linked, NEW p \in Procs, Kill(p) \/ ImportFails(p) \/ ExportFails(p)
  PROVE  Linked'
<1>1. CASE Kill(p)
  <2>1. Alone(p) /\ stops' = stops + 1 /\ UNCHANGED << texts, deleted, links >>
    BY <1>1, KillIs DEF Ended, LInv, Kill, Stop, conf
  <2> QED BY <2>1, LinkedStays
<1>2. CASE ImportFails(p) \/ ExportFails(p)
  <2>1. Alone(p) /\ stops' = stops + 1 /\ UNCHANGED << texts, deleted, links >>
    BY <1>2, GotoIs DEF LInv, ImportFails, ExportFails, Stop, conf
  <2> QED BY <2>1, LinkedStays
<1> QED BY <1>1, <1>2

LEMMA ExportLinked ==
  ASSUME LInv, DInv, Linked, NEW r \in Runners, Export(r) PROVE Linked'
<1>0. /\ States /\ UNCHANGED << texts, deleted, links >> /\ stops' = stops /\ r \in Procs
  BY Sides DEF LInv, Export, RunQueue, NextJob, QueueDone, ExportPath, ExportPut, RemoveJob, conf
<1>1. st[r].pc # "link"
  BY DEF LInv, States, RunAt
<1>2. Alone(r)
  <2>1. CASE RemoveJob(r)
    BY <1>0, <2>1, GotoIs DEF RemoveJob
  <2>2. CASE QueueDone(r)
    BY <1>0, <2>2, QueueDoneIs DEF Ended
  <2> QED BY <1>0, <2>1, <2>2, RunQueueIs, NextJobIs, ExportPathIs, ExportPutIs DEF Export
<1> QED BY <1>0, <1>1, <1>2, LinkedStays

(* The text that an import writes is about to be linked.                   *)
LEMMA WriteLinked ==
  ASSUME LInv, DInv, Linked, NEW p \in Tossers, WriteText(p) PROVE Linked'
<1>1. /\ st[p].pc = "write" /\ GoesTo(p, "link")
      /\ texts' = With(st[p].num, [id |-> Item(p).id, reply |-> Item(p).reply, local |-> FALSE,
                                   com |-> Parent(p)])
      /\ deleted' = deleted /\ links' = links /\ stops' = stops
  <2>1. Goto(p, "link") /\ st[p].pc = "write"
    BY DEF WriteText, At
  <2>2. GoesTo(p, "link")
    BY <2>1, GotoGoes, Sides DEF LInv
  <2> QED BY <2>1, <2>2 DEF WriteText
<1>2. /\ st'[p].pc = "link" /\ st'[p].num = st[p].num
      /\ \A q \in Procs \ {p} : st'[q] = st[q]
  BY <1>1 DEF GoesTo
<1> DEFINE n == st[p].num
<1>3. n \notin DOMAIN texts /\ DOMAIN texts' = DOMAIN texts \cup {n}
  BY <1>1 DEF DInv, Imports, ChosenOf, With
<1>4. \A k \in DOMAIN texts : texts'[k] = texts[k]
  BY <1>1, <1>3 DEF With
<1>5. ASSUME NEW k \in NotLinked' PROVE k \in NotLinked
  <2>1. /\ k \in Existing' /\ texts'[k].com \in Existing' /\ << texts'[k].com, k >> \notin links'
        /\ \A q \in Tossers : ~ (st'[q].pc = "link" /\ st'[q].num = k)
    BY DEF NotLinked, Unlinked, At
  <2>2. k # n
    BY <1>2, <2>1
  <2>3. k \in Existing /\ texts'[k] = texts[k]
    BY <1>1, <1>3, <1>4, <2>1, <2>2 DEF Existing
  <2>4. texts[k].com \in Existing
    <3>1. texts[k].com \in DOMAIN texts \cup {n} /\ texts[k].com \notin deleted
      BY <1>1, <1>3, <2>1, <2>3 DEF Existing
    <3>2. k \in DOMAIN texts
      BY <2>3 DEF Existing
    <3>3. texts[k].com # 0 => texts[k].com \in DOMAIN texts
      BY <3>2 DEF DInv, Parents
    <3>4. n # 0
      BY <1>1, ItemIs
    <3> QED BY <3>1, <3>3, <3>4 DEF Existing
  <2>5. << texts[k].com, k >> \notin links
    BY <1>1, <2>1, <2>3
  <2>6. ASSUME NEW q \in Tossers PROVE ~ (st[q].pc = "link" /\ st[q].num = k)
    BY <1>1, <1>2, <2>1, Sides
  <2> QED BY <2>3, <2>4, <2>5, <2>6 DEF NotLinked, Unlinked, At
<1> QED BY <1>1, <1>5, LinkedGoesOn

(* The link that it writes is the one that was missing.                    *)
LEMMA LinkLinked ==
  ASSUME LInv, DInv, Linked, NEW p \in Tossers, Link(p) PROVE Linked'
<1>1. /\ Alone(p) /\ st[p].pc = "link" /\ p \in Procs
  BY LinkGoes, Sides DEF LInv
<1>2. /\ texts' = texts /\ deleted' = deleted /\ stops' = stops
      /\ links' = IF Parent(p) = 0 THEN links ELSE links \cup {<< Parent(p), st[p].num >>}
  BY DEF Link
<1>3. texts[st[p].num].com = Parent(p)
  <2>1. texts[st[p].num] = [id |-> Item(p).id, reply |-> Item(p).reply, local |-> FALSE,
                            com |-> Parent(p)]
    BY <1>1 DEF DInv, Imports, ChosenOf
  <2> QED BY <2>1
<1>4. 0 \notin Existing
  BY DEF DInv, Texts, Existing
<1>5. ASSUME NEW k \in NotLinked' PROVE k \in NotLinked
  <2>1. /\ k \in Existing /\ texts[k].com \in Existing /\ << texts[k].com, k >> \notin links'
        /\ \A q \in Tossers : ~ (st'[q].pc = "link" /\ st'[q].num = k)
    BY <1>2 DEF NotLinked, Unlinked, At, Existing
  <2>2. k # st[p].num
    <3> SUFFICES ASSUME k = st[p].num PROVE FALSE
      OBVIOUS
    <3>1. Parent(p) # 0
      BY <1>3, <1>4, <2>1
    <3> QED BY <1>2, <1>3, <2>1, <3>1
  <2>3. << texts[k].com, k >> \notin links
    BY <1>2, <2>1
  <2>4. ASSUME NEW q \in Tossers PROVE ~ (st[q].pc = "link" /\ st[q].num = k)
    <3>1. CASE q = p
      BY <2>2, <3>1
    <3>2. CASE q # p
      BY <1>1, <2>1, <3>2, Sides DEF Alone, Rests
    <3> QED BY <3>1, <3>2
  <2> QED BY <2>1, <2>3, <2>4 DEF NotLinked, Unlinked, At
<1> QED BY <1>2, <1>5, LinkedGoesOn

LEMMA ImportLinked ==
  ASSUME LInv, DInv, Linked, NEW p \in Tossers, Start(p) \/ Import(p) \/ Index(p) PROVE Linked'
<1>0. States /\ p \in Procs
  BY Sides DEF LInv
<1>1. CASE WriteText(p)
  BY <1>1, WriteLinked
<1>2. CASE Link(p)
  BY <1>2, LinkLinked
<1>3. CASE Start(p) \/ Scan(p) \/ Count(p) \/ Pass(p) \/ Index(p)
  <2>1. stops' = stops /\ UNCHANGED << texts, deleted, links >>
    BY <1>3 DEF Start, Scan, Count, Pass, Index, conf
  <2>2. Alone(p) /\ st[p].pc # "link"
    BY <1>0, <1>3, StartIs, ScanGoes, CountIs, PassIs, IndexIs
  <2> QED BY <1>0, <2>1, <2>2, LinkedStays
<1> QED BY <1>1, <1>2, <1>3 DEF Import

(* Users save texts with their links, and delete texts with theirs.        *)
LEMMA SaveTextLinked ==
  ASSUME LInv, DInv, Linked, SaveText PROVE Linked'
<1>0. DOMAIN texts \subseteq 1 .. last /\ last \in Nat /\ 0 \notin Existing
  BY DEF DInv, Texts, Existing
<1>1. PICK com \in {0} \cup Existing :
        /\ texts' = With(last + 1, [id |-> NoId, reply |-> NoId, local |-> TRUE, com |-> com])
        /\ links' = IF com = 0 THEN links ELSE links \cup {<< com, last + 1 >>}
  BY DEF SaveText
<1>2. deleted' = deleted /\ st' = st /\ stops' = stops
  BY DEF SaveText
<1>3. /\ DOMAIN texts' = DOMAIN texts \cup {last + 1} /\ texts'[last + 1].com = com
      /\ last + 1 \notin DOMAIN texts
  BY <1>0, <1>1 DEF With
<1>4. \A k \in DOMAIN texts : texts'[k] = texts[k]
  BY <1>1, <1>3 DEF With
<1>5. ASSUME NEW k \in NotLinked' PROVE k \in NotLinked
  <2>1. /\ k \in Existing' /\ texts'[k].com \in Existing' /\ << texts'[k].com, k >> \notin links'
        /\ \A q \in Tossers : ~ (st[q].pc = "link" /\ st[q].num = k)
    BY <1>2 DEF NotLinked, Unlinked, At
  <2>2. k # last + 1
    <3> SUFFICES ASSUME k = last + 1 PROVE FALSE
      OBVIOUS
    <3>1. com # 0
      <4>1. 0 \notin Existing'
        BY <1>0, <1>3 DEF Existing
      <4> QED BY <4>1, <1>3, <2>1
    <3> QED BY <1>1, <1>3, <2>1, <3>1
  <2>3. k \in Existing /\ k \in DOMAIN texts /\ texts'[k] = texts[k]
    BY <1>2, <1>3, <1>4, <2>1, <2>2 DEF Existing
  <2>4. texts[k].com \in Existing
    <3>1. texts[k].com \in DOMAIN texts \cup {last + 1} /\ texts[k].com \notin deleted
      BY <1>2, <1>3, <2>1, <2>3 DEF Existing
    <3>2. texts[k].com # 0 => texts[k].com \in DOMAIN texts
      BY <2>3 DEF DInv, Parents
    <3>3. last + 1 # 0
      BY <1>0
    <3> QED BY <3>1, <3>2, <3>3 DEF Existing
  <2>5. << texts[k].com, k >> \notin links
    BY <1>1, <2>1, <2>3
  <2> QED BY <2>1, <2>3, <2>4, <2>5 DEF NotLinked, Unlinked, At
<1> QED BY <1>2, <1>5, LinkedGoesOn

LEMMA DeleteTextLinked ==
  ASSUME LInv, DInv, Linked, NEW n \in 1 .. last, DeleteText(n) PROVE Linked'
<1>1. /\ deleted' = deleted \cup {n} /\ links' = { l \in links : l[1] # n }
      /\ texts' = texts /\ st' = st /\ stops' = stops + 1
  BY DEF DeleteText, Stop
<1>2. ASSUME NEW k \in NotLinked' PROVE k \in NotLinked
  <2>1. /\ k \in Existing' /\ texts[k].com \in Existing' /\ << texts[k].com, k >> \notin links'
        /\ \A q \in Tossers : ~ (st[q].pc = "link" /\ st[q].num = k)
    BY <1>1 DEF NotLinked, Unlinked, At
  <2>2. k \in Existing /\ texts[k].com \in Existing /\ texts[k].com # n
    BY <1>1, <2>1 DEF Existing
  <2>3. << texts[k].com, k >> \notin links
    BY <1>1, <2>1, <2>2
  <2> QED BY <2>1, <2>2, <2>3 DEF NotLinked, Unlinked, At
<1> QED BY <1>1, <1>2, LinkedGoesOn

LEMMA OthersLinked == ASSUME LInv, DInv, Linked, Others PROVE Linked'
<1>1. CASE SaveText
  BY <1>1, SaveTextLinked
<1>2. ASSUME NEW n \in 1 .. last, DeleteText(n) PROVE Linked'
  BY <1>2, DeleteTextLinked
<1>3. ASSUME UNCHANGED << texts, deleted, links, st >>, stops' \in {stops, stops + 1} PROVE Linked'
  <2>1. NotLinked' = NotLinked
    BY <1>3 DEF NotLinked, Unlinked, Existing, At
  <2> QED BY <1>3, <2>1, LinkedGoesOn
<1>4. CASE Arrive \/ Age \/ RemoveLock
  BY <1>3, <1>4 DEF Arrive, Age, RemoveLock, conf
<1>5. ASSUME NEW n \in 1 .. last, QueueExport(n) \/ SessionEnds(n) PROVE Linked'
  BY <1>3, <1>5 DEF QueueExport, SessionEnds, Stop, conf
<1>6. ASSUME NEW r \in Runners, SignalRunner(r) PROVE Linked'
  BY <1>3, <1>6 DEF SignalRunner, Stop, conf
<1> QED BY <1>1, <1>2, <1>4, <1>5, <1>6 DEF Others

LEMMA LinkedInit == Init => Linked
<1> SUFFICES ASSUME Init PROVE Linked
  OBVIOUS
<1>1. texts = [n \in {1} |-> [id |-> NoId, reply |-> NoId, local |-> TRUE, com |-> 0]] /\ stops = 0
  BY DEF Init
<1>2. DOMAIN texts = {1} /\ texts[1].com = 0
  BY <1>1
<1>3. NotLinked = {}
  BY <1>2 DEF NotLinked, Unlinked, Existing
<1>4. Cardinality(NotLinked) = 0
  BY <1>3, FS_EmptySet
<1> QED BY <1>1, <1>4 DEF Linked

LEMMA LinkedNext == LInv /\ DInv /\ Linked /\ [Next]_vars => Linked'
<1> SUFFICES ASSUME LInv, DInv, Linked, [Next]_vars PROVE Linked'
  OBVIOUS
<1>1. CASE UNCHANGED vars
  <2>1. NotLinked' = NotLinked /\ stops' = stops
    BY <1>1 DEF NotLinked, Unlinked, Existing, At, vars, conf
  <2> QED BY <2>1, LinkedGoesOn
<1>2. CASE Next
  <2>1. CASE Others
    BY <2>1, OthersLinked
  <2>2. ASSUME NEW p \in Procs, Step(p) \/ Kill(p) PROVE Linked'
    BY <2>2, StepLinked, KillLinked
  <2>3. ASSUME NEW p \in Tossers, Start(p) \/ Import(p) \/ Index(p) \/ ImportFails(p) PROVE Linked'
    BY <2>3, ImportLinked, KillLinked, Sides
  <2>4. ASSUME NEW r \in Runners, Export(r) \/ ExportFails(r) PROVE Linked'
    BY <2>4, ExportLinked, KillLinked, Sides
  <2> QED BY <1>2, <2>1, <2>2, <2>3, <2>4, NextIs
<1> QED BY <1>1, <1>2

(* A text comments an earlier one, the one that its message names, and is  *)
(* listed there, unless something cut the import short: never more texts   *)
(* are missing from the lists than imports were cut.                       *)
THEOREM ThreadsAreTrue == Spec => []ThreadsTrue
<1>1. Init => LInv /\ DInv /\ Linked
  BY LocksInit, DataInit, LinkedInit
<1>2. LInv /\ DInv /\ Linked /\ [Next]_vars => (LInv /\ DInv /\ Linked)'
  BY LocksNext, DataNext, LinkedNext
<1>3. LInv /\ DInv /\ Linked => ThreadsTrue
  <2> SUFFICES ASSUME DInv, Linked PROVE ThreadsTrue
    OBVIOUS
  <2>1. ASSUME NEW n \in Existing
        PROVE  /\ texts[n].com < n
               /\ ~texts[n].local /\ texts[n].com \in Existing =>
                    TextId(texts[texts[n].com], texts[n].com) = texts[n].reply
    <3>1. n \in DOMAIN texts /\ 0 \notin Existing
      BY DEF Existing, DInv, Texts
    <3> QED BY <3>1 DEF DInv, Parents
  <2>2. Cardinality(NotLinked) <= stops
    BY DEF Linked
  <2> QED BY <2>1, <2>2 DEF ThreadsTrue, NotLinked
<1> QED BY <1>1, <1>2, <1>3, PTL DEF Spec

-----------------------------------------------------------------------------
(* A message is in the conference once.                                    *)
NInv == Distinct /\ OwnIds /\ Covered

(* The numbers that a MSGID tells apart.                                   *)
LEMMA OwnIs ==
  /\ \A a \in Nums : a \in Nat /\ Own(a) = << "own", a >>
  /\ \A a, b \in Nums : Own(a) = Own(b) => a = b
  /\ \A a : Own(a) # NoId
<1>1. ASSUME NEW a \in Nums PROVE a \in Nat /\ a % Serials = a
  BY <1>1, SerialsAssumption DEF Nums
<1> QED BY <1>1 DEF Own, NoId

(* Outside of an import there is nothing to know.                          *)
LEMMA NoNames ==
  ASSUME NEW p \in Tossers, st'[p].pc \notin Importing
  PROVE  OwnOf(p)' /\ CoveredOf(p)'
BY DEF OwnOf, CoveredOf, Importing, At

(* What an import knows, when only new texts were written.                 *)
LEMMA NamesRest ==
  ASSUME DInv, NEW p \in Tossers, Rests(p), OwnOf(p), CoveredOf(p),
         st[p].pc = "index" =>
           \A m \in spool' : (\E o \in spool : o.id = m.id) \/ \A k \in Nums : m.id = Own(k) => k <= 1,
         st[p].pc \in Importing =>
           \A n \in Existing' : \/ n \in Existing /\ texts'[n] = texts[n]
                                \/ n \in Nat /\ texts'[n].local /\ n > last
  PROVE  OwnOf(p)' /\ CoveredOf(p)'
<1>0. /\ st'[p].pc = st[p].pc /\ st'[p].at = st[p].at /\ st'[p].refs = st[p].refs
      /\ st'[p].items = st[p].items /\ st'[p].num = st[p].num
  BY DEF Rests
<1>1. st[p].pc \in Importing => st[p].at \in Nat /\ 1 <= st[p].at /\ st[p].at <= last /\ last \in Nat
  BY DEF DInv, Imports, RefsOf, Texts
<1>2. OwnOf(p)'
  <2>1. ASSUME NEW k \in Nums, st[p].pc = "index", NEW m \in spool', m.id = Own(k)
        PROVE  k <= st[p].at
    <3>1. CASE \E o \in spool : o.id = m.id
      BY <2>1, <3>1 DEF OwnOf, At
    <3>2. CASE ~ \E o \in spool : o.id = m.id
      <4>1. k <= 1
        BY <2>1, <3>2
      <4> QED BY <1>1, <2>1, <4>1, OwnIs DEF Importing
    <3> QED BY <3>1, <3>2
  <2>2. ASSUME NEW k \in Nums, st[p].pc \in {"loop", "write", "link"},
               NEW i \in DOMAIN st[p].items, st[p].items[i].id = Own(k)
        PROVE  k <= st[p].at
    BY <2>2 DEF OwnOf
  <2> QED BY <1>0, <2>1, <2>2 DEF OwnOf, At
<1>3. CoveredOf(p)'
  <2> SUFFICES ASSUME st[p].pc \in Importing, NEW n \in Existing',
                      TextId(texts'[n], n) # NoId,
                      n <= st[p].at \/ ~texts'[n].local,
                      ~ (st[p].pc = "link" /\ n = st[p].num)
               PROVE  \E i \in DOMAIN st[p].refs : st[p].refs[i].id = TextId(texts'[n], n)
    BY <1>0 DEF CoveredOf, At
  <2>1. n \in Existing /\ texts'[n] = texts[n]
    <3> SUFFICES ASSUME n \in Nat, texts'[n].local, n > last PROVE FALSE
      OBVIOUS
    <3>1. n <= st[p].at
      OBVIOUS
    <3>2. n \in DOMAIN texts'
      BY DEF Existing
    <3> QED BY <1>1, <3>1
  <2> QED BY <2>1 DEF CoveredOf, At
<1> QED BY <1>2, <1>3

(* A step of p that writes no text and no message.                         *)
LEMMA NamesGoOn ==
  ASSUME DInv, NInv, NEW p \in Procs, Alone(p), texts' = texts, deleted' = deleted,
         spool' = spool, last' \in Nat, last <= last',
         p \in Tossers => OwnOf(p)' /\ CoveredOf(p)'
  PROVE  NInv'
<1>1. Existing' = Existing
  BY DEF Existing
<1>2. Distinct'
  BY <1>1 DEF NInv, Distinct
<1>3. ASSUME NEW q \in Tossers PROVE OwnOf(q)' /\ CoveredOf(q)'
  <2>1. CASE q = p
    BY <2>1
  <2>2. CASE q # p
    <3>1. Rests(q) /\ OwnOf(q) /\ CoveredOf(q)
      BY <2>2, Sides DEF Alone, NInv, OwnIds, Covered
    <3> QED BY <1>1, <3>1, NamesRest
  <2> QED BY <2>1, <2>2
<1>4. /\ \A n \in DOMAIN texts' : \A k \in Nums : texts'[n].id = Own(k) => k <= last'
      /\ \A m \in spool' : \A k \in Nums : m.id = Own(k) => k <= last'
  <2>1. /\ \A n \in DOMAIN texts : \A k \in Nums : texts[n].id = Own(k) => k <= last
        /\ \A m \in spool : \A k \in Nums : m.id = Own(k) => k <= last
    BY DEF NInv, OwnIds
  <2>2. \A k \in Nums : k <= last => k <= last'
    BY OwnIs DEF DInv, Texts
  <2> QED BY <2>1, <2>2
<1> QED BY <1>2, <1>3, <1>4 DEF NInv, OwnIds, Covered

(* A step of p outside of imports.                                         *)
LEMMA NamesAway ==
  ASSUME DInv, NInv, NEW p \in Procs, Alone(p), UNCHANGED << conf, spool >>,
         p \in Tossers => st'[p].pc \notin Importing
  PROVE  NInv'
<1>1. texts' = texts /\ deleted' = deleted /\ last' = last /\ last \in Nat
  BY DEF conf, DInv, Texts
<1> QED BY <1>1, NoNames, NamesGoOn

LEMMA StepNames ==
  ASSUME LInv, DInv, NInv, NEW p \in Procs, Step(p) PROVE NInv'
<1>0. States /\ UNCHANGED << conf, spool >>
  BY DEF LInv, Step, Acquire, Busy, Mark, SendLockMail, Release, files
<1>1. CASE Acquire(p)
  <2>1. Alone(p) /\ st'[p].pc = IF p \in Runners THEN "path" ELSE "scan"
    BY <1>0, <1>1, AcquireIs
  <2> QED BY <1>0, <2>1, NamesAway DEF Importing
<1>2. CASE Busy(p)
  <2>1. Alone(p) /\ st'[p].pc \in {"warn", Refused(p)}
    BY <1>0, <1>2, BusyIs
  <2>2. st'[p].pc \in {"warn", "next", "idle"}
    BY <2>1, RefusedIs DEF RefusedAt
  <2> QED BY <1>0, <2>1, <2>2, NamesAway DEF Importing
<1>3. CASE Mark(p) \/ SendLockMail(p)
  <2>1. Goto(p, "mail") \/ Goto(p, Refused(p))
    BY <1>3 DEF Mark, SendLockMail, At
  <2>2. Alone(p) /\ st'[p].pc \in {"mail", Refused(p)}
    BY <1>0, <2>1, GotoIs
  <2>3. st'[p].pc \in {"mail", "next", "idle"}
    BY <2>2, RefusedIs DEF RefusedAt
  <2> QED BY <1>0, <2>2, <2>3, NamesAway DEF Importing
<1>4. CASE Release(p)
  <2>1. Alone(p) /\ (p \in Tossers => st'[p].pc = "idle")
    BY <1>0, <1>4, ReleaseIs
  <2> QED BY <1>0, <2>1, NamesAway DEF Importing
<1> QED BY <1>1, <1>2, <1>3, <1>4 DEF Step

(* A message is written while nobody imports, with the MSGID of a text.    *)
LEMMA PutNames ==
  ASSUME LInv, DInv, NInv, last < Serials, NEW r \in Runners, st[r].pc = "put", Alone(r), UNCHANGED conf,
         NEW bad \in BOOLEAN, spool' = Put(Message(r, bad))
  PROVE  NInv'
<1>1. Existing' = Existing /\ texts' = texts /\ last' = last
  BY DEF Existing, conf
<1>2. Distinct'
  BY <1>1 DEF NInv, Distinct
<1>3. ASSUME NEW q \in Tossers PROVE OwnOf(q)' /\ CoveredOf(q)'
  <2>1. r # q /\ r \in Procs /\ q \in Procs
    BY Sides
  <2>2. st[q].pc \notin Holding
    BY <2>1, OneHolds, HoldingIs DEF LInv
  <2>3. st'[q].pc = st[q].pc
    BY <2>1 DEF Alone, Rests
  <2> QED BY <2>2, <2>3, NoNames DEF Importing, Holding
<1>4. ASSUME NEW m \in spool', NEW k \in Nums, m.id = Own(k) PROVE k <= last
  <2>1. CASE m \in spool
    BY <1>4, <2>1 DEF NInv, OwnIds
  <2>2. CASE m = Message(r, bad)
    <3>1. Own(k) = Own(st[r].at)
      BY <1>4, <2>2, MessageIs
    <3>2. st[r].at \in Nat /\ st[r].at <= last /\ last \in Nat
      BY DEF DInv, Jobs, Texts
    <3>3. st[r].at \in Nums
      BY <3>2, SerialsAssumption DEF Nums
    <3>4. k = st[r].at
      BY <1>4, <3>1, <3>3, OwnIs
    <3> QED BY <3>2, <3>4
  <2> QED BY <2>1, <2>2 DEF Put
<1> QED BY <1>1, <1>2, <1>3, <1>4 DEF NInv, OwnIds, Covered

LEMMA KillNames ==
  ASSUME LInv, DInv, NInv, last < Serials, NEW p \in Procs, Kill(p) PROVE NInv'
<1>1. Alone(p) /\ st'[p].pc = "idle" /\ UNCHANGED conf
  BY KillIs DEF Ended, LInv, Kill
<1>2. CASE spool' = spool
  BY <1>1, <1>2, NamesAway DEF Importing
<1>3. CASE At(p, "put") /\ \E bad \in BOOLEAN : spool' = Put(Message(p, bad))
  <2>1. p \in Runners
    BY <1>3, Sides DEF At, LInv, States, TossAt
  <2> QED BY <1>1, <1>3, <2>1, PutNames DEF At
<1> QED BY <1>2, <1>3 DEF Kill

LEMMA ExportNames ==
  ASSUME LInv, DInv, NInv, last < Serials, NEW r \in Runners, Export(r) \/ ExportFails(r) PROVE NInv'
<1>0. States /\ r \in Procs /\ r \notin Tossers /\ UNCHANGED conf
  BY Sides DEF LInv, Export, RunQueue, NextJob, QueueDone, ExportPath, ExportPut, RemoveJob,
               ExportFails
<1>1. CASE ExportPut(r)
  <2>1. Alone(r) /\ st[r].pc = "put" /\ spool' = Put(Message(r, FALSE))
    BY <1>0, <1>1, ExportPutIs DEF ExportPut
  <2> QED BY <1>0, <2>1, PutNames
<1>2. CASE RemoveJob(r) \/ ExportFails(r)
  BY <1>0, <1>2, GotoIs, NamesAway DEF RemoveJob, ExportFails, files
<1>3. CASE QueueDone(r)
  BY <1>0, <1>3, QueueDoneIs, NamesAway DEF QueueDone, Ended, files
<1>4. CASE RunQueue(r) \/ NextJob(r) \/ ExportPath(r)
  <2>1. Alone(r) /\ spool' = spool
    BY <1>0, <1>4, RunQueueIs, NextJobIs, ExportPathIs DEF RunQueue, NextJob, ExportPath, files
  <2> QED BY <1>0, <2>1, NamesAway
<1> QED BY <1>1, <1>2, <1>3, <1>4 DEF Export

(* An import goes on with the list that it has.                            *)
LEMMA CoveredStays ==
  ASSUME NInv, NEW p \in Tossers, UNCHANGED << texts, deleted >>,
         st[p].pc \in Importing, st[p].pc # "link",
         st'[p].at = st[p].at, st'[p].refs = st[p].refs
  PROVE  CoveredOf(p)'
<1>1. Existing' = Existing
  BY DEF Existing
<1> QED BY <1>1 DEF NInv, Covered, CoveredOf, At

LEMMA ScanNames ==
  ASSUME LInv, DInv, NInv, NEW p \in Tossers, Scan(p) PROVE NInv'
<1>1. /\ Alone(p) /\ st'[p].pc = "index" /\ st'[p].at = last
      /\ st'[p].refs = ScanExisting(Stored, last)
  BY ScanGoes DEF LInv
<1>2. UNCHANGED << conf, spool >> /\ texts' = texts /\ deleted' = deleted /\ last' = last
  BY DEF Scan, files, conf
<1>3. OwnOf(p)'
  BY <1>1, <1>2 DEF OwnOf, At, NInv, OwnIds
<1>4. CoveredOf(p)'
  <2> DEFINE list == ScanExisting(Stored, last)
  <2>1. \A n \in Existing : TextId(texts[n], n) # NoId =>
          \E i \in DOMAIN list : list[i].id = TextId(texts[n], n)
    BY ScanIsRight DEF DInv
  <2>2. st'[p].refs = list
    BY <1>1
  <2> HIDE DEF list
  <2>3. Existing' = Existing
    BY <1>2 DEF Existing
  <2> QED BY <1>2, <2>1, <2>2, <2>3 DEF CoveredOf
<1>5. last \in Nat
  BY DEF DInv, Texts
<1> QED BY <1>1, <1>2, <1>3, <1>4, <1>5, NamesGoOn, Sides

LEMMA IndexNames ==
  ASSUME LInv, DInv, NInv, NEW p \in Tossers, Index(p) PROVE NInv'
<1>1. /\ Alone(p) /\ st[p].pc = "index"
      /\ st'[p].at = st[p].at /\ st'[p].refs = st[p].refs
      /\ \/ st'[p].pc = "free"
         \/ /\ st'[p].pc = "loop"
            /\ \/ st'[p].items = SpoolItems(spool)
               \/ \E i \in DOMAIN SpoolItems(spool) : st'[p].items = << SpoolItems(spool)[i] >>
  BY IndexIs DEF LInv
<1>2. UNCHANGED << conf, spool >> /\ texts' = texts /\ deleted' = deleted /\ last' = last
  BY DEF Index, files, conf
<1>3. CASE st'[p].pc = "free"
  BY <1>1, <1>2, <1>3, NamesAway, Sides DEF Importing
<1>4. CASE st'[p].pc = "loop"
  <2> DEFINE all == SpoolItems(spool)
  <2>1. all \in Seq(spool)
    BY SpoolItemsAre DEF DInv, Files
  <2>2. st'[p].items = all \/ \E i \in DOMAIN all : st'[p].items = << all[i] >>
    BY <1>1, <1>4
  <2> HIDE DEF all
  <2>3. \A i \in DOMAIN all : all[i] \in spool
    BY <2>1
  <2>4. \A j \in DOMAIN st'[p].items : st'[p].items[j] \in spool
    <3>1. CASE st'[p].items = all
      BY <2>3, <3>1
    <3>2. CASE \E i \in DOMAIN all : st'[p].items = << all[i] >>
      <4>1. PICK i \in DOMAIN all : st'[p].items = << all[i] >>
        BY <3>2
      <4>2. \A j \in DOMAIN << all[i] >> : << all[i] >>[j] = all[i]
        OBVIOUS
      <4> QED BY <2>3, <4>1, <4>2
    <3> QED BY <2>2, <3>1, <3>2
  <2>5. \A k \in Nums : \A m \in spool : m.id = Own(k) => k <= st[p].at
    BY <1>1 DEF NInv, OwnIds, OwnOf, At
  <2>6. OwnOf(p)'
    BY <1>1, <1>4, <2>4, <2>5 DEF OwnOf, At
  <2>7. CoveredOf(p)'
    BY <1>1, <1>2, CoveredStays DEF Importing
  <2>8. last \in Nat
    BY DEF DInv, Texts
  <2> QED BY <1>1, <1>2, <2>6, <2>7, <2>8, NamesGoOn, Sides
<1> QED BY <1>1, <1>3, <1>4

(* The message that is next, in the list of messages.                      *)
LEMMA LoopNames ==
  ASSUME LInv, DInv, NInv, NEW p \in Tossers, Count(p) \/ Pass(p) PROVE NInv'
<1>1. /\ Alone(p) /\ st[p].pc = "loop" /\ st'[p].pc \in {"write", "free", "loop"}
      /\ st'[p].at = st[p].at /\ st'[p].refs = st[p].refs /\ st'[p].items = st[p].items
  BY CountIs, PassIs DEF LInv
<1>2. texts' = texts /\ deleted' = deleted /\ spool' = spool /\ last' \in Nat /\ last <= last'
  BY DEF Count, Pass, files, conf, DInv, Texts
<1>3. OwnOf(p)'
  BY <1>1 DEF OwnOf, At, NInv, OwnIds
<1>4. CoveredOf(p)'
  BY <1>1, <1>2, CoveredStays DEF Importing
<1> QED BY <1>1, <1>2, <1>3, <1>4, NamesGoOn, Sides

(* The new text has an MSGID that no other text has.                       *)
LEMMA NewName ==
  ASSUME DInv, NInv, last < Serials, NEW p \in Tossers, st[p].pc = "write", NEW n \in Existing
  PROVE  TextId(texts[n], n) # Item(p).id
<1> SUFFICES ASSUME TextId(texts[n], n) = Item(p).id PROVE FALSE
  OBVIOUS
<1>1. /\ st[p].refs \in Seq(Ref) /\ st[p].items \in Seq(Msgs)
      /\ st[p].pos \in DOMAIN st[p].items
      /\ Importable(Item(p), st[p].refs, Unsafe(p)) /\ st[p].at \in 1 .. last
  BY DEF DInv, Imports, ChosenOf, RefsOf, Importing
<1>2. Item(p).id # NoId /\ FindText(st[p].refs, Item(p).id) = 0
  BY <1>1 DEF Importable
<1>3. \A i \in DOMAIN st[p].refs : st[p].refs[i].id # Item(p).id
  BY <1>1, <1>2, FindTextIs
<1>4. n \in DOMAIN texts /\ n \in Nat /\ st[p].at \in Nat
  BY <1>1 DEF Existing, DInv, Texts
<1>5. texts[n].local /\ ~ (n <= st[p].at)
  <2> SUFFICES ASSUME n <= st[p].at \/ ~ texts[n].local PROVE FALSE
    BY <1>4
  <2>1. \E i \in DOMAIN st[p].refs : st[p].refs[i].id = TextId(texts[n], n)
    BY <1>2 DEF NInv, Covered, CoveredOf, Importing, At
  <2> QED BY <1>3, <2>1
<1>6. texts[n].id = NoId
  BY <1>4, <1>5 DEF DInv, Parents
<1>7. Item(p).id = Own(n)
  BY <1>5, <1>6 DEF TextId
<1>8. n \in Nums
  <2>1. n <= last /\ last \in Nat
    BY <1>4 DEF DInv, Texts
  <2> QED BY <1>4, <2>1, SerialsAssumption DEF Nums
<1>9. n <= st[p].at
  BY <1>1, <1>4, <1>7, <1>8 DEF NInv, OwnIds, OwnOf, Item
<1> QED BY <1>5, <1>9

LEMMA WriteNames ==
  ASSUME LInv, DInv, NInv, last < Serials, NEW p \in Tossers, WriteText(p) PROVE NInv'
<1>1. /\ st[p].pc = "write" /\ GoesTo(p, "link")
      /\ texts' = With(st[p].num, [id |-> Item(p).id, reply |-> Item(p).reply, local |-> FALSE,
                                   com |-> Parent(p)])
      /\ last' = last /\ deleted' = deleted /\ spool' = spool
  <2>1. Goto(p, "link") /\ st[p].pc = "write"
    BY DEF WriteText, At
  <2>2. GoesTo(p, "link")
    BY <2>1, GotoGoes, Sides DEF LInv
  <2> QED BY <2>1, <2>2 DEF WriteText, files
<1>2. /\ Alone(p) /\ st'[p].pc = "link" /\ st'[p].at = st[p].at /\ st'[p].items = st[p].items
      /\ st'[p].refs = st[p].refs /\ st'[p].pos = st[p].pos /\ st'[p].num = st[p].num
  BY <1>1 DEF GoesTo
<1> DEFINE n == st[p].num
<1>3. /\ n \notin DOMAIN texts /\ n \in 1 .. last /\ last \in Nat /\ st[p].at \in 1 .. last
      /\ Item(p).id # NoId
  BY <1>1 DEF DInv, Imports, ChosenOf, RefsOf, Importing, Texts, Importable
<1>4. /\ DOMAIN texts' = DOMAIN texts \cup {n}
      /\ texts'[n].id = Item(p).id
      /\ \A k \in DOMAIN texts : texts'[k] = texts[k]
  BY <1>1, <1>3 DEF With
<1>5. TextId(texts'[n], n) = Item(p).id
  BY <1>3, <1>4 DEF TextId
<1>6. /\ n \notin Existing
      /\ \A k \in Existing' : k = n \/ (k \in Existing /\ texts'[k] = texts[k])
  BY <1>1, <1>3, <1>4 DEF Existing
<1>7. Distinct'
  <2> SUFFICES ASSUME NEW m \in Existing', NEW k \in Existing', m # k, TextId(texts'[m], m) # NoId
               PROVE  TextId(texts'[m], m) # TextId(texts'[k], k)
    BY DEF Distinct
  <2>1. CASE m = n
    BY <1>1, <1>5, <1>6, <2>1, NewName
  <2>2. CASE k = n
    BY <1>1, <1>5, <1>6, <2>2, NewName
  <2>3. CASE m # n /\ k # n
    BY <1>6, <2>3 DEF NInv, Distinct
  <2> QED BY <2>1, <2>2, <2>3
<1>8. ASSUME NEW k \in Nums, Item(p).id = Own(k) PROVE k <= st[p].at
  <2>1. st[p].pos \in DOMAIN st[p].items
    BY <1>1 DEF DInv, Imports, ChosenOf
  <2> QED BY <1>1, <1>8, <2>1 DEF NInv, OwnIds, OwnOf, Item
<1>9. ASSUME NEW j \in DOMAIN texts', NEW k \in Nums, texts'[j].id = Own(k) PROVE k <= last
  <2>1. CASE j = n
    <3>1. k <= st[p].at
      BY <1>4, <1>8, <1>9, <2>1
    <3> QED BY <1>3, <1>9, <3>1, OwnIs
  <2>2. CASE j # n
    BY <1>4, <1>9, <2>2 DEF NInv, OwnIds
  <2> QED BY <2>1, <2>2
<1>10. ASSUME NEW q \in Tossers PROVE OwnOf(q)' /\ CoveredOf(q)'
  <2>1. CASE q = p
    <3>1. OwnOf(p)'
      BY <1>1, <1>2 DEF OwnOf, At, NInv, OwnIds
    <3>2. CoveredOf(p)'
      <4> SUFFICES ASSUME NEW k \in Existing', TextId(texts'[k], k) # NoId,
                          k <= st[p].at \/ ~texts'[k].local, k # n
                   PROVE  \E i \in DOMAIN st[p].refs : st[p].refs[i].id = TextId(texts'[k], k)
        BY <1>2 DEF CoveredOf, At
      <4>1. k \in Existing /\ texts'[k] = texts[k]
        BY <1>6
      <4> QED BY <1>1, <4>1 DEF NInv, Covered, CoveredOf, Importing, At
    <3> QED BY <2>1, <3>1, <3>2
  <2>2. CASE q # p
    <3>1. st[q].pc \notin Importing
      BY <1>1, <2>2, OneImports, HoldingIs
    <3>2. st'[q].pc = st[q].pc
      BY <1>2, <2>2, Sides DEF Alone, Rests
    <3> QED BY <3>1, <3>2, NoNames
  <2> QED BY <2>1, <2>2
<1>11. \A m \in spool' : \A k \in Nums : m.id = Own(k) => k <= last'
  BY <1>1 DEF NInv, OwnIds
<1> QED BY <1>1, <1>7, <1>9, <1>10, <1>11 DEF NInv, OwnIds, Covered

LEMMA LinkNames ==
  ASSUME LInv, DInv, NInv, NEW p \in Tossers, Link(p) PROVE NInv'
<1>1. /\ Alone(p) /\ st[p].pc = "link" /\ st'[p].pc \in {"free", "loop"}
      /\ st'[p].refs = << [id |-> Item(p).id, num |-> st[p].num] >> \o st[p].refs
      /\ st'[p].at = st[p].at /\ st'[p].items = st[p].items
  BY LinkGoes DEF LInv
<1>2. /\ texts' = texts /\ deleted' = deleted /\ spool' = spool /\ last' \in Nat /\ last <= last'
      /\ Existing' = Existing
  BY DEF Link, files, DInv, Texts, Existing
<1>3. OwnOf(p)'
  BY <1>1 DEF OwnOf, At, NInv, OwnIds
<1> DEFINE r == [id |-> Item(p).id, num |-> st[p].num]
           new == << r >> \o st[p].refs
<1>4. r \in Ref /\ r.id = Item(p).id
  BY <1>1, ItemIs DEF Ref, Msgs
<1>5. st'[p].refs = new
  BY <1>1
<1>6. /\ \E i \in DOMAIN new : new[i] = r
      /\ \A i \in DOMAIN st[p].refs : \E j \in DOMAIN new : new[j] = st[p].refs[i]
  <2>1. st[p].refs \in Seq(Ref)
    BY <1>1 DEF DInv, Imports, RefsOf, Importing
  <2> HIDE DEF r
  <2> QED BY <1>4, <2>1, ListedFirst
<1> HIDE DEF r, new
<1>7. TextId(texts[st[p].num], st[p].num) = Item(p).id
  <2>1. /\ texts[st[p].num] = [id |-> Item(p).id, reply |-> Item(p).reply, local |-> FALSE,
                               com |-> Parent(p)]
        /\ Importable(Item(p), st[p].refs, Unsafe(p))
    BY <1>1 DEF DInv, Imports, ChosenOf
  <2>2. Item(p).id # NoId
    BY <2>1 DEF Importable
  <2> QED BY <2>1, <2>2 DEF TextId
<1>8. CoveredOf(p)'
  <2> SUFFICES ASSUME NEW n \in Existing, TextId(texts[n], n) # NoId,
                      n <= st[p].at \/ ~texts[n].local
               PROVE  \E i \in DOMAIN new : new[i].id = TextId(texts[n], n)
    BY <1>1, <1>2, <1>5 DEF CoveredOf
  <2>1. CASE n = st[p].num
    BY <1>4, <1>6, <1>7, <2>1
  <2>2. CASE n # st[p].num
    <3>1. \E i \in DOMAIN st[p].refs : st[p].refs[i].id = TextId(texts[n], n)
      BY <1>1, <2>2 DEF NInv, Covered, CoveredOf, Importing, At
    <3> QED BY <1>6, <3>1
  <2> QED BY <2>1, <2>2
<1> QED BY <1>1, <1>2, <1>3, <1>8, NamesGoOn, Sides

LEMMA ImportNames ==
  ASSUME LInv, DInv, NInv, last < Serials, NEW p \in Tossers,
         Start(p) \/ Import(p) \/ Index(p) \/ ImportFails(p)
  PROVE  NInv'
<1>1. CASE Start(p)
  <2>1. Alone(p) /\ st'[p].pc = "lock"
    BY <1>1, StartIs DEF LInv
  <2> QED BY <1>1, <2>1, NamesAway, Sides DEF Start, files, Importing
<1>2. CASE ImportFails(p)
  <2>1. Alone(p) /\ st'[p].pc = "free"
    BY <1>2, GotoIs, Sides DEF ImportFails, LInv
  <2> QED BY <1>2, <2>1, NamesAway, Sides DEF ImportFails, files, Importing
<1> QED BY <1>1, <1>2, ScanNames, IndexNames, LoopNames, WriteNames, LinkNames DEF Import

(* A user's text gets a number, and so an MSGID, that no text had before.  *)
LEMMA SaveTextNames ==
  ASSUME LInv, DInv, NInv, last' < Serials, SaveText PROVE NInv'
<1>0. DOMAIN texts \subseteq 1 .. last /\ last \in Nat /\ last + 1 \notin DOMAIN texts
  <2>1. DOMAIN texts \subseteq 1 .. last /\ last \in Nat
    BY DEF DInv, Texts
  <2> QED BY <2>1
<1>1. PICK com \in {0} \cup Existing :
        texts' = With(last + 1, [id |-> NoId, reply |-> NoId, local |-> TRUE, com |-> com])
  BY DEF SaveText
<1>2. deleted' = deleted /\ st' = st /\ spool' = spool /\ last' = last + 1
  BY DEF SaveText
<1> DEFINE n == last + 1
<1>3. /\ DOMAIN texts' = DOMAIN texts \cup {n} /\ texts'[n].id = NoId /\ texts'[n].local
      /\ \A k \in DOMAIN texts : texts'[k] = texts[k]
  BY <1>0, <1>1 DEF With
<1>4. TextId(texts'[n], n) = Own(n)
  BY <1>3 DEF TextId
<1>5. \A k \in Existing' : k = n \/ (k \in Existing /\ texts'[k] = texts[k])
  BY <1>2, <1>3 DEF Existing
<1>11. n \in Nums /\ \A k \in 1 .. last : k \in Nums
  BY <1>0, <1>2, SerialsAssumption DEF Nums
<1>6. ASSUME NEW k \in Existing PROVE TextId(texts[k], k) # Own(n)
  <2> SUFFICES ASSUME TextId(texts[k], k) = Own(n) PROVE FALSE
    OBVIOUS
  <2>1. k \in DOMAIN texts /\ k \in Nat /\ k <= last
    BY <1>0 DEF Existing
  <2>2. Own(n) # NoId
    BY OwnIs
  <2>3. CASE texts[k].id = Own(n)
    <3>1. n \in Nums /\ ~ (n <= last)
      BY <1>0, <1>11
    <3> QED BY <2>1, <2>3, <3>1 DEF NInv, OwnIds
  <2>4. CASE texts[k].id # Own(n)
    <3>1. Own(k) = Own(n)
      BY <2>2, <2>4 DEF TextId
    <3>2. k \in Nums
      BY <1>0, <1>11, <2>1 DEF Existing
    <3>3. k = n
      BY <1>11, <3>1, <3>2, OwnIs
    <3> QED BY <1>0, <2>1, <3>3
  <2> QED BY <2>3, <2>4
<1> HIDE DEF n
<1>7. Distinct'
  <2> SUFFICES ASSUME NEW m \in Existing', NEW k \in Existing', m # k, TextId(texts'[m], m) # NoId
               PROVE  TextId(texts'[m], m) # TextId(texts'[k], k)
    BY DEF Distinct
  <2>1. CASE m = n
    BY <1>4, <1>5, <1>6, <2>1
  <2>2. CASE k = n
    BY <1>4, <1>5, <1>6, <2>2
  <2>3. CASE m # n /\ k # n
    BY <1>5, <2>3 DEF NInv, Distinct
  <2> QED BY <2>1, <2>2, <2>3
<1>8. ASSUME NEW j \in DOMAIN texts', NEW k \in Nums, texts'[j].id = Own(k) PROVE k <= last'
  <2>1. CASE j = n
    BY <1>3, <1>8, <2>1, OwnIs
  <2>2. CASE j # n
    <3>1. k <= last
      BY <1>3, <1>8, <2>2 DEF NInv, OwnIds
    <3> QED BY <1>0, <1>2, <1>8, <3>1, OwnIs
  <2> QED BY <2>1, <2>2
<1>9. ASSUME NEW m \in spool', NEW k \in Nums, m.id = Own(k) PROVE k <= last'
  <2>1. k <= last
    BY <1>2, <1>9 DEF NInv, OwnIds
  <2> QED BY <1>0, <1>2, <1>9, <2>1, OwnIs
<1>10. ASSUME NEW q \in Tossers PROVE OwnOf(q)' /\ CoveredOf(q)'
  <2>1. Rests(q) /\ OwnOf(q) /\ CoveredOf(q)
    BY <1>2 DEF Rests, NInv, OwnIds, Covered
  <2>2. n \in Nat /\ n > last
    BY <1>0 DEF n
  <2>3. \A k \in Existing' : \/ k \in Existing /\ texts'[k] = texts[k]
                             \/ k \in Nat /\ texts'[k].local /\ k > last
    BY <1>3, <1>5, <2>2
  <2> QED BY <1>2, <2>1, <2>3, NamesRest
<1> QED BY <1>7, <1>8, <1>9, <1>10 DEF NInv, OwnIds, Covered

LEMMA ArriveNames ==
  ASSUME LInv, DInv, NInv, Arrive PROVE NInv'
<1>1. texts' = texts /\ deleted' = deleted /\ st' = st /\ last' = last /\ Existing' = Existing
  BY DEF Arrive, conf, Existing
<1>2. PICK a \in Arrivals :
        /\ a.id[1] = "own" => a.id[2] <= 1 \/ \E m \in spool : m.id = a.id
        /\ spool' = spool \cup {[file |-> MaxFile + 1, id |-> a.id, reply |-> a.reply,
                                 re |-> a.re, bad |-> a.bad]}
  BY DEF Arrive
<1>3. (\E o \in spool : o.id = a.id) \/ \A k \in Nums : a.id = Own(k) => k <= 1
  <2> SUFFICES ASSUME ~ \E o \in spool : o.id = a.id, NEW k \in Nums, a.id = Own(k) PROVE k <= 1
    OBVIOUS
  <2>1. a.id = << "own", k >>
    BY OwnIs
  <2>2. a.id[1] = "own" /\ a.id[2] = k
    BY <2>1
  <2> QED BY <1>2, <2>2
<1>4. \A m \in spool' :
        (\E o \in spool : o.id = m.id) \/ \A k \in Nums : m.id = Own(k) => k <= 1
  BY <1>2, <1>3
<1>5. ASSUME NEW q \in Tossers PROVE OwnOf(q)' /\ CoveredOf(q)'
  <2>1. Rests(q) /\ OwnOf(q) /\ CoveredOf(q)
    BY <1>1 DEF Rests, NInv, OwnIds, Covered
  <2> QED BY <1>1, <1>4, <2>1, NamesRest
<1>6. ASSUME NEW m \in spool', NEW k \in Nums, m.id = Own(k) PROVE k <= last
  <2>1. CASE \E o \in spool : o.id = m.id
    BY <1>6, <2>1 DEF NInv, OwnIds
  <2>2. CASE ~ \E o \in spool : o.id = m.id
    <3>1. k <= 1
      BY <1>4, <1>6, <2>2
    <3> QED BY <1>6, <3>1, OwnIs DEF DInv, Texts
  <2> QED BY <2>1, <2>2
<1> QED BY <1>1, <1>5, <1>6 DEF NInv, OwnIds, Covered, Distinct

(* Texts may go.                                                           *)
LEMMA QuietNames ==
  ASSUME DInv, NInv, UNCHANGED << st, texts, last, spool >>, deleted \subseteq deleted'
  PROVE  NInv'
<1>1. Existing' \subseteq Existing
  BY DEF Existing
<1>2. Distinct'
  BY <1>1 DEF NInv, Distinct
<1>3. ASSUME NEW q \in Tossers PROVE OwnOf(q)' /\ CoveredOf(q)'
  <2>1. Rests(q) /\ OwnOf(q) /\ CoveredOf(q)
    BY DEF Rests, NInv, OwnIds, Covered
  <2> QED BY <1>1, <2>1, NamesRest
<1> QED BY <1>2, <1>3 DEF NInv, OwnIds, Covered

LEMMA OthersNames == ASSUME LInv, DInv, NInv, last' < Serials, Others PROVE NInv'
<1>1. CASE SaveText
  BY <1>1, SaveTextNames
<1>2. CASE Arrive
  BY <1>2, ArriveNames
<1>3. CASE Age \/ RemoveLock
  BY <1>3, QuietNames DEF Age, RemoveLock, conf, files
<1>4. ASSUME NEW n \in 1 .. last, QueueExport(n) \/ SessionEnds(n) \/ DeleteText(n) PROVE NInv'
  BY <1>4, QuietNames DEF QueueExport, SessionEnds, DeleteText, conf, files
<1>5. ASSUME NEW r \in Runners, SignalRunner(r) PROVE NInv'
  BY <1>5, QuietNames DEF SignalRunner, conf, files
<1> QED BY <1>1, <1>2, <1>3, <1>4, <1>5 DEF Others

LEMMA NamesInit == Init => NInv
<1> SUFFICES ASSUME Init PROVE NInv
  OBVIOUS
<1>1. /\ texts = [n \in {1} |-> [id |-> NoId, reply |-> NoId, local |-> TRUE, com |-> 0]]
      /\ last = 1 /\ spool \in Spools /\ st = [p \in Procs |-> Idle]
  BY DEF Init
<1>2. DOMAIN texts = {1} /\ texts[1].id = NoId
  BY <1>1
<1>3. Distinct
  BY <1>2 DEF Distinct, Existing
<1>4. \A n \in DOMAIN texts : \A k \in Nums : texts[n].id = Own(k) => k <= last
  BY <1>2, OwnIs
<1>5. \A m \in spool : \A k \in Nums : m.id = Own(k) => k <= last
  <2> SUFFICES ASSUME NEW m \in spool, NEW k \in Nums, m.id = Own(k) PROVE k <= 1
    BY <1>1
  <2>1. m.id = << "own", k >>
    BY OwnIs
  <2>2. m.id[1] = "own" /\ m.id[2] = k
    BY <2>1
  <2> QED BY <1>1, <2>2, OwnAssumption
<1>6. \A p \in Procs : st[p].pc = "idle"
  BY <1>1, IdleIs
<1>7. \A p \in Tossers : OwnOf(p) /\ CoveredOf(p)
  BY <1>6, Sides DEF OwnOf, CoveredOf, Importing, At
<1> QED BY <1>3, <1>4, <1>5, <1>7 DEF NInv, OwnIds, Covered

(* Numbers do not become free again.                                       *)
LEMMA LastGrows == DInv /\ [Next]_vars => last \in Nat /\ last' \in Nat /\ last <= last'
<1> SUFFICES ASSUME DInv, [Next]_vars PROVE last \in Nat /\ last' \in Nat /\ last <= last'
  OBVIOUS
<1>0. last \in Nat
  BY DEF DInv, Texts
<1> SUFFICES ASSUME last' # last PROVE last' = last + 1
  BY <1>0
<1>1. CASE UNCHANGED vars
  BY <1>1 DEF vars, conf
<1>2. CASE Next
  <2>1. CASE Others
    BY <2>1 DEF Others, SaveText, Arrive, Age, RemoveLock, QueueExport, SessionEnds, DeleteText,
                SignalRunner, conf, files
  <2>2. ASSUME NEW p \in Procs, Step(p) \/ Kill(p) PROVE last' = last + 1
    BY <2>2 DEF Step, Acquire, Busy, Mark, SendLockMail, Release, Kill, conf, files
  <2>3. ASSUME NEW p \in Tossers, Start(p) \/ Import(p) \/ Index(p) \/ ImportFails(p)
        PROVE  last' = last + 1
    BY <2>3 DEF Start, Import, Scan, Index, Count, Pass, WriteText, Link, ImportFails, conf, files
  <2>4. ASSUME NEW r \in Runners, Export(r) \/ ExportFails(r) PROVE last' = last + 1
    BY <2>4 DEF Export, RunQueue, NextJob, QueueDone, ExportPath, ExportPut, RemoveJob, ExportFails,
                conf, files
  <2> QED BY <1>2, <2>1, <2>2, <2>3, <2>4, NextIs
<1> QED BY <1>1, <1>2

LEMMA NamesNext ==
  LInv /\ DInv /\ (last < Serials => NInv) /\ [Next]_vars => (last' < Serials => NInv')
<1> SUFFICES ASSUME LInv, DInv, last < Serials => NInv, [Next]_vars, last' < Serials PROVE NInv'
  OBVIOUS
<1>0. last < Serials /\ NInv
  BY LastGrows, SerialsAssumption
<1>1. CASE UNCHANGED vars
  BY <1>0, <1>1, QuietNames DEF vars, conf, files
<1>2. CASE Next
  <2>1. CASE Others
    BY <1>0, <2>1, OthersNames
  <2>2. ASSUME NEW p \in Procs, Step(p) \/ Kill(p) PROVE NInv'
    BY <1>0, <2>2, StepNames, KillNames
  <2>3. ASSUME NEW p \in Tossers, Start(p) \/ Import(p) \/ Index(p) \/ ImportFails(p) PROVE NInv'
    BY <1>0, <2>3, ImportNames
  <2>4. ASSUME NEW r \in Runners, Export(r) \/ ExportFails(r) PROVE NInv'
    BY <1>0, <2>4, ExportNames
  <2> QED BY <1>2, <2>1, <2>2, <2>3, <2>4, NextIs
<1> QED BY <1>1, <1>2

(* No MSGID is in the conference twice, whoever imports, saves, exports and*)
(* dies when: an import knows of every text that it could bring in again,  *)
(* and what is written meanwhile has a number that no message can have, as *)
(* long as there are fewer numbers than a MSGID tells apart.               *)
THEOREM NothingComesTwice == Spec => []NoDuplicates
<1>1. Init => LInv /\ DInv /\ (last < Serials => NInv)
  BY LocksInit, DataInit, NamesInit
<1>2. LInv /\ DInv /\ (last < Serials => NInv) /\ [Next]_vars
        => (LInv /\ DInv /\ (last < Serials => NInv))'
  BY LocksNext, DataNext, NamesNext
<1>3. LInv /\ DInv /\ (last < Serials => NInv) => NoDuplicates
  BY DEF NInv, NoDuplicates
<1> QED BY <1>1, <1>2, <1>3, PTL DEF Spec

(* The variables keep their types, and the lock's owner is the one process *)
(* that is past it.                                                        *)
THEOREM OneIsPastTheLock == Spec => []TypeOK
<1>1. Init => LInv /\ DInv
  BY LocksInit, DataInit
<1>2. LInv /\ DInv /\ [Next]_vars => (LInv /\ DInv)'
  BY LocksNext, DataNext
<1>3. LInv /\ DInv => TypeOK
  <2> SUFFICES ASSUME LInv, DInv PROVE TypeOK
    OBVIOUS
  <2>1. \A p \in Procs : st[p].pc \in Labels
    BY Sides DEF LInv, States, TossAt, RunAt, Labels
  <2>2. \A p \in Procs : (lock.by = p) <=> (st[p].pc \in Holding)
    BY DEF LInv, Owner
  <2>3. lock.held \/ (lock.by = None /\ ~lock.old)
    BY DEF LInv, Owner
  <2>4. /\ last \in Nat /\ DOMAIN texts \subseteq 1 .. last /\ deleted \subseteq DOMAIN texts
        /\ links \subseteq (1 .. last) \X (1 .. last)
        /\ saved \cup queue \cup exported \subseteq DOMAIN texts
    BY DEF DInv, Texts
  <2> QED BY <2>1, <2>2, <2>3, <2>4 DEF TypeOK, Holding
<1> QED BY <1>1, <1>2, <1>3, PTL DEF Spec
=============================================================================
