--------------------------- MODULE ThreadsProofs ---------------------------
(***************************************************************************)
(* What module Threads promises of the stacks a session reads along, for   *)
(* any number of conferences, texts and commands: the comments that wait   *)
(* are comments of the conference the user is in, each of them once; what  *)
(* was asked to be unread at logout is; and a sweep over all unread texts  *)
(* marks as unread again whatever it did not mean; and a walk along a tree *)
(* marks what stays in the tree, and nothing else that is there.           *)
(*                                                                         *)
(* That a comment is on the stack once rests on the shape of the threads:  *)
(* a text is commented after it is there, so no text on the stack is below *)
(* another, and the comments of one that is taken off are below nothing    *)
(* that stays.                                                             *)
(***************************************************************************)
EXTENDS Threads, SequenceTheorems, WellFoundedInduction, TLAPS

(* Induction over numbers, by a least counterexample.                      *)
LEMMA LeastOf ==
  ASSUME NEW T, T \subseteq Nat, T # {}
  PROVE  \E m \in T : \A k \in T : m <= k
<1> DEFINE R == {ss \in Nat \X Nat : ss[1] < ss[2]}
<1>1. IsWellFoundedOn(R, Nat)
  BY NatLessThanWellFounded DEF OpToRel
<1>2. \A a, b \in Nat : a < b => << a, b >> \in R
  OBVIOUS
<1> HIDE DEF R
<1>3. PICK m \in T : \A k \in T : << k, m >> \notin R
  BY <1>1, WFMin
<1>4. ASSUME NEW k \in T PROVE m <= k
  <2>1. m \in Nat /\ k \in Nat /\ ~ (k < m)
    BY <1>2, <1>3
  <2> QED BY <2>1
<1> QED BY <1>4

LEMMA UpTo ==
  ASSUME NEW T, NEW n \in Nat, 0 \in T, \A k \in 0 .. n - 1 : k \in T => k + 1 \in T
  PROVE  0 .. n \subseteq T
<1> DEFINE U == (0 .. n) \ T
<1> SUFFICES ASSUME U # {} PROVE FALSE
  OBVIOUS
<1>1. U \subseteq Nat
  OBVIOUS
<1>2. PICK m \in U : \A k \in U : m <= k
  <2> HIDE DEF U
  <2> QED BY <1>1, LeastOf
<1>3. m # 0 /\ m - 1 \in 0 .. n - 1 /\ ~ (m <= m - 1) /\ m - 1 + 1 = m
  BY <1>2
<1>4. m - 1 \in T
  BY <1>2, <1>3
<1> QED BY <1>2, <1>3, <1>4

-----------------------------------------------------------------------------
(* What is kept of a sequence.                                             *)
Distinct(s) == \A i, j \in DOMAIN s : s[i] = s[j] => i = j

(* t is what is kept of the first k entries of s.                          *)
KeptOf(s, S, k, t) ==
  /\ \A i \in DOMAIN t : \E j \in 1 .. k : s[j] \in S /\ t[i] = s[j]
  /\ \A j \in 1 .. k : s[j] \in S => \E i \in DOMAIN t : t[i] = s[j]
  /\ Distinct(s) => Distinct(t)

LEMMA KeptMore ==
  ASSUME NEW A, NEW s \in Seq(A), NEW S, NEW k \in 0 .. Len(s) - 1,
         NEW t \in Seq(A), KeptOf(s, S, k, t)
  PROVE  LET u == IF s[k + 1] \in S THEN Append(t, s[k + 1]) ELSE t
         IN  u \in Seq(A) /\ KeptOf(s, S, k + 1, u)
<1> DEFINE e == s[k + 1]
           u == IF e \in S THEN Append(t, e) ELSE t
<1>0. /\ Len(s) \in Nat /\ k \in Nat /\ DOMAIN s = 1 .. Len(s) /\ k + 1 \in 1 .. Len(s)
      /\ e \in A /\ 1 .. k \subseteq DOMAIN s
  OBVIOUS
<1>1. \A j : j \in 1 .. k + 1 <=> j \in 1 .. k \/ j = k + 1
  BY <1>0
<1>2. CASE e \notin S
  <2>1. u = t
    BY <1>2
  <2>2. KeptOf(s, S, k + 1, t)
    BY <1>1, <1>2 DEF KeptOf
  <2> QED BY <2>1, <2>2
<1>3. CASE e \in S
  <2> DEFINE n == Len(t)
  <2>1. /\ u \in Seq(A) /\ n \in Nat /\ DOMAIN t = 1 .. n /\ DOMAIN u = 1 .. n + 1
        /\ \A i \in 1 .. n : u[i] = t[i]
        /\ u[n + 1] = e
    <3>1. /\ Append(t, e) \in Seq(A) /\ Len(Append(t, e)) = Len(t) + 1
          /\ \A i \in 1 .. Len(t) : Append(t, e)[i] = t[i]
          /\ Append(t, e)[Len(t) + 1] = e
      BY <1>0, AppendProperties
    <3>2. DOMAIN Append(t, e) = 1 .. Len(Append(t, e)) /\ Len(t) \in Nat /\ DOMAIN t = 1 .. Len(t)
      BY <3>1
    <3> QED BY <1>3, <3>1, <3>2
  <2> HIDE DEF u, n, e
  <2>2. \A i : i \in 1 .. n + 1 <=> i \in 1 .. n \/ i = n + 1
    BY <2>1
  <2>3. ASSUME NEW i \in DOMAIN u PROVE \E j \in 1 .. k + 1 : s[j] \in S /\ u[i] = s[j]
    <3>1. CASE i \in 1 .. n
      BY <1>1, <2>1, <3>1 DEF KeptOf
    <3>2. CASE i = n + 1
      BY <1>1, <1>3, <2>1, <3>2 DEF e
    <3> QED BY <2>1, <2>2, <3>1, <3>2
  <2>4. ASSUME NEW j \in 1 .. k + 1, s[j] \in S PROVE \E i \in DOMAIN u : u[i] = s[j]
    <3>1. CASE j \in 1 .. k
      <4>1. PICK i \in DOMAIN t : t[i] = s[j]
        BY <2>4, <3>1 DEF KeptOf
      <4> QED BY <2>1, <2>2, <4>1
    <3>2. CASE j = k + 1
      BY <2>1, <2>2, <3>2 DEF e
    <3> QED BY <1>1, <3>1, <3>2
  <2>5. ASSUME Distinct(s), NEW i \in DOMAIN u, NEW j \in DOMAIN u, u[i] = u[j] PROVE i = j
    <3>1. ASSUME NEW l \in 1 .. n PROVE u[l] # e
      <4>1. PICK m \in 1 .. k : t[l] = s[m]
        BY <2>1 DEF KeptOf
      <4>2. m # k + 1 /\ m \in DOMAIN s /\ k + 1 \in DOMAIN s
        BY <1>0
      <4>3. s[m] # s[k + 1]
        BY <2>5, <4>2 DEF Distinct
      <4> QED BY <2>1, <4>1, <4>3 DEF e
    <3>2. CASE i \in 1 .. n /\ j \in 1 .. n
      BY <2>1, <2>5, <3>2 DEF KeptOf, Distinct
    <3>3. CASE i = n + 1 \/ j = n + 1
      BY <2>1, <2>2, <2>5, <3>1, <3>3
    <3> QED BY <2>1, <2>2, <3>2, <3>3
  <2>6. KeptOf(s, S, k + 1, u)
    BY <2>3, <2>4, <2>5 DEF KeptOf, Distinct
  <2> QED BY <2>1, <2>6 DEF u, e
<1> QED BY <1>2, <1>3

LEMMA KeptIs ==
  ASSUME NEW A, NEW s \in Seq(A), NEW S
  PROVE  Kept(s, S) \in Seq(A) /\ KeptOf(s, S, Len(s), Kept(s, S))
<1> DEFINE Round(g, i) ==
             IF i = 0 THEN << >> ELSE IF s[i] \in S THEN Append(g[i - 1], s[i]) ELSE g[i - 1]
           Rounds(g, k) == g = [i \in 0 .. k |-> Round(g, i)]
           F == CHOOSE g : Rounds(g, Len(s))
<1>0. Len(s) \in Nat
  OBVIOUS
<1>1. Kept(s, S) = F[Len(s)]
  BY DEF Kept
<1>2. \E g : Rounds(g, Len(s))
  <2> DEFINE T == {k \in 0 .. Len(s) : \E g : Rounds(g, k)}
  <2>1. 0 \in T
    <3> DEFINE g == [i \in 0 .. 0 |-> << >>]
    <3>1. \A i \in 0 .. 0 : i = 0
      OBVIOUS
    <3>2. Rounds(g, 0)
      BY <3>1
    <3>3. 0 \in 0 .. Len(s)
      BY <1>0
    <3> HIDE DEF Rounds, g
    <3> QED BY <3>2, <3>3
  <2>2. ASSUME NEW k \in 0 .. Len(s) - 1, k \in T PROVE k + 1 \in T
    <3>1. PICK g : Rounds(g, k)
      BY <2>2
    <3> DEFINE h == [i \in 0 .. k + 1 |-> IF i = k + 1 THEN Round(g, k + 1) ELSE g[i]]
    <3>2. ASSUME NEW i \in 0 .. k + 1 PROVE h[i] = Round(h, i)
      <4>1. CASE i = 0
        <5>1. g[0] = << >> /\ 0 # k + 1 /\ 0 \in 0 .. k + 1
          BY <3>1
        <5> QED BY <4>1, <5>1
      <4>2. CASE i # 0
        <5>1. i - 1 \in 0 .. k + 1 /\ i - 1 # k + 1 /\ h[i - 1] = g[i - 1]
          BY <4>2
        <5>2. CASE i = k + 1
          BY <4>2, <5>1, <5>2
        <5>3. CASE i # k + 1
          <6>1. i \in 0 .. k /\ h[i] = g[i]
            BY <5>3
          <6>2. g[i] = Round(g, i)
            <7> HIDE DEF Round
            <7> QED BY <3>1, <6>1
          <6> QED BY <4>2, <5>1, <6>1, <6>2
        <5> QED BY <5>2, <5>3
      <4> QED BY <4>1, <4>2
    <3>3. h = [i \in 0 .. k + 1 |-> h[i]]
      OBVIOUS
    <3>4. Rounds(h, k + 1)
      <4> HIDE DEF h, Round
      <4> QED BY <3>2, <3>3
    <3>5. k + 1 \in 0 .. Len(s)
      BY <1>0
    <3> QED BY <3>4, <3>5
  <2> HIDE DEF T
  <2>3. 0 .. Len(s) \subseteq T
    BY <1>0, <2>1, <2>2, UpTo
  <2>4. Len(s) \in 0 .. Len(s)
    BY <1>0
  <2>5. Len(s) \in T
    BY <2>3, <2>4
  <2> QED BY <2>5 DEF T
<1>3. Rounds(F, Len(s))
  <2> HIDE DEF Rounds
  <2> QED BY <1>2
<1> HIDE DEF F
<1>4. ASSUME NEW i \in 0 .. Len(s) PROVE F[i] = Round(F, i)
  <2> HIDE DEF Round
  <2> QED BY <1>3
<1> DEFINE T == {k \in 0 .. Len(s) : F[k] \in Seq(A) /\ KeptOf(s, S, k, F[k])}
<1>5. 0 \in T
  <2>1. F[0] = << >> /\ 0 \in 0 .. Len(s)
    BY <1>0, <1>4
  <2>2. << >> \in Seq(A) /\ DOMAIN << >> = {} /\ 1 .. 0 = {}
    OBVIOUS
  <2>3. KeptOf(s, S, 0, << >>)
    BY <2>2 DEF KeptOf, Distinct
  <2> QED BY <2>1, <2>2, <2>3
<1>6. ASSUME NEW k \in 0 .. Len(s) - 1, k \in T PROVE k + 1 \in T
  <2>1. k + 1 \in 0 .. Len(s) /\ k + 1 # 0 /\ k + 1 - 1 = k
    BY <1>0
  <2>2. F[k + 1] = IF s[k + 1] \in S THEN Append(F[k], s[k + 1]) ELSE F[k]
    BY <1>4, <2>1
  <2>3. F[k + 1] \in Seq(A) /\ KeptOf(s, S, k + 1, F[k + 1])
    BY <1>6, <2>2, KeptMore
  <2> QED BY <2>1, <2>3
<1> HIDE DEF T
<1>7. 0 .. Len(s) \subseteq T
  BY <1>0, <1>5, <1>6, UpTo
<1>8. Len(s) \in 0 .. Len(s)
  BY <1>0
<1>9. Len(s) \in T
  BY <1>7, <1>8
<1> QED BY <1>1, <1>9 DEF T

-----------------------------------------------------------------------------
(* The comments of one conference: p[k] is what its text k comments.       *)
Texts == [conf : Confs, num : Nat]

Grown(p, c) == p \in Seq(Texts) /\ \A k \in DOMAIN p : p[k].conf = c => p[k].num < k

(* b is a, or below a: in every set with a and the comments of its texts.  *)
Closed(p, c, S)   == \A k \in DOMAIN p : p[k].conf = c /\ p[k].num \in S => k \in S
Under(p, c, a, b) == \A S \in SUBSET Nat : a \in S /\ Closed(p, c, S) => b \in S
Apart(p, c, a, b) == ~Under(p, c, a, b) /\ ~Under(p, c, b, a)

LEMMA TextsIn ==
  ASSUME NEW s \in Seq(Texts)
  PROVE  /\ Len(s) \in Nat /\ DOMAIN s = 1 .. Len(s)
         /\ \A k \in DOMAIN s : k \in Nat /\ s[k] \in Texts /\ s[k].conf \in Confs /\ s[k].num \in Nat
<1>1. Len(s) \in Nat /\ DOMAIN s = 1 .. Len(s) /\ \A k \in 1 .. Len(s) : s[k] \in Texts
  BY LenProperties, ElementOfSeq
<1>2. \A x \in Texts : x.conf \in Confs /\ x.num \in Nat
  BY DEF Texts
<1> QED BY <1>1, <1>2

LEMMA UnderNotAbove ==
  ASSUME NEW p, NEW c, Grown(p, c), NEW a \in Nat, NEW b, Under(p, c, a, b)
  PROVE  b \in Nat /\ a <= b
<1> DEFINE S == {m \in Nat : a <= m}
<1>1. Closed(p, c, S)
  <2> SUFFICES ASSUME NEW k \in DOMAIN p, p[k].conf = c, p[k].num \in S PROVE k \in S
    BY DEF Closed
  <2>1. p[k].num < k /\ k \in Nat
    BY DEF Grown
  <2> QED BY <2>1
<1>2. a \in S
  OBVIOUS
<1>3. b \in S
  BY <1>1, <1>2 DEF Under
<1> QED BY <1>3

(* A comment is below what it comments, and below nothing else but itself  *)
(* and what that is below.                                                 *)
LEMMA CommentUnder ==
  ASSUME NEW p, NEW c, Grown(p, c), NEW k \in DOMAIN p, p[k].conf = c, NEW a \in Nat
  PROVE  /\ Under(p, c, a, p[k].num) => Under(p, c, a, k)
         /\ Under(p, c, a, k) /\ a # k => Under(p, c, a, p[k].num)
         /\ Under(p, c, k, a) => Under(p, c, p[k].num, a)
<1> DEFINE t == p[k].num
<1>0. t \in Nat /\ k \in Nat /\ t < k
  BY TextsIn DEF Grown
<1>1. ASSUME Under(p, c, a, t) PROVE Under(p, c, a, k)
  BY <1>1 DEF Under, Closed
<1>2. ASSUME Under(p, c, a, k), a # k PROVE Under(p, c, a, t)
  <2> SUFFICES ASSUME NEW S \in SUBSET Nat, a \in S, Closed(p, c, S), t \notin S PROVE FALSE
    BY DEF Under
  <2>1. Closed(p, c, S \ {k})
    BY DEF Closed
  <2>2. S \ {k} \in SUBSET Nat /\ a \in S \ {k}
    BY <1>2
  <2>3. k \in S \ {k}
    BY <1>2, <2>1, <2>2 DEF Under
  <2> QED BY <2>3
<1>3. ASSUME Under(p, c, k, a) PROVE Under(p, c, t, a)
  <2> SUFFICES ASSUME NEW S \in SUBSET Nat, t \in S, Closed(p, c, S) PROVE a \in S
    BY DEF Under
  <2>1. k \in S
    BY DEF Closed
  <2> QED BY <1>3, <2>1 DEF Under
<1> QED BY <1>1, <1>2, <1>3

LEMMA SelfUnder == ASSUME NEW p, NEW c, NEW a PROVE Under(p, c, a, a)
BY DEF Under

LEMMA ApartDiffer == ASSUME NEW p, NEW c, NEW a, NEW b, Apart(p, c, a, b) PROVE a # b
BY SelfUnder DEF Apart

(* What is apart from a text is apart from its comments.                   *)
LEMMA ApartFromComments ==
  ASSUME NEW p, NEW c, Grown(p, c), NEW k \in DOMAIN p, p[k].conf = c, NEW e \in Nat, Apart(p, c, e, p[k].num)
  PROVE  Apart(p, c, e, k)
<1> DEFINE t == p[k].num
<1>0. t \in Nat /\ k \in Nat
  BY TextsIn DEF Grown
<1>1. Under(p, c, t, k)
  BY <1>0, CommentUnder, SelfUnder
<1>2. e # k
  BY <1>1 DEF Apart
<1>3. ~Under(p, c, e, k)
  BY <1>2, CommentUnder DEF Apart
<1>4. ~Under(p, c, k, e)
  BY CommentUnder DEF Apart
<1> QED BY <1>3, <1>4 DEF Apart

(* Two comments of one text are apart.                                     *)
LEMMA CommentsApart ==
  ASSUME NEW p, NEW c, Grown(p, c), NEW k \in DOMAIN p, NEW l \in DOMAIN p, k # l,
         p[k].conf = c, p[l].conf = c, p[k].num = p[l].num
  PROVE  Apart(p, c, k, l)
<1>0. k \in Nat /\ l \in Nat /\ p[k].num \in Nat /\ p[k].num < k /\ p[l].num < l
  BY TextsIn DEF Grown
<1>1. ~Under(p, c, k, l)
  <2> SUFFICES ASSUME Under(p, c, k, l) PROVE FALSE
    OBVIOUS
  <2>1. Under(p, c, k, p[l].num)
    BY <1>0, CommentUnder
  <2>2. k <= p[l].num
    BY <1>0, <2>1, UnderNotAbove
  <2> QED BY <1>0, <2>2
<1>2. ~Under(p, c, l, k)
  <2> SUFFICES ASSUME Under(p, c, l, k) PROVE FALSE
    OBVIOUS
  <2>1. Under(p, c, l, p[k].num)
    BY <1>0, CommentUnder
  <2>2. l <= p[k].num
    BY <1>0, <2>1, UnderNotAbove
  <2> QED BY <1>0, <2>2
<1> QED BY <1>1, <1>2 DEF Apart

(* A new text comes below nothing that was not there.                      *)
LEMMA NewTextUnder ==
  ASSUME NEW p, NEW c, Grown(p, c), NEW x \in Texts, x.conf = c => x.num < Len(p) + 1
  PROVE  /\ Grown(Append(p, x), c)
         /\ \A a, b \in 1 .. Len(p) : Apart(p, c, a, b) => Apart(Append(p, x), c, a, b)
<1> DEFINE n == Len(p)
           q == Append(p, x)
<1>1. p \in Seq(Texts) /\ n \in Nat /\ DOMAIN p = 1 .. n
  BY DEF Grown
<1>2. /\ q \in Seq(Texts) /\ DOMAIN q = 1 .. n + 1
      /\ \A k \in 1 .. n : q[k] = p[k]
      /\ q[n + 1] = x
  <2>1. /\ Append(p, x) \in Seq(Texts) /\ Len(Append(p, x)) = Len(p) + 1
        /\ \A k \in 1 .. Len(p) : Append(p, x)[k] = p[k]
        /\ Append(p, x)[Len(p) + 1] = x
    BY <1>1, AppendProperties
  <2>2. DOMAIN Append(p, x) = 1 .. Len(Append(p, x))
    BY <2>1
  <2> QED BY <2>1, <2>2
<1>0. x.conf = c => x.num < n + 1
  OBVIOUS
<1> HIDE DEF n, q
<1>3. \A k : k \in 1 .. n + 1 <=> k \in 1 .. n \/ k = n + 1
  BY <1>1
<1>4. Grown(q, c)
  <2> SUFFICES ASSUME NEW k \in 1 .. n + 1, q[k].conf = c PROVE q[k].num < k
    BY <1>2 DEF Grown
  <2>1. CASE k \in 1 .. n
    BY <1>1, <1>2, <2>1 DEF Grown
  <2>2. CASE k = n + 1
    BY <1>0, <1>2, <2>2
  <2> QED BY <1>3, <2>1, <2>2
<1>5. ASSUME NEW a \in 1 .. n, NEW b \in 1 .. n, ~Under(p, c, a, b) PROVE ~Under(q, c, a, b)
  <2>1. PICK S \in SUBSET Nat : a \in S /\ Closed(p, c, S) /\ b \notin S
    BY <1>5 DEF Under
  <2> DEFINE U == (S \cap 1 .. n) \cup {n + 1}
  <2>2. U \in SUBSET Nat /\ a \in U /\ b \notin U
    BY <1>1, <2>1
  <2>3. Closed(q, c, U)
    <3> SUFFICES ASSUME NEW k \in 1 .. n + 1, q[k].conf = c, q[k].num \in U PROVE k \in U
      BY <1>2 DEF Closed
    <3>1. CASE k \in 1 .. n
      <4>1. p[k].num < k /\ p[k].num \in Nat /\ p[k].conf = c /\ p[k].num \in U
        BY <1>1, <1>2, <3>1, TextsIn DEF Grown
      <4>2. p[k].num \in S
        BY <1>1, <3>1, <4>1
      <4> QED BY <1>1, <2>1, <3>1, <4>1, <4>2 DEF Closed
    <3>2. CASE k = n + 1
      BY <3>2
    <3> QED BY <1>3, <3>1, <3>2
  <2> QED BY <2>2, <2>3 DEF Under
<1> QED BY <1>4, <1>5 DEF Apart, n, q

-----------------------------------------------------------------------------
(* A stack of texts of conference c, none of them below another.           *)
Tidy(p, c, s) ==
  /\ \A i \in DOMAIN s : s[i].conf = c /\ s[i].num \in DOMAIN p
  /\ \A i, j \in DOMAIN s : i # j => Apart(p, c, s[i].num, s[j].num)

LEMMA TidyGrows ==
  ASSUME NEW p, NEW c, Grown(p, c), NEW x \in Texts, x.conf = c => x.num < Len(p) + 1, NEW s, Tidy(p, c, s)
  PROVE  Tidy(Append(p, x), c, s)
<1>1. DOMAIN p = 1 .. Len(p) /\ Len(p) \in Nat
  BY DEF Grown
<1>2. DOMAIN p \subseteq DOMAIN Append(p, x)
  <2>1. p \in Seq(Texts)
    BY DEF Grown
  <2>2. DOMAIN Append(p, x) = 1 .. Len(p) + 1
    BY <2>1
  <2> QED BY <1>1, <2>2
<1>3. \A a, b \in 1 .. Len(p) : Apart(p, c, a, b) => Apart(Append(p, x), c, a, b)
  BY NewTextUnder
<1> HIDE DEF Grown
<1> QED BY <1>1, <1>2, <1>3 DEF Tidy

(* The comments of a text that is apart from all, put on top.              *)
LEMMA TidyPushed ==
  ASSUME NEW p, NEW c \in Confs, Grown(p, c), NEW u \in Seq(Texts), Tidy(p, c, u),
         NEW t, \A i \in DOMAIN u : Apart(p, c, u[i].num, t),
         NEW k \in Seq(Nat), Distinct(k), \A i \in DOMAIN k : k[i] \in DOMAIN p /\ p[k[i]] = Text(c, t)
  PROVE  u \o Entries(c, k) \in Seq(Texts) /\ Tidy(p, c, u \o Entries(c, k))
<1> DEFINE e == Entries(c, k)
           s == u \o e
           m == Len(u)
           n == Len(k)
<1>1. /\ e \in Seq(Texts) /\ Len(e) = n /\ n \in Nat /\ DOMAIN k = 1 .. n
      /\ \A i \in 1 .. n : e[i] = Text(c, k[i])
  <2>1. Len(k) \in Nat /\ DOMAIN k = 1 .. Len(k) /\ \A i \in 1 .. Len(k) : Text(c, k[i]) \in Texts
    BY LenProperties, ElementOfSeq DEF Text, Texts
  <2>2. e = [i \in 1 .. Len(k) |-> Text(c, k[i])]
    BY <2>1 DEF Entries
  <2> HIDE DEF e
  <2> QED BY <2>1, <2>2
<1>2. /\ s \in Seq(Texts) /\ m \in Nat /\ DOMAIN u = 1 .. m /\ DOMAIN s = 1 .. m + n
      /\ \A i \in 1 .. m : s[i] = u[i]
      /\ \A i \in 1 .. m + n : i \notin 1 .. m => i - m \in 1 .. n /\ s[i] = Text(c, k[i - m])
  <2> HIDE DEF e
  <2>0. /\ u \o e \in Seq(Texts) /\ Len(u \o e) = Len(u) + Len(e)
        /\ \A i \in 1 .. Len(u) + Len(e) : (u \o e)[i] = IF i <= Len(u) THEN u[i] ELSE e[i - Len(u)]
    <3>1. u \in Seq(Texts) /\ e \in Seq(Texts)
      BY <1>1
    <3> QED BY <3>1, ConcatProperties
  <2>a. m \in Nat /\ DOMAIN u = 1 .. m
    BY TextsIn
  <2>1. /\ s \in Seq(Texts) /\ Len(s) = m + n /\ m \in Nat /\ DOMAIN u = 1 .. m
        /\ \A i \in 1 .. m + n : s[i] = IF i <= m THEN u[i] ELSE e[i - m]
    BY <1>1, <2>0, <2>a
  <2>2. DOMAIN s = 1 .. m + n
    BY <2>1
  <2> HIDE DEF s, m, n
  <2>3. \A i \in 1 .. m : i \in 1 .. m + n /\ i <= m
    BY <1>1, <2>1
  <2>4. \A i \in 1 .. m + n : i \notin 1 .. m => i - m \in 1 .. n /\ ~(i <= m)
    BY <1>1, <2>1
  <2> QED BY <1>1, <2>1, <2>2, <2>3, <2>4
<1> HIDE DEF e, s, m, n
<1>3. \A i \in 1 .. n : p[k[i]].conf = c /\ p[k[i]].num = t /\ k[i] \in DOMAIN p /\ k[i] \in Nat
  <2> SUFFICES ASSUME NEW i \in 1 .. n
               PROVE  p[k[i]].conf = c /\ p[k[i]].num = t /\ k[i] \in DOMAIN p /\ k[i] \in Nat
    OBVIOUS
  <2>1. i \in DOMAIN k
    BY <1>1
  <2>2. k[i] \in DOMAIN p /\ p[k[i]] = Text(c, t)
    BY <2>1
  <2>3. k[i] \in Nat
    BY <1>1, ElementOfSeq DEF n
  <2> QED BY <2>2, <2>3 DEF Text
<1>4. ASSUME NEW i \in DOMAIN s PROVE s[i].conf = c /\ s[i].num \in DOMAIN p
  <2>1. CASE i \in 1 .. m
    BY <1>2, <2>1 DEF Tidy
  <2>2. CASE i \notin 1 .. m
    BY <1>2, <1>3, <2>2 DEF Text
  <2> QED BY <2>1, <2>2
<1>5. ASSUME NEW i \in 1 .. m, NEW j \in 1 .. n PROVE Apart(p, c, u[i].num, k[j])
  <2>1. u[i].num \in Nat
    BY <1>2, TextsIn
  <2>2. k[j] \in DOMAIN p /\ p[k[j]].conf = c /\ Apart(p, c, u[i].num, p[k[j]].num)
    BY <1>2, <1>3
  <2> QED BY <2>1, <2>2, ApartFromComments
<1>6. ASSUME NEW i \in 1 .. n, NEW j \in 1 .. n, i # j PROVE Apart(p, c, k[i], k[j])
  <2>1. k[i] # k[j]
    BY <1>1, <1>6 DEF Distinct
  <2> QED BY <1>3, <2>1, CommentsApart
<1>7. ASSUME NEW i \in DOMAIN s, NEW j \in DOMAIN s, i # j PROVE Apart(p, c, s[i].num, s[j].num)
  <2>1. CASE i \in 1 .. m /\ j \in 1 .. m
    BY <1>2, <1>7, <2>1 DEF Tidy
  <2>2. CASE i \in 1 .. m /\ j \notin 1 .. m
    <3>1. j - m \in 1 .. n /\ s[j].num = k[j - m] /\ s[i] = u[i]
      BY <1>2, <2>2 DEF Text
    <3> QED BY <1>5, <2>2, <3>1
  <2>3. CASE i \notin 1 .. m /\ j \in 1 .. m
    <3>1. i - m \in 1 .. n /\ s[i].num = k[i - m] /\ s[j] = u[j]
      BY <1>2, <2>3 DEF Text
    <3>2. Apart(p, c, u[j].num, k[i - m])
      BY <1>5, <2>3, <3>1
    <3> QED BY <3>1, <3>2 DEF Apart
  <2>4. CASE i \notin 1 .. m /\ j \notin 1 .. m
    <3>1. /\ i - m \in 1 .. n /\ s[i].num = k[i - m]
          /\ j - m \in 1 .. n /\ s[j].num = k[j - m]
      BY <1>2, <2>4 DEF Text
    <3>2. i - m # j - m
      BY <1>2, <1>7
    <3> QED BY <1>6, <3>1, <3>2
  <2> QED BY <2>1, <2>2, <2>3, <2>4
<1>8. Tidy(p, c, s)
  BY <1>4, <1>7 DEF Tidy
<1> QED BY <1>2, <1>8 DEF s, e

(* One entry taken off the top.                                            *)
LEMMA TidyPopped ==
  ASSUME NEW p, NEW c, NEW s \in Seq(Texts), Tidy(p, c, s), s # <<>>
  PROVE  /\ Front(s) \in Seq(Texts) /\ Tidy(p, c, Front(s))
         /\ Last(s).conf = c /\ Last(s).num \in DOMAIN p /\ Last(s) \in Texts
         /\ \A i \in DOMAIN Front(s) : Apart(p, c, Front(s)[i].num, Last(s).num)
<1> DEFINE n == Len(s)
           f == Front(s)
<1>1. n \in Nat \ {0} /\ DOMAIN s = 1 .. n /\ n \in DOMAIN s /\ \A i \in 1 .. n : s[i] \in Texts
  BY EmptySeq, LenProperties, ElementOfSeq
<1> HIDE DEF n
<1>2. f \in Seq(Texts) /\ DOMAIN f = 1 .. n - 1 /\ \A i \in 1 .. n - 1 : f[i] = s[i]
  <2> DEFINE k == n - 1
  <2>1. k \in Int /\ 1 \in Int /\ k - 1 + 1 = k /\ k >= 0 /\ \A i \in 1 .. k : s[i] \in Texts /\ 1 + i - 1 = i
    BY <1>1
  <2> HIDE DEF k
  <2>2. /\ SubSeq(s, 1, k) \in Seq(Texts)
        /\ Len(SubSeq(s, 1, k)) = IF 1 <= k THEN k - 1 + 1 ELSE 0
        /\ \A i \in 1 .. k - 1 + 1 : SubSeq(s, 1, k)[i] = s[1 + i - 1]
    BY <2>1, SubSeqProperties
  <2>3. Len(SubSeq(s, 1, k)) = k /\ \A i \in 1 .. k : SubSeq(s, 1, k)[i] = s[i]
    BY <2>1, <2>2
  <2>4. DOMAIN SubSeq(s, 1, k) = 1 .. k
    BY <2>2, <2>3
  <2> QED BY <2>2, <2>3, <2>4 DEF f, Front, k, n
<1> HIDE DEF f
<1>3. Last(s) = s[n]
  BY DEF Last, n
<1>4. \A i \in 1 .. n - 1 : i \in 1 .. n /\ i # n
  BY <1>1
<1>5. Tidy(p, c, f)
  BY <1>1, <1>2, <1>4 DEF Tidy
<1>6. \A i \in DOMAIN f : Apart(p, c, f[i].num, Last(s).num)
  BY <1>1, <1>2, <1>3, <1>4 DEF Tidy
<1>7. Last(s).conf = c /\ Last(s).num \in DOMAIN p /\ Last(s) \in Texts
  BY <1>1, <1>3 DEF Tidy
<1> QED BY <1>2, <1>5, <1>6, <1>7 DEF f

-----------------------------------------------------------------------------
(* The comments of text n that next_comment and the walks put on the stack *)
(* are comments, each of them once.                                        *)
CommentsOf(k, c, n) ==
  /\ k \in Seq(Nat) /\ Distinct(k)
  /\ \A i \in DOMAIN k : k[i] \in DOMAIN parent[c] /\ parent[c][k[i]] = Text(c, n)

LEMMA KeptComments ==
  ASSUME NEW k, NEW c, NEW n, CommentsOf(k, c, n), NEW S
  PROVE  CommentsOf(Kept(k, S), c, n)
<1> DEFINE t == Kept(k, S)
<1>1. k \in Seq(Nat) /\ Distinct(k) /\ DOMAIN k = 1 .. Len(k)
  BY LenProperties DEF CommentsOf
<1>2. t \in Seq(Nat) /\ KeptOf(k, S, Len(k), t)
  BY <1>1, KeptIs
<1> HIDE DEF t
<1>3. ASSUME NEW i \in DOMAIN t PROVE t[i] \in DOMAIN parent[c] /\ parent[c][t[i]] = Text(c, n)
  <2>1. PICK j \in 1 .. Len(k) : t[i] = k[j]
    BY <1>2 DEF KeptOf
  <2> QED BY <1>1, <2>1 DEF CommentsOf
<1>4. CommentsOf(t, c, n)
  BY <1>1, <1>2, <1>3 DEF CommentsOf, KeptOf
<1> QED BY <1>4 DEF t

LEMMA ReverseComments ==
  ASSUME NEW k, NEW c, NEW n, CommentsOf(k, c, n)
  PROVE  CommentsOf(Reverse(k), c, n)
<1> DEFINE m == Len(k)
           r == Reverse(k)
<1>1. m \in Nat /\ DOMAIN k = 1 .. m /\ \A i \in 1 .. m : k[i] \in Nat
  BY LenProperties, ElementOfSeq DEF CommentsOf
<1>2. r = [i \in 1 .. m |-> k[m - i + 1]]
  BY DEF Reverse
<1> HIDE DEF m, r
<1>3. \A i \in 1 .. m : m - i + 1 \in 1 .. m
  BY <1>1
<1>4. DOMAIN r = 1 .. m /\ \A i \in 1 .. m : r[i] = k[m - i + 1]
  BY <1>2
<1>5. r \in Seq(Nat)
  BY <1>1, <1>2, <1>3
<1>6. Distinct(r)
  <2> SUFFICES ASSUME NEW i \in 1 .. m, NEW j \in 1 .. m, r[i] = r[j] PROVE i = j
    BY <1>4 DEF Distinct
  <2> DEFINE a == m - i + 1
             b == m - j + 1
  <2>a. a \in DOMAIN k /\ b \in DOMAIN k /\ k[a] = k[b]
    BY <1>1, <1>3, <1>4
  <2> HIDE DEF a, b
  <2>b. a = b
    BY <2>a DEF CommentsOf, Distinct
  <2>1. m - i + 1 = m - j + 1
    BY <2>b DEF a, b
  <2> QED BY <1>1, <2>1
<1>7. CommentsOf(r, c, n)
  BY <1>1, <1>3, <1>4, <1>5, <1>6 DEF CommentsOf
<1> QED BY <1>7 DEF r

LEMMA CommentsComments ==
  ASSUME NEW c, parent[c] \in Seq(Texts), NEW n
  PROVE  CommentsOf(Comments(c, n), c, n)
<1> DEFINE m == LastOf(c)
           s == [i \in 1 .. m |-> i]
           S == {i \in 1 .. m : parent[c][i] = Text(c, n)}
           t == Kept(s, S)
<1>1. m \in Nat /\ DOMAIN parent[c] = 1 .. m
  BY LenProperties DEF LastOf
<1> HIDE DEF m
<1>2. s \in Seq(Nat) /\ Len(s) = m /\ \A i \in 1 .. m : s[i] = i
  BY <1>1
<1>3. DOMAIN s = 1 .. m
  OBVIOUS
<1>4. t \in Seq(Nat) /\ KeptOf(s, S, m, t)
  <2> HIDE DEF s, S
  <2> QED BY <1>2, KeptIs
<1>5. Distinct(s)
  BY <1>2, <1>3 DEF Distinct
<1>6. t = Comments(c, n)
  BY DEF Comments, m
<1> HIDE DEF s, t
<1>7. ASSUME NEW i \in DOMAIN t PROVE t[i] \in S
  BY <1>2, <1>4 DEF KeptOf
<1>8. CommentsOf(t, c, n)
  BY <1>1, <1>4, <1>5, <1>7 DEF CommentsOf, KeptOf
<1> QED BY <1>6, <1>8

LEMMA NoComments == ASSUME NEW c, NEW n PROVE CommentsOf(<< >>, c, n)
BY DEF CommentsOf, Distinct

LEMMA StackedComments ==
  ASSUME NEW c, parent[c] \in Seq(Texts), NEW n
  PROVE  CommentsOf(Stacked(c, n), c, n) /\ CommentsOf(Follow(c, n), c, n)
<1>1. CommentsOf(Stacked(c, n), c, n)
  BY CommentsComments, KeptComments, ReverseComments, NoComments DEF Stacked
<1>2. CommentsOf(Kept(Stacked(c, n), (1 .. LastOf(c)) \ read[c]), c, n)
  BY <1>1, KeptComments
<1> QED BY <1>1, <1>2, NoComments DEF Follow, Unblocked

-----------------------------------------------------------------------------
(* The inductive invariant.                                                *)
Mapped(r) == r = [c \in Confs |-> r[c]]

Boarded ==
  /\ parent \in [Confs -> Seq(Texts)] /\ Mapped(files)
  /\ \A c \in Confs : Grown(parent[c], c) /\ files[c] \subseteq DOMAIN parent[c]

Typed ==
  /\ Boarded /\ Mapped(read) /\ Current_conf \in Confs
  /\ cstack \in Seq(Texts) /\ rstack \in Seq(Texts) /\ ustack \in Seq(Texts)

(* What waits to be read is on the stack, and in a walk it is the text the *)
(* walk is at, too.                                                        *)
Walking ==
  /\ job = [op |-> job.op, mark |-> job.mark, root |-> job.root, next |-> job.next, tree |-> job.tree,
            last |-> job.last, before |-> job.before]
  /\ \A i \in DOMAIN cstack : /\ job.next \in DOMAIN parent[Current_conf]
                              /\ Apart(parent[Current_conf], Current_conf, cstack[i].num, job.next)

Waiting ==
  /\ Tidy(parent[Current_conf], Current_conf, cstack)
  /\ pc = "walk" => Walking

LEMMA BoardedIs ==
  ASSUME Boarded, NEW c \in Confs
  PROVE  /\ parent[c] \in Seq(Texts) /\ LastOf(c) \in Nat /\ DOMAIN parent[c] = 1 .. LastOf(c)
         /\ Grown(parent[c], c) /\ files[c] \subseteq 1 .. LastOf(c) /\ files[c] \subseteq Nat
<1>1. parent[c] \in Seq(Texts) /\ Grown(parent[c], c) /\ files[c] \subseteq DOMAIN parent[c]
  BY DEF Boarded
<1>2. LastOf(c) \in Nat /\ DOMAIN parent[c] = 1 .. LastOf(c)
  BY <1>1, LenProperties DEF LastOf
<1> QED BY <1>1, <1>2

LEMMA MappedExcept ==
  ASSUME NEW r, Mapped(r), NEW c, NEW x
  PROVE  Mapped([r EXCEPT ![c] = x])
BY DEF Mapped

LEMMA MappedMark ==
  ASSUME NEW r, Mapped(r), NEW c, NEW S
  PROVE  Mapped(Mark(r, c, S)) /\ Mapped(Unmark(r, c, S))
BY MappedExcept DEF Mark, Unmark

LEMMA MappedAfter ==
  ASSUME NEW r, NEW s
  PROVE  Mapped(AfterMoreConf(r)) /\ Mapped(UnmarkAll(r, s))
BY DEF AfterMoreConf, UnmarkAll, Mapped

LEMMA MappedFound ==
  ASSUME Mapped(read), NEW c PROVE Mapped(Found(c))
BY MappedExcept DEF Found

(* Steps that leave the stack alone, or empty it.                          *)
LEMMA WaitingSame ==
  ASSUME Waiting, UNCHANGED << parent, Current_conf, cstack >>, pc' # "walk" \/ UNCHANGED << pc, job >>
  PROVE  Waiting'
BY DEF Waiting, Walking

LEMMA WaitingEmpty ==
  ASSUME cstack' = <<>>,
         pc' = "walk" => job' = [op |-> job'.op, mark |-> job'.mark, root |-> job'.root, next |-> job'.next,
                                 tree |-> job'.tree, last |-> job'.last, before |-> job'.before]
  PROVE  Waiting' /\ cstack' \in Seq(Texts)
<1>1. DOMAIN << >> = {}
  OBVIOUS
<1> QED BY <1>1 DEF Waiting, Walking, Tidy

LEMMA TypedSame ==
  ASSUME Typed, UNCHANGED << parent, files >>, Mapped(read'), Current_conf' \in Confs,
         cstack' \in Seq(Texts), rstack' \in Seq(Texts), ustack' \in Seq(Texts)
  PROVE  Typed'
BY DEF Typed, Boarded, Mapped

(* more_conf answers a conference.                                         *)
LEMMA OrderIs == Order \in Seq(Confs) /\ Len(Order) \in Nat /\ DOMAIN Order = 1 .. Len(Order)
                 /\ \A i \in DOMAIN Order : Order[i] \in Confs
<1>1. ToSet(Order) \subseteq Confs
  BY DEF Confs
<1>2. Order \in Seq(ToSet(Order))
  BY OrderAssumption
<1>3. Len(Order) \in Nat /\ DOMAIN Order = 1 .. Len(Order) /\ \A i \in 1 .. Len(Order) : Order[i] \in ToSet(Order)
  BY <1>2, LenProperties, ElementOfSeq
<1>4. Order \in Seq(Confs)
  BY <1>1, <1>2, SeqMonotonic
<1> QED BY <1>1, <1>3, <1>4

LEMMA OthersAre ==
  ASSUME Current_conf \in Confs
  PROVE  Others \in Seq(Confs) /\ \A i \in DOMAIN Others : Others[i] \in Confs
<1>1. Here \in 0 .. Len(Order)
  <2>1. CASE Current_conf = Mailbox
    BY <2>1, OrderIs DEF Here
  <2>2. CASE Current_conf # Mailbox
    <3>1. \E i \in DOMAIN Order : Order[i] = Current_conf
      BY <2>2 DEF Confs, ToSet
    <3> QED BY <2>2, <3>1, OrderIs DEF Here
  <2> QED BY <2>1, <2>2
<1>2. Here \in Int /\ Len(Order) \in Int
  BY <1>1, OrderIs
<1>3. /\ \A i \in Here + 1 .. Len(Order) : Order[i] \in Confs
      /\ \A i \in 1 .. Here - 1 : Order[i] \in Confs
  BY <1>1, <1>2, OrderIs
<1> DEFINE a == SubSeq(Order, Here + 1, Len(Order))
           b == SubSeq(Order, 1, Here - 1)
<1>4. a \in Seq(Confs)
  <2> DEFINE h == Here + 1
  <2>1. h \in Int /\ \A i \in h .. Len(Order) : Order[i] \in Confs
    BY <1>2, <1>3
  <2> HIDE DEF h
  <2>2. SubSeq(Order, h, Len(Order)) \in Seq(Confs)
    BY <1>2, <2>1, SubSeqProperties
  <2> QED BY <2>2 DEF h
<1>5. b \in Seq(Confs)
  <2> DEFINE h == Here - 1
  <2>1. h \in Int /\ 1 \in Int /\ \A i \in 1 .. h : Order[i] \in Confs
    BY <1>2, <1>3
  <2> HIDE DEF h
  <2>2. SubSeq(Order, 1, h) \in Seq(Confs)
    BY <2>1, SubSeqProperties
  <2> QED BY <2>2 DEF h
<1> HIDE DEF a, b
<1>6. a \o b \in Seq(Confs)
  BY <1>4, <1>5, ConcatProperties
<1>7. Kept(a \o b, subs) \in Seq(Confs)
  BY <1>6, KeptIs
<1>8. Others \in Seq(Confs)
  BY <1>7 DEF Others, a, b
<1> QED BY <1>8, LenProperties, ElementOfSeq

LEMMA MoreConfIs ==
  ASSUME Current_conf \in Confs, MoreConf # NoConf
  PROVE  MoreConf \in Confs
<1>1. CASE There(Mailbox) # {}
  BY <1>1 DEF MoreConf, Confs
<1>2. CASE There(Mailbox) = {}
  <2>1. WithNews # {}
    BY <1>2 DEF MoreConf
  <2>2. WithNews \subseteq DOMAIN Others /\ DOMAIN Others \subseteq Nat
    BY OthersAre, LenProperties DEF WithNews
  <2>3. \E i \in WithNews : \A j \in WithNews : i <= j
    BY <2>1, <2>2, LeastOf
  <2>4. FirstNews \in DOMAIN Others
    BY <2>2, <2>3 DEF FirstNews
  <2> QED BY <1>2, <2>1, <2>4, OthersAre DEF MoreConf
<1> QED BY <1>1, <1>2

(* next_text answers a number.                                             *)
LEMMA NextOfIs ==
  ASSUME Boarded, NEW c \in Confs
  PROVE  NextOf(c) \in Nat
<1>1. There(c) \subseteq Nat
  BY BoardedIs DEF There, Left
<1>2. There(c) # {} => \E n \in There(c) : \A m \in There(c) : n <= m
  BY <1>1, LeastOf
<1> QED BY <1>1, <1>2 DEF NextOf

-----------------------------------------------------------------------------
(* A text is read and its comments are put on the stack.                   *)
LEMMA ReadHereKeeps ==
  ASSUME Typed, NEW t, NEW r, Mapped(r), NEW under \in Seq(Texts),
         Tidy(parent[Current_conf], Current_conf, under),
         t \in Nat, \A i \in DOMAIN under : Apart(parent[Current_conf], Current_conf, under[i].num, t),
         ReadHere(t, r, under), UNCHANGED << parent, Current_conf >>, pc' # "walk"
  PROVE  /\ Mapped(read') /\ cstack' \in Seq(Texts) /\ rstack' \in Seq(Texts)
         /\ Waiting'
<1> DEFINE c == Current_conf
           k == Follow(c, t)
<1>1. c \in Confs /\ Boarded /\ parent[c] \in Seq(Texts) /\ Grown(parent[c], c)
  BY BoardedIs DEF Typed
<1>2. k \in Seq(Nat) /\ Distinct(k) /\ \A i \in DOMAIN k : k[i] \in DOMAIN parent[c] /\ parent[c][k[i]] = Text(c, t)
  BY <1>1, StackedComments DEF CommentsOf
<1>3. cstack' = under \o Entries(c, k) /\ Mapped(read')
  BY MappedMark DEF ReadHere
<1>4. Text(c, t) \in Texts
  BY <1>1 DEF Text, Texts
<1>5. rstack' \in Seq(Texts)
  <2>1. Append(rstack, Text(c, t)) \in Seq(Texts)
    BY <1>4, AppendProperties DEF Typed
  <2> HIDE DEF k
  <2> QED BY <2>1 DEF ReadHere, Typed
<1> HIDE DEF k
<1>6. cstack' \in Seq(Texts) /\ Tidy(parent[c], c, cstack')
  BY <1>1, <1>2, <1>3, TidyPushed
<1>7. Waiting'
  BY <1>6 DEF Waiting
<1> QED BY <1>3, <1>5, <1>6, <1>7

LEMMA EmptyTidy ==
  ASSUME NEW p, NEW c
  PROVE  << >> \in Seq(Texts) /\ DOMAIN << >> = {} /\ Tidy(p, c, << >>)
<1>1. DOMAIN << >> = {}
  OBVIOUS
<1> QED BY <1>1 DEF Tidy

LEMMA NextTextKeeps ==
  ASSUME Typed, Waiting, cmd_next_text
  PROVE  Typed' /\ Waiting'
<1> DEFINE t == NextOf(Current_conf)
<1>1. t \in Nat /\ Mapped(Found(Current_conf))
  BY NextOfIs, MappedFound DEF Typed
<1>2. UNCHANGED << parent, files, Current_conf, ustack >> /\ pc' # "walk"
  BY DEF cmd_next_text, board, control, Command
<1>3. Mapped(read') /\ cstack' \in Seq(Texts) /\ rstack' \in Seq(Texts) /\ Waiting'
  <2>1. CASE t = 0
    <3>1. cstack' = << >> /\ read' = Found(Current_conf) /\ rstack' = rstack
      BY <2>1 DEF cmd_next_text
    <3> QED BY <1>1, <1>2, <3>1, WaitingEmpty DEF Typed
  <2>2. CASE t # 0
    <3>1. ReadHere(t, Found(Current_conf), << >>)
      BY <2>2 DEF cmd_next_text
    <3> HIDE DEF t
    <3> QED BY <1>1, <1>2, <3>1, EmptyTidy, ReadHereKeeps
  <2> QED BY <2>1, <2>2
<1>4. Typed'
  BY <1>2, <1>3, TypedSame DEF Typed
<1> QED BY <1>3, <1>4

(* The text on top of the stack is read.                                   *)
LEMMA ReadTopKeeps ==
  ASSUME Typed, Waiting, cstack # << >>, ReadHere(Last(cstack).num, read, Front(cstack)),
         UNCHANGED << parent, Current_conf >>, pc' # "walk"
  PROVE  /\ Mapped(read') /\ cstack' \in Seq(Texts) /\ rstack' \in Seq(Texts)
         /\ Waiting'
<1> DEFINE c == Current_conf
           t == Last(cstack).num
           under == Front(cstack)
<1>1. cstack \in Seq(Texts) /\ Mapped(read) /\ c \in Confs /\ Tidy(parent[c], c, cstack)
  BY DEF Typed, Waiting
<1>2. /\ under \in Seq(Texts) /\ Tidy(parent[c], c, under) /\ Last(cstack) \in Texts
      /\ \A i \in DOMAIN under : Apart(parent[c], c, under[i].num, t)
  BY <1>1, TidyPopped
<1>3. t \in Nat
  BY <1>2 DEF Texts
<1>4. ReadHere(t, read, under)
  OBVIOUS
<1> HIDE DEF t, under
<1> QED BY <1>1, <1>2, <1>3, <1>4, ReadHereKeeps

LEMMA NextCommentKeeps ==
  ASSUME Typed, Waiting, cmd_next_comment
  PROVE  Typed' /\ Waiting'
<1>1. UNCHANGED << parent, files, Current_conf, ustack >> /\ pc' # "walk"
  BY DEF cmd_next_comment, board, control, Command
<1>2. Mapped(read') /\ cstack' \in Seq(Texts) /\ rstack' \in Seq(Texts) /\ Waiting'
  <2>1. CASE cstack # << >> /\ ReadHere(Last(cstack).num, read, Front(cstack))
    BY <1>1, <2>1, ReadTopKeeps
  <2>2. CASE cstack = << >> /\ UNCHANGED << read, Last_text, Current_text, lastFrom, cstack, rstack >>
    <3>1. UNCHANGED << read, cstack, rstack >>
      BY <2>2
    <3> QED BY <1>1, <3>1, WaitingSame DEF Typed
  <2> QED BY <2>1, <2>2 DEF cmd_next_comment
<1> QED BY <1>1, <1>2, TypedSame DEF Typed

LEMMA AllStepKeeps ==
  ASSUME Typed, Waiting, AllStep
  PROVE  Typed' /\ Waiting'
<1> DEFINE c == Current_conf
           t == IF cstack # << >> THEN Last(cstack).num ELSE NextOf(c)
<1>1. /\ UNCHANGED << parent, files, ustack >> /\ pc = "all"
      /\ Mapped(read) /\ Mapped(Found(c)) /\ NextOf(c) \in Nat
      /\ cstack \in Seq(Texts) /\ c \in Confs /\ Tidy(parent[c], c, cstack)
  BY NextOfIs, MappedFound DEF AllStep, board, Typed, Waiting
<1>2. ASSUME t = 0 PROVE cstack = << >>
  <2> SUFFICES ASSUME cstack # << >> PROVE FALSE
    OBVIOUS
  <2>1. Last(cstack).num \in DOMAIN parent[c] /\ Last(cstack).num = 0
    BY <1>1, <1>2, TidyPopped
  <2>2. DOMAIN parent[c] = 1 .. LastOf(c)
    BY BoardedIs DEF Typed
  <2> QED BY <2>1, <2>2
<1>3. CASE /\ t # 0
           /\ IF cstack # << >> THEN ReadHere(t, read, Front(cstack)) ELSE ReadHere(t, Found(c), << >>)
           /\ UNCHANGED << Current_conf, Last_conf, control >>
  <2>1. UNCHANGED << Current_conf >> /\ pc' # "walk"
    BY <1>1, <1>3 DEF control
  <2>2. Mapped(read') /\ cstack' \in Seq(Texts) /\ rstack' \in Seq(Texts) /\ Waiting'
    <3>1. CASE cstack # << >>
      BY <1>1, <1>3, <2>1, <3>1, ReadTopKeeps
    <3>2. CASE cstack = << >>
      <4>1. ReadHere(NextOf(c), Found(c), << >>)
        BY <1>3, <3>2
      <4> QED BY <1>1, <2>1, <4>1, EmptyTidy, ReadHereKeeps
    <3> QED BY <3>1, <3>2
  <2> QED BY <1>1, <2>1, <2>2, TypedSame DEF Typed
<1>4. CASE /\ t = 0 /\ job.all /\ MoreConf # NoConf
           /\ SetConf(MoreConf) /\ read' = AfterMoreConf(Found(Current_conf))
           /\ UNCHANGED << Last_text, Current_text, lastFrom, cstack, rstack, control >>
  <2>1. cstack' = << >> /\ rstack' = rstack /\ Mapped(read') /\ pc' # "walk"
    BY <1>1, <1>2, <1>4, MappedAfter DEF control
  <2>2. Current_conf' \in Confs
    BY <1>1, <1>4, MoreConfIs DEF SetConf
  <2> QED BY <1>1, <2>1, <2>2, WaitingEmpty, TypedSame DEF Typed
<1>5. CASE /\ t = 0 /\ (job.all => MoreConf = NoConf)
           /\ read' = IF job.all THEN AfterMoreConf(Found(Current_conf)) ELSE Found(Current_conf)
           /\ pc' = "command" /\ job' = NoJob
           /\ UNCHANGED << place, cstack, rstack, asked >>
  <2>1. UNCHANGED << Current_conf, cstack, rstack >> /\ Mapped(read') /\ pc' # "walk"
    BY <1>1, <1>5, MappedAfter DEF place
  <2>2. cstack' \in Seq(Texts) /\ rstack' \in Seq(Texts) /\ ustack' \in Seq(Texts) /\ Current_conf' \in Confs
    BY <1>1, <2>1 DEF Typed
  <2>3. Typed'
    BY <1>1, <2>1, <2>2, TypedSame
  <2> QED BY <1>1, <2>1, <2>3, WaitingSame
<1> HIDE DEF t
<1> QED BY <1>3, <1>4, <1>5 DEF AllStep, t

-----------------------------------------------------------------------------
(* Steps after which nothing waits to be read.                             *)
LEMMA Emptied ==
  ASSUME Typed, UNCHANGED << parent, files >>, Mapped(read'), Current_conf' \in Confs,
         rstack' \in Seq(Texts), ustack' \in Seq(Texts), cstack' = << >>, pc' # "walk"
  PROVE  Typed' /\ Waiting'
BY WaitingEmpty, TypedSame

(* Steps that leave what waits alone.                                      *)
LEMMA LeftAlone ==
  ASSUME Typed, Waiting, UNCHANGED << parent, files, Current_conf, cstack >>, Mapped(read'),
         rstack' \in Seq(Texts), ustack' \in Seq(Texts), pc' # "walk"
  PROVE  Typed' /\ Waiting'
<1>1. Current_conf' \in Confs /\ cstack' \in Seq(Texts)
  BY DEF Typed
<1> QED BY <1>1, WaitingSame, TypedSame

(* A text is posted: what waits is below no other as before.               *)
LEMMA PostedKeeps ==
  ASSUME Typed, Waiting, NEW d \in Confs, NEW x \in Texts, x.conf = d => x.num < LastOf(d) + 1,
         Posted(d, x), UNCHANGED << Current_conf, stacks, pc, job >>, Mapped(read')
  PROVE  Typed' /\ Waiting'
<1> DEFINE c == Current_conf
           p == Append(parent[d], x)
<1>1. /\ parent' = [parent EXCEPT ![d] = p]
      /\ files' = [files EXCEPT ![d] = @ \cup {LastOf(d) + 1}]
      /\ UNCHANGED << Current_conf, cstack, rstack, ustack, pc, job >>
  BY DEF Posted, stacks
<1>2. Boarded /\ parent \in [Confs -> Seq(Texts)]
  BY DEF Typed, Boarded
<1>3. /\ p \in Seq(Texts) /\ Grown(p, d) /\ LastOf(d) \in Nat /\ DOMAIN parent[d] = 1 .. LastOf(d)
      /\ DOMAIN p = 1 .. LastOf(d) + 1
  <2>1. parent[d] \in Seq(Texts) /\ Grown(parent[d], d) /\ LastOf(d) \in Nat /\ DOMAIN parent[d] = 1 .. LastOf(d)
    BY <1>2, BoardedIs
  <2>2. Grown(p, d)
    BY <2>1, NewTextUnder DEF LastOf
  <2>3. p \in Seq(Texts) /\ Len(p) = LastOf(d) + 1
    BY <2>1, AppendProperties DEF LastOf
  <2>4. DOMAIN p = 1 .. Len(p)
    BY <2>3
  <2> QED BY <2>1, <2>2, <2>3, <2>4
<1>4. \A e \in Confs : parent'[e] = IF e = d THEN p ELSE parent[e]
  <2> HIDE DEF p
  <2> QED BY <1>1, <1>2
<1> HIDE DEF p
<1>5. Boarded'
  <2>1. parent' \in [Confs -> Seq(Texts)]
    BY <1>1, <1>2, <1>3
  <2>2. Mapped(files')
    BY <1>1, <1>2, MappedExcept DEF Boarded
  <2>3. ASSUME NEW e \in Confs PROVE Grown(parent'[e], e) /\ files'[e] \subseteq DOMAIN parent'[e]
    <3>1. CASE e = d
      <4>1. files'[d] = files[d] \cup {LastOf(d) + 1}
        BY <1>1, <1>2 DEF Boarded, Mapped
      <4>2. files[d] \subseteq 1 .. LastOf(d) + 1 /\ LastOf(d) + 1 \in 1 .. LastOf(d) + 1
        BY <1>2, <1>3, BoardedIs
      <4> QED BY <1>3, <1>4, <3>1, <4>1, <4>2
    <3>2. CASE e # d
      BY <1>1, <1>2, <1>4, <3>2 DEF Boarded, Mapped
    <3> QED BY <3>1, <3>2
  <2> QED BY <2>1, <2>2, <2>3 DEF Boarded
<1>6. Typed'
  BY <1>1, <1>5 DEF Typed
<1>7. c \in Confs /\ Grown(parent[c], c) /\ Tidy(parent[c], c, cstack)
  BY <1>2, BoardedIs DEF Typed, Waiting
<1>8. CASE c # d
  <2>1. parent'[c] = parent[c]
    BY <1>4, <1>7, <1>8
  <2> QED BY <1>1, <1>6, <2>1 DEF Waiting, Walking
<1>9. CASE c = d
  <2>1. parent'[c] = Append(parent[c], x)
    BY <1>4, <1>9 DEF p
  <2>2. Tidy(parent'[c], c, cstack)
    BY <1>7, <1>9, <2>1, TidyGrows DEF LastOf
  <2>3. \A a, b \in DOMAIN parent[c] : Apart(parent[c], c, a, b) => Apart(parent'[c], c, a, b)
    BY <1>3, <1>7, <1>9, <2>1, NewTextUnder DEF LastOf
  <2>4. DOMAIN parent[c] \subseteq DOMAIN parent'[c]
    BY <1>3, <1>4, <1>9
  <2>5. ASSUME pc' = "walk" PROVE Walking'
    <3>1. Walking
      BY <1>1, <2>5 DEF Waiting
    <3>2. \A i \in DOMAIN cstack : cstack[i].num \in DOMAIN parent[c]
      BY <1>7 DEF Tidy
    <3> QED BY <1>1, <2>3, <2>4, <3>1, <3>2 DEF Walking
  <2> QED BY <1>1, <1>6, <2>2, <2>5 DEF Waiting
<1> QED BY <1>8, <1>9

LEMMA CommentKeeps ==
  ASSUME Typed, Waiting, NEW a, cmd_comment(a)
  PROVE  Typed' /\ Waiting'
<1> DEFINE t == IF a.is = "default" THEN Text(Current_conf, Last_text) ELSE ParseText(a)
           x == Text(Current_conf, t.num)
           n == LastOf(Current_conf) + 1
<1>1. /\ t.num \in files[Current_conf] /\ Posted(Current_conf, x)
      /\ read' = Mark(read, Current_conf, {n})
      /\ UNCHANGED << subs, Current_conf, Current_text, stacks, control >>
  BY DEF cmd_comment
<1> HIDE DEF t
<1>2. Current_conf \in Confs /\ t.num \in 1 .. LastOf(Current_conf) /\ LastOf(Current_conf) \in Nat
  BY <1>1, BoardedIs DEF Typed
<1>3. x \in Texts /\ x.conf = Current_conf /\ x.num = t.num
  BY <1>2 DEF Text, Texts
<1>4. x.num < LastOf(Current_conf) + 1
  BY <1>2, <1>3
<1>5. Mapped(read') /\ UNCHANGED << Current_conf, stacks, pc, job >>
  BY <1>1, MappedMark DEF Typed, control
<1> HIDE DEF x, n
<1> QED BY <1>1, <1>2, <1>3, <1>4, <1>5, PostedKeeps

LEMMA PostKeeps ==
  ASSUME Typed, Waiting, NEW c \in ToSet(Order), NEW p \in {0} \cup files[c],
         Post(c, IF p = 0 THEN Nothing ELSE Text(c, p))
  PROVE  Typed' /\ Waiting'
<1> DEFINE x == IF p = 0 THEN Nothing ELSE Text(c, p)
<1>1. c \in Confs /\ Mailbox \in Confs /\ files[c] \subseteq 1 .. LastOf(c) /\ LastOf(c) \in Nat
  BY BoardedIs DEF Typed, Confs
<1>2. x \in Texts /\ x.num < LastOf(c) + 1
  BY <1>1 DEF Nothing, Text, Texts
<1>3. Posted(c, x) /\ UNCHANGED << Current_conf, stacks, pc, job >> /\ read' = read
  BY DEF Post, place, control
<1> HIDE DEF x
<1> QED BY <1>1, <1>2, <1>3, PostedKeeps DEF Typed

LEMMA DeleteKeeps ==
  ASSUME Typed, Waiting, NEW c \in Confs, NEW n, Delete(c, n)
  PROVE  Typed' /\ Waiting'
<1>1. /\ files' = [files EXCEPT ![c] = @ \ {n}]
      /\ UNCHANGED << parent, read, Current_conf, cstack, rstack, ustack, pc, job >>
  BY DEF Delete, place, stacks, control
<1>2. Boarded'
  <2>1. Mapped(files')
    BY <1>1, MappedExcept DEF Typed, Boarded
  <2>2. \A e \in Confs : files'[e] \subseteq files[e]
    BY <1>1 DEF Typed, Boarded, Mapped
  <2> QED BY <1>1, <2>1, <2>2 DEF Typed, Boarded
<1>3. Typed'
  BY <1>1, <1>2 DEF Typed
<1>4. Waiting'
  BY <1>1, WaitingSame
<1> QED BY <1>3, <1>4

(* A walk begins with an empty stack.                                      *)
LEMMA BeginWalkKeeps ==
  ASSUME Typed, NEW mark, NEW root, BeginWalk(mark, root), Current_conf' = Current_conf
  PROVE  Typed' /\ Waiting'
<1>1. cstack' = << >> /\ UNCHANGED << parent, files, read, rstack, ustack >>
  BY DEF BeginWalk, board
<1>2. job' = [op |-> job'.op, mark |-> job'.mark, root |-> job'.root, next |-> job'.next,
              tree |-> job'.tree, last |-> job'.last, before |-> job'.before]
  BY DEF BeginWalk
<1>3. Waiting' /\ cstack' \in Seq(Texts)
  BY <1>1, <1>2, WaitingEmpty
<1>4. Typed'
  BY <1>1, <1>3, TypedSame DEF Typed
<1> QED BY <1>3, <1>4

LEMMA JobGoesOn ==
  ASSUME NEW j, NEW x,
         j = [op |-> j.op, mark |-> j.mark, root |-> j.root, next |-> j.next, tree |-> j.tree,
              last |-> j.last, before |-> j.before]
  PROVE  LET k == [j EXCEPT !.next = x]
         IN  /\ k = [op |-> k.op, mark |-> k.mark, root |-> k.root, next |-> k.next, tree |-> k.tree,
                     last |-> k.last, before |-> k.before]
             /\ k.next = x
<1> DEFINE k == [op |-> j.op, mark |-> j.mark, root |-> j.root, next |-> x, tree |-> j.tree,
                 last |-> j.last, before |-> j.before]
<1>1. [j EXCEPT !.next = x] = k
  OBVIOUS
<1>2. k = [op |-> k.op, mark |-> k.mark, root |-> k.root, next |-> k.next, tree |-> k.tree,
           last |-> k.last, before |-> k.before] /\ k.next = x
  OBVIOUS
<1> HIDE DEF k
<1> QED BY <1>1, <1>2

(* One round of a walk: the comments of the text it is at are put on the   *)
(* stack, and the walk goes on with the one on top.                        *)
LEMMA WalkStepKeeps ==
  ASSUME Typed, Waiting, WalkStep
  PROVE  Typed' /\ Waiting'
<1> DEFINE c == Current_conf
           k == Stacked(c, job.next)
           stack == cstack \o Entries(c, k)
           marked == IF job.mark = "read" THEN Mark(read, c, {job.next}) ELSE Unmark(read, c, {job.next})
<1>1. c \in Confs /\ Boarded /\ parent[c] \in Seq(Texts) /\ Grown(parent[c], c)
  BY BoardedIs DEF Typed
<1>2. k \in Seq(Nat) /\ Distinct(k) /\ \A i \in DOMAIN k : k[i] \in DOMAIN parent[c] /\ parent[c][k[i]] = Text(c, job.next)
  BY <1>1, StackedComments DEF CommentsOf
<1>3. /\ pc = "walk" /\ UNCHANGED << parent, files, Current_conf, rstack, ustack >>
      /\ read' = Mark(marked, c, Gone(c, job.next))
      /\ IF stack = << >>
         THEN cstack' = << >> /\ pc' = "command" /\ job' = NoJob
         ELSE cstack' = Front(stack) /\ job' = [job EXCEPT !.next = Last(stack).num] /\ UNCHANGED pc
  BY DEF WalkStep, board, place
<1>4. Mapped(read')
  <2>1. Mapped(marked)
    BY MappedMark DEF Typed
  <2> HIDE DEF marked
  <2> QED BY <1>3, <2>1, MappedMark
<1> HIDE DEF marked, k
<1>5. /\ Walking /\ cstack \in Seq(Texts) /\ Tidy(parent[c], c, cstack)
      /\ \A i \in DOMAIN cstack : Apart(parent[c], c, cstack[i].num, job.next)
  BY <1>3 DEF Typed, Waiting, Walking
<1>6. stack \in Seq(Texts) /\ Tidy(parent[c], c, stack)
  BY <1>1, <1>2, <1>5, TidyPushed
<1> HIDE DEF stack
<1>7. CASE stack = << >>
  <2>1. cstack' = << >> /\ pc' # "walk" /\ Current_conf' \in Confs /\ rstack' \in Seq(Texts) /\ ustack' \in Seq(Texts)
    BY <1>1, <1>3, <1>7 DEF Typed
  <2> QED BY <1>3, <1>4, <2>1, Emptied
<1>8. CASE stack # << >>
  <2>1. /\ Front(stack) \in Seq(Texts) /\ Tidy(parent[c], c, Front(stack))
        /\ Last(stack).num \in DOMAIN parent[c]
        /\ \A i \in DOMAIN Front(stack) : Apart(parent[c], c, Front(stack)[i].num, Last(stack).num)
    BY <1>6, <1>8, TidyPopped
  <2>2. cstack' = Front(stack) /\ job' = [job EXCEPT !.next = Last(stack).num]
    BY <1>3, <1>8
  <2>3. /\ job' = [op |-> job'.op, mark |-> job'.mark, root |-> job'.root, next |-> job'.next,
                   tree |-> job'.tree, last |-> job'.last, before |-> job'.before]
        /\ job'.next = Last(stack).num
    BY <1>5, <2>2, JobGoesOn DEF Walking
  <2>4. Walking'
    BY <1>3, <2>1, <2>2, <2>3 DEF Walking
  <2>5. Waiting'
    BY <1>3, <2>1, <2>2, <2>4 DEF Waiting
  <2>6. cstack' \in Seq(Texts) /\ Current_conf' \in Confs /\ rstack' \in Seq(Texts) /\ ustack' \in Seq(Texts)
    BY <1>1, <1>3, <2>1, <2>2 DEF Typed
  <2> QED BY <1>3, <1>4, <2>5, <2>6, TypedSame
<1> QED BY <1>7, <1>8

-----------------------------------------------------------------------------
(* The end of a stack of texts, and its beginning.                         *)
LEMMA PartsOfStack ==
  ASSUME NEW s \in Seq(Texts), NEW k \in Nat, k > 0, k <= Len(s)
  PROVE  /\ SubSeq(s, 1, Len(s) - k) \in Seq(Texts)
         /\ s[Len(s) - k + 1].conf \in Confs
<1> DEFINE n == Len(s) - k
<1>1. Len(s) \in Nat /\ n \in Int /\ 1 \in Int /\ n + 1 \in 1 .. Len(s) /\ \A i \in 1 .. n : i \in 1 .. Len(s)
  BY LenProperties
<1> HIDE DEF n
<1>2. \A i \in 1 .. n : s[i] \in Texts
  BY <1>1, ElementOfSeq
<1>3. SubSeq(s, 1, n) \in Seq(Texts)
  BY <1>1, <1>2, SubSeqProperties
<1>4. s[n + 1].conf \in Confs
  BY <1>1, TextsIn
<1> QED BY <1>3, <1>4 DEF n

LEMMA FrontIs ==
  ASSUME NEW s \in Seq(Texts), s # << >>
  PROVE  /\ Len(s) \in Nat \ {0} /\ DOMAIN s = 1 .. Len(s) /\ Last(s) = s[Len(s)]
         /\ Front(s) \in Seq(Texts) /\ DOMAIN Front(s) = 1 .. Len(s) - 1
         /\ \A i \in 1 .. Len(s) - 1 : Front(s)[i] = s[i]
<1> DEFINE n == Len(s)
           k == n - 1
<1>1. n \in Nat \ {0} /\ DOMAIN s = 1 .. n /\ \A i \in 1 .. n : s[i] \in Texts
  BY EmptySeq, LenProperties, ElementOfSeq
<1> HIDE DEF n
<1>2. k \in Int /\ 1 \in Int /\ k - 1 + 1 = k /\ k >= 0 /\ \A i \in 1 .. k : s[i] \in Texts /\ 1 + i - 1 = i
  BY <1>1
<1> HIDE DEF k
<1>3. /\ SubSeq(s, 1, k) \in Seq(Texts)
      /\ Len(SubSeq(s, 1, k)) = IF 1 <= k THEN k - 1 + 1 ELSE 0
      /\ \A i \in 1 .. k - 1 + 1 : SubSeq(s, 1, k)[i] = s[1 + i - 1]
  BY <1>2, SubSeqProperties
<1>4. Len(SubSeq(s, 1, k)) = k /\ \A i \in 1 .. k : SubSeq(s, 1, k)[i] = s[i]
  BY <1>2, <1>3
<1>5. DOMAIN SubSeq(s, 1, k) = 1 .. k
  BY <1>3, <1>4
<1> QED BY <1>1, <1>3, <1>4, <1>5 DEF Front, Last, k, n

LEMMA StackEnds ==
  ASSUME NEW s \in Seq(Texts), s # << >>
  PROVE  /\ Front(s) \in Seq(Texts) /\ Last(s) \in Texts
         /\ ToSet(s) = ToSet(Front(s)) \cup {Last(s)}
<1> DEFINE n == Len(s)
           f == Front(s)
<1>1. /\ n \in Nat \ {0} /\ DOMAIN s = 1 .. n /\ Last(s) = s[n] /\ f \in Seq(Texts)
      /\ DOMAIN f = 1 .. n - 1 /\ \A i \in 1 .. n - 1 : f[i] = s[i]
  BY FrontIs
<1> HIDE DEF n, f
<1>2. \A i : i \in 1 .. n <=> i = n \/ i \in 1 .. n - 1
  BY <1>1
<1>3. Last(s) \in Texts
  BY <1>1, <1>2, TextsIn
<1> QED BY <1>1, <1>2, <1>3 DEF ToSet, f

LEMMA Pushed ==
  ASSUME NEW s \in Seq(Texts), NEW x \in Texts
  PROVE  /\ Append(s, x) \in Seq(Texts) /\ DOMAIN s \subseteq DOMAIN Append(s, x)
         /\ \A i \in DOMAIN s : Append(s, x)[i] = s[i]
         /\ \E i \in DOMAIN Append(s, x) : i \in Nat \ {0} /\ Append(s, x)[i] = x
<1>1. /\ Append(s, x) \in Seq(Texts) /\ Len(Append(s, x)) = Len(s) + 1
      /\ \A i \in 1 .. Len(s) : Append(s, x)[i] = s[i]
      /\ Append(s, x)[Len(s) + 1] = x
  BY AppendProperties
<1>2. Len(s) \in Nat /\ DOMAIN s = 1 .. Len(s) /\ DOMAIN Append(s, x) = 1 .. Len(s) + 1
  BY <1>1, TextsIn
<1>3. Len(s) + 1 \in 1 .. Len(s) + 1 /\ Len(s) + 1 \in Nat \ {0} /\ 1 .. Len(s) \subseteq 1 .. Len(s) + 1
  BY <1>2
<1> QED BY <1>1, <1>2, <1>3

LEMMA Stacks ==
  ASSUME NEW s \in Seq(Texts), NEW x \in Texts
  PROVE  Append(s, x) \in Seq(Texts) /\ ToSet(s) \cup {x} \subseteq ToSet(Append(s, x))
BY Pushed DEF ToSet

LEMMA BackTextKeeps ==
  ASSUME Typed, NEW n \in Nat, n > 0, cmd_back_text(n)
  PROVE  Typed' /\ Waiting'
<1> DEFINE k == IF n < Len(rstack) THEN n ELSE Len(rstack)
<1>1. /\ k > 0 /\ rstack' = SubSeq(rstack, 1, Len(rstack) - k)
      /\ Current_conf' = rstack[Len(rstack) - k + 1].conf /\ cstack' = << >>
      /\ UNCHANGED << parent, files, ustack >> /\ pc' # "walk"
  BY DEF cmd_back_text, SetConf, board, control, Command
<1>2. Mapped(read')
  BY MappedAfter DEF cmd_back_text
<1>3. rstack \in Seq(Texts) /\ Len(rstack) \in Nat
  BY TextsIn DEF Typed
<1>4. k \in Nat /\ k <= Len(rstack)
  BY <1>3
<1> HIDE DEF k
<1>5. rstack' \in Seq(Texts) /\ Current_conf' \in Confs
  BY <1>1, <1>3, <1>4, PartsOfStack
<1> QED BY <1>1, <1>2, <1>5, Emptied DEF Typed

-----------------------------------------------------------------------------
(* What reclaim_unread and a logout have in hand are texts; a logout takes *)
(* all that is asked for, and puts nothing aside.                          *)
Handed ==
  Taking =>
    /\ job = [op |-> job.op, only |-> job.only, locked |-> job.locked, held |-> job.held,
              aside |-> job.aside, first |-> job.first]
    /\ job.held \in Texts /\ job.aside \in Seq(Texts) /\ job.first \in Confs \cup {NoConf}
    /\ job.op \in {"reclaim", "logout"} /\ (pc = "back" => job.held = Nothing)
    /\ job.op = "logout" => pc = "take" /\ job.only = Confs /\ job.aside = << >>

LEMMA HandsOf ==
  ASSUME NEW op, NEW only, NEW locked, NEW held, NEW aside, NEW first, NEW j,
         j = [op |-> op, only |-> only, locked |-> locked, held |-> held, aside |-> aside, first |-> first]
  PROVE  /\ j = [op |-> j.op, only |-> j.only, locked |-> j.locked, held |-> j.held, aside |-> j.aside,
                 first |-> j.first]
         /\ j.op = op /\ j.only = only /\ j.locked = locked /\ j.held = held /\ j.aside = aside /\ j.first = first
OBVIOUS

LEMMA NothingIs == Nothing \in Texts /\ << >> \in Seq(Texts)
<1>1. Nothing \in Texts
  BY DEF Nothing, Text, Texts, Confs
<1>2. << >> \in Seq(Texts)
  OBVIOUS
<1> QED BY <1>1, <1>2

LEMMA BeginTakeHands ==
  ASSUME NEW op, NEW only, NEW locked, BeginTake(op, only, locked),
         op \in {"reclaim", "logout"}, op = "logout" => only = Confs
  PROVE  Handed' /\ pc' = "take" /\ job'.op = op /\ job'.held = Nothing /\ job'.aside = << >>
<1>1. /\ pc' = "take"
      /\ job' = [op |-> op, only |-> only, locked |-> locked, held |-> Nothing, aside |-> << >>, first |-> NoConf]
  BY DEF BeginTake
<1>2. /\ job' = [op |-> job'.op, only |-> job'.only, locked |-> job'.locked, held |-> job'.held,
                 aside |-> job'.aside, first |-> job'.first]
      /\ job'.op = op /\ job'.only = only /\ job'.held = Nothing /\ job'.aside = << >> /\ job'.first = NoConf
  BY <1>1, HandsOf
<1> QED BY <1>1, <1>2, NothingIs DEF Handed

(* Every step of theirs says what it does to what is in hand.              *)
LEMMA PopHands ==
  ASSUME Typed, Handed, PopUnread
  PROVE  /\ Handed' /\ pc = "take" /\ pc' = pc /\ job.held = Nothing /\ ustack # << >> /\ ustack' = Front(ustack)
         /\ job'.op = job.op
         /\ \/ job'.held = Last(ustack) /\ job'.aside = job.aside
            \/ job'.held = Nothing /\ job'.aside = Append(job.aside, Last(ustack))
<1> DEFINE t == Last(ustack)
<1>1. /\ pc = "take" /\ pc' = pc /\ job.held = Nothing /\ ustack # << >> /\ ustack' = Front(ustack)
      /\ job' = IF t.conf \in job.only
                THEN [job EXCEPT !.held = t, !.first = IF @ = NoConf THEN t.conf ELSE @]
                ELSE [job EXCEPT !.aside = Append(@, t)]
  BY DEF PopUnread
<1>2. /\ job = [op |-> job.op, only |-> job.only, locked |-> job.locked, held |-> job.held,
                aside |-> job.aside, first |-> job.first]
      /\ job.aside \in Seq(Texts) /\ job.first \in Confs \cup {NoConf}
      /\ job.op \in {"reclaim", "logout"} /\ (job.op = "logout" => job.only = Confs /\ job.aside = << >>)
  BY <1>1 DEF Handed, Taking
<1>3. t \in Texts /\ t.conf \in Confs
  BY <1>1, StackEnds DEF Typed, Texts
<1> HIDE DEF t
<1>4. CASE t.conf \in job.only
  <2> DEFINE first == IF job.first = NoConf THEN t.conf ELSE job.first
  <2>1. job' = [job EXCEPT !.held = t, !.first = first]
    BY <1>1, <1>4
  <2>2. first \in Confs \cup {NoConf}
    BY <1>2, <1>3
  <2> HIDE DEF first
  <2>3. job' = [op |-> job.op, only |-> job.only, locked |-> job.locked, held |-> t,
                aside |-> job.aside, first |-> first]
    BY <1>2, <2>1
  <2>4. /\ job' = [op |-> job'.op, only |-> job'.only, locked |-> job'.locked, held |-> job'.held,
                   aside |-> job'.aside, first |-> job'.first]
        /\ job'.op = job.op /\ job'.only = job.only /\ job'.held = t /\ job'.aside = job.aside /\ job'.first = first
    BY <2>3, HandsOf
  <2> QED BY <1>1, <1>2, <1>3, <2>2, <2>4 DEF Handed, t
<1>5. CASE t.conf \notin job.only
  <2> DEFINE aside == Append(job.aside, t)
  <2>1. job' = [job EXCEPT !.aside = aside]
    BY <1>1, <1>5
  <2>2. aside \in Seq(Texts) /\ job.op # "logout"
    BY <1>2, <1>3, <1>5, Stacks
  <2>a. aside = Append(job.aside, t)
    OBVIOUS
  <2> HIDE DEF aside
  <2>3. job' = [op |-> job.op, only |-> job.only, locked |-> job.locked, held |-> job.held,
                aside |-> aside, first |-> job.first]
    BY <1>2, <2>1
  <2>4. /\ job' = [op |-> job'.op, only |-> job'.only, locked |-> job'.locked, held |-> job'.held,
                   aside |-> job'.aside, first |-> job'.first]
        /\ job'.op = job.op /\ job'.held = job.held /\ job'.aside = aside /\ job'.first = job.first
    BY <2>3, HandsOf
  <2> QED BY <1>1, <1>2, <2>a, <2>2, <2>4, NothingIs DEF Handed, t
<1> QED BY <1>4, <1>5

LEMMA MarkHands ==
  ASSUME Handed, MarkHeld
  PROVE  /\ Handed' /\ pc = "take" /\ pc' = pc /\ job'.op = job.op /\ job'.held = Nothing
         /\ job'.aside = job.aside /\ job.held \in Texts
<1>1. pc = "take" /\ pc' = pc /\ job' = [job EXCEPT !.held = Nothing]
  BY DEF MarkHeld
<1>2. /\ job = [op |-> job.op, only |-> job.only, locked |-> job.locked, held |-> job.held,
                aside |-> job.aside, first |-> job.first]
      /\ job.held \in Texts /\ job.aside \in Seq(Texts) /\ job.first \in Confs \cup {NoConf}
      /\ job.op \in {"reclaim", "logout"} /\ (job.op = "logout" => job.only = Confs /\ job.aside = << >>)
  BY <1>1 DEF Handed, Taking
<1>3. job' = [op |-> job.op, only |-> job.only, locked |-> job.locked, held |-> Nothing,
              aside |-> job.aside, first |-> job.first]
  BY <1>1, <1>2
<1>4. /\ job' = [op |-> job'.op, only |-> job'.only, locked |-> job'.locked, held |-> job'.held,
                 aside |-> job'.aside, first |-> job'.first]
      /\ job'.op = job.op /\ job'.only = job.only /\ job'.held = Nothing /\ job'.aside = job.aside
      /\ job'.first = job.first
  BY <1>3, HandsOf
<1> QED BY <1>1, <1>2, <1>4, NothingIs DEF Handed

LEMMA PutHands ==
  ASSUME Handed, PutBack
  PROVE  /\ Handed' /\ Taking /\ pc' = "back" /\ job.op # "logout" /\ job'.op = job.op
         /\ job.held = Nothing /\ job'.held = Nothing
         /\ job.aside \in Seq(Texts) /\ job.aside # << >> /\ job'.aside = Front(job.aside)
<1>1. /\ pc \in {"take", "back"} /\ (pc = "take" => job.held = Nothing) /\ job.aside # << >>
      /\ pc' = "back" /\ job' = [job EXCEPT !.aside = Front(@)]
  BY DEF PutBack, AllTaken
<1>2. /\ job = [op |-> job.op, only |-> job.only, locked |-> job.locked, held |-> job.held,
                aside |-> job.aside, first |-> job.first]
      /\ job.aside \in Seq(Texts) /\ job.first \in Confs \cup {NoConf} /\ job.held = Nothing /\ job.op = "reclaim"
  BY <1>1 DEF Handed, Taking
<1> DEFINE aside == Front(job.aside)
<1>3. aside \in Seq(Texts)
  BY <1>1, <1>2, StackEnds
<1>a. aside = Front(job.aside)
  OBVIOUS
<1>4. job' = [job EXCEPT !.aside = aside]
  BY <1>1
<1> HIDE DEF aside
<1>5. job' = [op |-> job.op, only |-> job.only, locked |-> job.locked, held |-> job.held,
              aside |-> aside, first |-> job.first]
  BY <1>2, <1>4
<1>6. /\ job' = [op |-> job'.op, only |-> job'.only, locked |-> job'.locked, held |-> job'.held,
                 aside |-> job'.aside, first |-> job'.first]
      /\ job'.op = job.op /\ job'.held = job.held /\ job'.aside = aside /\ job'.first = job.first
  BY <1>5, HandsOf
<1> QED BY <1>a, <1>1, <1>2, <1>3, <1>6, NothingIs DEF Handed, Taking

Takes == \/ \E only : cmd_reclaim_unread(only)
         \/ \E locked : exec_logout(locked)
         \/ PopUnread \/ MarkHeld \/ PutBack \/ ReclaimEnd \/ LogoutEnd

LEMMA TakesKeep ==
  ASSUME Typed, Waiting, Handed, Takes
  PROVE  Typed' /\ Waiting' /\ Handed'
<1>0. Mapped(read) /\ rstack \in Seq(Texts) /\ ustack \in Seq(Texts)
  BY DEF Typed
<1>1. ASSUME NEW only, cmd_reclaim_unread(only) PROVE Typed' /\ Waiting' /\ Handed'
  <2>1. /\ BeginTake("reclaim", only, FALSE)
        /\ UNCHANGED << parent, files, read, Current_conf, cstack, rstack, ustack >>
    BY <1>1 DEF cmd_reclaim_unread, board, place, stacks
  <2>2. Handed' /\ pc' # "walk"
    BY <2>1, BeginTakeHands
  <2> QED BY <1>0, <2>1, <2>2, LeftAlone
<1>2. ASSUME NEW locked, exec_logout(locked) PROVE Typed' /\ Waiting' /\ Handed'
  <2>1. /\ \E l : BeginTake("logout", Confs, l)
        /\ UNCHANGED << parent, files, read, Current_conf, cstack, rstack, ustack >>
    BY <1>2 DEF exec_logout, board, place, stacks
  <2>2. Handed' /\ pc' # "walk"
    BY <2>1, BeginTakeHands
  <2> QED BY <1>0, <2>1, <2>2, LeftAlone
<1>3. CASE PopUnread
  <2>1. UNCHANGED << parent, files, read, Current_conf, cstack, rstack >>
    BY <1>3 DEF PopUnread, board, place
  <2>2. Handed' /\ pc' # "walk" /\ ustack' \in Seq(Texts)
    BY <1>0, <1>3, PopHands, StackEnds
  <2> QED BY <1>0, <2>1, <2>2, LeftAlone
<1>4. CASE MarkHeld
  <2>1. /\ UNCHANGED << parent, files, Current_conf, cstack, rstack, ustack >>
        /\ read' = read \/ \E c, S : read' = Unmark(read, c, S)
    BY <1>4 DEF MarkHeld, board, place, stacks
  <2>2. Mapped(read')
    BY <1>0, <2>1, MappedMark
  <2>3. Handed' /\ pc' # "walk"
    BY <1>4, MarkHands
  <2> QED BY <1>0, <2>1, <2>2, <2>3, LeftAlone
<1>5. CASE PutBack
  <2>1. /\ UNCHANGED << parent, files, read, Current_conf, cstack, rstack >>
        /\ ustack' = Append(ustack, Last(job.aside))
    BY <1>5 DEF PutBack, board, place
  <2>2. Handed' /\ pc' # "walk" /\ Last(job.aside) \in Texts
    BY <1>5, PutHands, StackEnds
  <2>3. ustack' \in Seq(Texts)
    BY <1>0, <2>1, <2>2, Stacks
  <2> QED BY <1>0, <2>1, <2>2, <2>3, LeftAlone
<1>6. CASE ReclaimEnd
  <2>1. /\ UNCHANGED << parent, files, read, rstack, ustack >> /\ pc' = "command"
        /\ IF job.first # NoConf THEN SetConf(job.first) /\ cstack' = << >>
                                 ELSE UNCHANGED << Current_conf, Last_conf, cstack >>
    BY <1>6 DEF ReclaimEnd, board
  <2>2. Handed'
    BY <2>1 DEF Handed, Taking
  <2>3. CASE job.first # NoConf
    <3>1. Current_conf' \in Confs /\ cstack' = << >>
      BY <1>6, <2>1, <2>3 DEF Handed, Taking, ReclaimEnd, AllTaken, SetConf
    <3> QED BY <1>0, <2>1, <2>2, <3>1, Emptied
  <2>4. CASE job.first = NoConf
    BY <1>0, <2>1, <2>2, <2>4, LeftAlone
  <2> QED BY <2>3, <2>4
<1>7. CASE LogoutEnd
  <2>1. UNCHANGED << parent, files, read, Current_conf, cstack, rstack, ustack >> /\ pc' = "out"
    BY <1>7 DEF LogoutEnd, board, place, stacks
  <2>2. Handed'
    BY <2>1 DEF Handed, Taking
  <2> QED BY <1>0, <2>1, <2>2, LeftAlone
<1> QED BY <1>1, <1>2, <1>3, <1>4, <1>5, <1>6, <1>7 DEF Takes

LEMMA UnreadTextKeeps ==
  ASSUME Typed, Waiting, NEW a, cmd_unread_text(a)
  PROVE  Typed' /\ Waiting'
<1> DEFINE t == IF a.is = "default" THEN Text(Last_conf, Last_text) ELSE ParseText(a)
           x == Text(Current_conf, t.num)
<1>1. /\ t.num \in files[Current_conf] /\ ustack' = Append(ustack, x)
      /\ UNCHANGED << parent, files, read, Current_conf, cstack, rstack >> /\ pc' # "walk"
  BY DEF cmd_unread_text, board, Command
<1>2. Current_conf \in Confs /\ files[Current_conf] \subseteq Nat
  BY BoardedIs DEF Typed
<1>3. x \in Texts
  BY <1>1, <1>2 DEF Text, Texts
<1> HIDE DEF x
<1>4. ustack' \in Seq(Texts)
  BY <1>1, <1>3, AppendProperties DEF Typed
<1> QED BY <1>1, <1>4, LeftAlone DEF Typed

LEMMA NextConfKeeps ==
  ASSUME Typed, Waiting, cmd_next_conf
  PROVE  Typed' /\ Waiting'
<1>1. UNCHANGED << parent, files, rstack, ustack >> /\ pc' # "walk" /\ Mapped(read')
  BY MappedAfter DEF cmd_next_conf, board, control, Command
<1>2. CASE MoreConf = NoConf
  <2>1. UNCHANGED << Current_conf, cstack >>
    BY <1>2 DEF cmd_next_conf, place
  <2> QED BY <1>1, <2>1, LeftAlone DEF Typed
<1>3. CASE MoreConf # NoConf
  <2>1. Current_conf' = MoreConf /\ cstack' = << >>
    BY <1>3 DEF cmd_next_conf, Enter, SetConf
  <2>2. Current_conf' \in Confs
    BY <1>3, <2>1, MoreConfIs DEF Typed
  <2> QED BY <1>1, <2>1, <2>2, Emptied DEF Typed
<1> QED BY <1>2, <1>3

LEMMA ChangeConfKeeps ==
  ASSUME Typed, NEW c \in Confs, cmd_change_conf(c)
  PROVE  Typed' /\ Waiting'
<1>1. UNCHANGED << parent, files, rstack, ustack >> /\ pc' # "walk" /\ cstack' = << >> /\ Current_conf' \in Confs
  BY DEF cmd_change_conf, Enter, SetConf, board, control, Command
<1>2. Mapped(read')
  BY MappedExcept DEF cmd_change_conf, Typed
<1> QED BY <1>1, <1>2, Emptied DEF Typed

LEMMA UnsubscribeKeeps ==
  ASSUME Typed, Waiting, NEW c \in Confs, cmd_unsubscribe(c)
  PROVE  Typed' /\ Waiting'
<1>1. UNCHANGED << parent, files, rstack, ustack >> /\ pc' # "walk"
  BY DEF cmd_unsubscribe, board, control, Command
<1>2. Mapped(read')
  BY MappedExcept DEF cmd_unsubscribe, Typed
<1>3. CASE c = Current_conf
  <2>1. cstack' = << >> /\ Current_conf' = Mailbox
    BY <1>3 DEF cmd_unsubscribe, SetConf
  <2> QED BY <1>1, <1>2, <2>1, Emptied DEF Typed, Confs
<1>4. CASE c # Current_conf
  <2>1. UNCHANGED << Current_conf, cstack >>
    BY <1>4 DEF cmd_unsubscribe
  <2> QED BY <1>1, <1>2, <2>1, LeftAlone DEF Typed
<1> QED BY <1>3, <1>4

(* Steps that mark texts and move nowhere: the stack stays, or is emptied. *)
LEMMA MarkedKeeps ==
  ASSUME Typed, Waiting, UNCHANGED << parent, files, Current_conf, rstack, ustack >>, Mapped(read'),
         cstack' = << >> \/ cstack' = cstack, pc' # "walk"
  PROVE  Typed' /\ Waiting'
<1>1. rstack' \in Seq(Texts) /\ ustack' \in Seq(Texts) /\ Current_conf' \in Confs
  BY DEF Typed
<1>2. CASE cstack' = << >>
  BY <1>1, <1>2, Emptied
<1>3. CASE cstack' = cstack
  BY <1>1, <1>3, LeftAlone
<1> QED BY <1>2, <1>3

LEMMA SweepsKeep ==
  ASSUME Typed, Waiting,
         \/ cmd_jumpsub \/ cmd_sendbatch \/ SweepStep \/ RestoreStep \/ \E mark \in BOOLEAN : SweepEnd(mark)
         \/ \E max : cmd_unreadsub(max)
         \/ \E n : cmd_only(n)
  PROVE  Typed' /\ Waiting'
<1>0. Mapped(read)
  BY DEF Typed
<1>1. ASSUME NEW confs, NEW match, NEW ask, BeginSweep(confs, match, ask) PROVE Typed' /\ Waiting'
  <2>1. /\ UNCHANGED << parent, files, Current_conf, rstack, ustack >> /\ read' = read
        /\ cstack' = cstack /\ pc' # "walk"
    BY <1>1 DEF BeginSweep, board, place, stacks
  <2> QED BY <1>0, <2>1, MarkedKeeps
<1>2. CASE SweepStep
  <2>1. /\ UNCHANGED << parent, files, Current_conf, rstack, ustack >>
        /\ cstack' = cstack /\ pc' # "walk"
    BY <1>2 DEF SweepStep, board, place, stacks
  <2>2. Mapped(read')
    <3> DEFINE c == Head(job.confs)
    <3>1. read' = Found(c) \/ \E S : read' = Mark(Found(c), c, S)
      BY <1>2 DEF SweepStep
    <3> QED BY <1>0, <3>1, MappedFound, MappedMark
  <2> QED BY <2>1, <2>2, MarkedKeeps
<1>3. CASE RestoreStep
  <2>1. /\ UNCHANGED << parent, files, Current_conf, rstack, ustack >>
        /\ cstack' = cstack /\ pc' # "walk"
    BY <1>3 DEF RestoreStep, Swept, board, place, stacks
  <2>2. Mapped(read')
    BY <1>0, <1>3, MappedMark DEF RestoreStep
  <2> QED BY <2>1, <2>2, MarkedKeeps
<1>4. ASSUME NEW mark \in BOOLEAN, SweepEnd(mark) PROVE Typed' /\ Waiting'
  <2>1. /\ UNCHANGED << parent, files, Current_conf, rstack, ustack >>
        /\ cstack' = << >> \/ cstack' = cstack
    BY <1>4 DEF SweepEnd, board, place
  <2>2. Mapped(read')
    BY <1>0, <1>4 DEF SweepEnd, Mapped
  <2>3. pc' # "walk"
    BY <1>4 DEF SweepEnd
  <2> QED BY <2>1, <2>2, <2>3, MarkedKeeps
<1>5. ASSUME NEW max, cmd_unreadsub(max) PROVE Typed' /\ Waiting'
  <2>1. /\ UNCHANGED << parent, files, Current_conf, rstack, ustack >> /\ pc' # "walk"
        /\ cstack' = << >> \/ cstack' = cstack
    BY <1>5 DEF cmd_unreadsub, board, place, control, Command
  <2>2. Mapped(read')
    BY <1>0, <1>5, MappedMark DEF cmd_unreadsub
  <2> QED BY <2>1, <2>2, MarkedKeeps
<1>6. ASSUME NEW n, cmd_only(n) PROVE Typed' /\ Waiting'
  <2>1. /\ UNCHANGED << parent, files, Current_conf, rstack, ustack >> /\ pc' # "walk"
        /\ cstack' = << >>
    BY <1>6 DEF cmd_only, board, place, control, Command
  <2>2. Mapped(read')
    BY <1>0, <1>6, MappedExcept DEF cmd_only
  <2> QED BY <2>1, <2>2, MarkedKeeps
<1>7. CASE cmd_jumpsub \/ cmd_sendbatch
  BY <1>1, <1>7 DEF cmd_jumpsub, cmd_sendbatch
<1> QED BY <1>2, <1>3, <1>4, <1>5, <1>6, <1>7

LEMMA ReadTextKeeps ==
  ASSUME Typed, Waiting, NEW a, cmd_read_text(a)
  PROVE  Typed' /\ Waiting'
<1>1. UNCHANGED << parent, files, Current_conf, cstack, rstack, ustack >> /\ pc' # "walk"
  BY DEF cmd_read_text, board, stacks, control, Command
<1>2. Mapped(read')
  <2>1. read' = read \/ \E c, S : read' = Mark(read, c, S)
    BY DEF cmd_read_text
  <2> QED BY <2>1, MappedMark DEF Typed
<1> QED BY <1>1, <1>2, MarkedKeeps

LEMMA TreesKeep ==
  ASSUME Typed, Waiting, Trees
  PROVE  Typed' /\ Waiting'
<1>1. CASE cmd_jump_over \/ cmd_jump_tree
  <2>1. (\E mark, root : BeginWalk(mark, root)) /\ Current_conf' = Current_conf
    BY <1>1 DEF cmd_jump_over, cmd_jump_tree, place
  <2> QED BY <2>1, BeginWalkKeeps
<1>2. ASSUME NEW n, cmd_unread_tree(n) PROVE Typed' /\ Waiting'
  <2>1. (\E mark, root : BeginWalk(mark, root)) /\ Current_conf' = Current_conf
    BY <1>2 DEF cmd_unread_tree, place
  <2> QED BY <2>1, BeginWalkKeeps
<1>3. ASSUME NEW a, cmd_goto_text(a) PROVE Typed' /\ Waiting'
  <2> DEFINE t == ParseText(a)
  <2>0. Current_conf' = Current_conf /\ pc = "command"
    BY <1>3 DEF cmd_goto_text, Command
  <2>1. CASE t.num \in files[Current_conf]
    <3>1. BeginWalk("unread", t.num)
      BY <1>3, <2>1 DEF cmd_goto_text
    <3> QED BY <2>0, <3>1, BeginWalkKeeps
  <2>2. CASE t.num \notin files[Current_conf]
    <3>1. cstack' = << >> /\ UNCHANGED << parent, files, read, Current_conf, rstack, ustack, pc >>
      BY <1>3, <2>2 DEF cmd_goto_text, board, control
    <3> QED BY <2>0, <3>1, MarkedKeeps DEF Typed
  <2> QED BY <2>1, <2>2
<1>4. CASE WalkStep
  BY <1>4, WalkStepKeeps
<1> QED BY <1>1, <1>2, <1>3, <1>4 DEF Trees

(* The first texts and conference.                                         *)
LEMMA InitTyped == Init => Typed /\ Waiting
<1> SUFFICES ASSUME Init PROVE Typed /\ Waiting
  OBVIOUS
<1>1. parent \in [Confs -> Seq(Texts)] /\ \A c \in Confs : \A n \in DOMAIN parent[c] : parent[c][n].conf = c => parent[c][n].num < n
  BY BoardsAssumption DEF Init, Texts
<1>2. \A c \in Confs : files[c] = DOMAIN parent[c]
  <2> TAKE c \in Confs
  <2>1. parent[c] \in Seq(Texts)
    BY <1>1
  <2>2. DOMAIN parent[c] = 1 .. Len(parent[c])
    BY <2>1, TextsIn
  <2> QED BY <2>2 DEF Init
<1>3. Boarded
  <2>1. Mapped(files)
    BY DEF Init, Mapped
  <2> QED BY <1>1, <1>2, <2>1 DEF Boarded, Grown
<1>4. set_first_conf \in Confs
  <2>1. CASE parent[Mailbox] # << >> \/ Unheard = {}
    BY <2>1 DEF set_first_conf, Confs
  <2>2. CASE ~(parent[Mailbox] # << >> \/ Unheard = {})
    <3>1. Unheard # {} /\ Unheard \subseteq DOMAIN Order /\ DOMAIN Order \subseteq Nat
      BY <2>2, OrderIs DEF Unheard
    <3>2. \E i \in Unheard : \A j \in Unheard : i <= j
      BY <3>1, LeastOf
    <3> DEFINE i == CHOOSE i \in Unheard : \A j \in Unheard : i <= j
    <3>3. i \in DOMAIN Order
      BY <3>1, <3>2
    <3>4. set_first_conf = Order[i]
      BY <2>2 DEF set_first_conf
    <3> HIDE DEF i
    <3> QED BY <3>3, <3>4, OrderIs
  <2> QED BY <2>1, <2>2
<1>5. Current_conf \in Confs
  <2>1. Mailbox \in Confs
    BY DEF Confs
  <2> QED BY <1>4, <2>1 DEF Init
<1>6. Mapped(read) /\ cstack = << >> /\ rstack = << >> /\ ustack = << >> /\ pc = "command"
  BY DEF Init, Mapped
<1>7. Typed
  BY <1>3, <1>5, <1>6, EmptyTidy DEF Typed
<1>8. Waiting
  BY <1>6, EmptyTidy DEF Waiting
<1> QED BY <1>7, <1>8

(* The others have nothing in hand.                                        *)
LEMMA OthersHand ==
  ASSUME Next, ~Takes
  PROVE  UNCHANGED << pc, job >> \/ ~Taking'
<1>1. CASE Read
  BY <1>1 DEF Read, cmd_next_text, cmd_next_comment, AllStep, BeginAll, cmd_read_text, cmd_comment, cmd_next_conf,
              cmd_change_conf, cmd_unsubscribe, Command, control, Taking
<1>2. CASE Trees
  BY <1>2 DEF Trees, cmd_jump_over, cmd_jump_tree, cmd_goto_text, cmd_unread_tree, BeginWalk, WalkStep, Command,
              control, Taking
<1>3. CASE Sweeps
  BY <1>3 DEF Sweeps, cmd_jumpsub, cmd_sendbatch, BeginSweep, SweepStep, RestoreStep, SweepEnd, Swept, cmd_unreadsub,
              cmd_only, Command, control, Taking
<1>4. CASE Elsewhere
  BY <1>4 DEF Elsewhere, Delete, Post, control
<1>5. CASE (\E n : cmd_back_text(n)) \/ \E a : cmd_unread_text(a)
  BY <1>5 DEF cmd_back_text, cmd_unread_text, control
<1> QED BY <1>1, <1>2, <1>3, <1>4, <1>5 DEF Next, Back, Takes

LEMMA InitHanded == Init => Handed
BY DEF Init, Handed, Taking

LEMMA NextTyped == Typed /\ Waiting /\ Handed /\ [Next]_vars => Typed' /\ Waiting' /\ Handed'
<1> SUFFICES ASSUME Typed, Waiting, Handed, [Next]_vars PROVE Typed' /\ Waiting' /\ Handed'
  OBVIOUS
<1>0. ASSUME UNCHANGED << pc, job >> \/ ~Taking' PROVE Handed'
  BY <1>0 DEF Handed, Taking
<1>t. ASSUME Next, ~Takes PROVE Handed'
  BY <1>0, <1>t, OthersHand
<1>1. ASSUME Read PROVE Typed' /\ Waiting'
  <2>1. ASSUME NEW all, BeginAll(all) PROVE Typed' /\ Waiting'
    <3>1. /\ UNCHANGED << parent, files, Current_conf, cstack, rstack, ustack, read >> /\ pc' # "walk"
      BY <2>1 DEF BeginAll, board, place, stacks
    <3> QED BY <3>1, MarkedKeeps DEF Typed
  <2>2. Typed' /\ Waiting'
    BY <1>1, <2>1, NextTextKeeps, NextCommentKeeps, AllStepKeeps, ReadTextKeeps, CommentKeeps,
             NextConfKeeps, ChangeConfKeeps, UnsubscribeKeeps DEF Read
  <2> QED BY <2>2
<1>2. ASSUME Trees PROVE Typed' /\ Waiting'
  BY <1>2, TreesKeep
<1>3. ASSUME Sweeps PROVE Typed' /\ Waiting'
  BY <1>3, SweepsKeep DEF Sweeps
<1>4. ASSUME Back, ~Takes PROVE Typed' /\ Waiting'
  <2>1. ASSUME NEW n \in 1 .. MaxRead, cmd_back_text(n) PROVE Typed' /\ Waiting'
    <3>1. n \in Nat /\ n > 0
      OBVIOUS
    <3> QED BY <2>1, <3>1, BackTextKeeps
  <2> QED BY <1>4, <2>1, UnreadTextKeeps DEF Back, Takes
<1>5. ASSUME Elsewhere PROVE Typed' /\ Waiting'
  BY <1>5, DeleteKeeps, PostKeeps DEF Elsewhere
<1>6. CASE UNCHANGED vars
  <2>1. UNCHANGED << parent, files, read, Current_conf, cstack, rstack, ustack, pc, job >>
    BY <1>6 DEF vars, board, place, stacks, control
  <2>2. Typed' /\ Waiting'
    BY <2>1, TypedSame, WaitingSame DEF Typed
  <2> QED BY <1>0, <2>1, <2>2
<1>7. CASE Takes
  BY <1>7, TakesKeep
<1>8. CASE Next /\ ~Takes
  BY <1>t, <1>1, <1>2, <1>3, <1>4, <1>5, <1>8 DEF Next
<1> QED BY <1>6, <1>7, <1>8

LEMMA AlwaysTyped == Spec => [](Typed /\ Waiting /\ Handed)
BY InitTyped, InitHanded, NextTyped, PTL DEF Spec

(* The comments that wait are of the conference the user is in, each once. *)
THEOREM CommentsAreHere == Spec => []CommentsHere
<1>1. Typed /\ Waiting => CommentsHere
  <2> SUFFICES ASSUME Typed, Waiting, NEW i \in DOMAIN cstack
               PROVE  cstack[i].conf = Current_conf /\ \A j \in 1 .. i - 1 : cstack[j] # cstack[i]
    BY DEF CommentsHere
  <2>1. Tidy(parent[Current_conf], Current_conf, cstack)
    BY DEF Waiting
  <2>2. DOMAIN cstack = 1 .. Len(cstack) /\ Len(cstack) \in Nat
    BY TextsIn DEF Typed
  <2>3. ASSUME NEW j \in 1 .. i - 1 PROVE cstack[j] # cstack[i]
    <3>1. j \in DOMAIN cstack /\ i # j
      BY <2>2
    <3>2. Apart(parent[Current_conf], Current_conf, cstack[j].num, cstack[i].num)
      BY <2>1, <3>1 DEF Tidy
    <3>3. cstack[j].num # cstack[i].num
      BY <3>2, ApartDiffer
    <3> QED BY <3>3
  <2> QED BY <2>1, <2>3 DEF Tidy
<1> QED BY <1>1, AlwaysTyped, PTL

-----------------------------------------------------------------------------
(* The steps that do not touch what was asked for at logout.               *)
LEMMA OthersAsk ==
  ASSUME Next, \A a : ~cmd_unread_text(a), ~Takes
  PROVE  /\ UNCHANGED << wanted, missed, ustack >>
         /\ \/ pc # "out" /\ pc' # "out" /\ ~Taking /\ ~Taking'
            \/ UNCHANGED << read, subs, pc, job >>
<1>1. CASE Read
  BY <1>1 DEF Read, cmd_next_text, cmd_next_comment, AllStep, BeginAll, cmd_read_text, cmd_comment, cmd_next_conf,
              cmd_change_conf, cmd_unsubscribe, Command, control, asked, stacks, ReadHere, Taking
<1>2. CASE Trees
  BY <1>2 DEF Trees, cmd_jump_over, cmd_jump_tree, cmd_goto_text, cmd_unread_tree, BeginWalk, WalkStep, Command,
              control, asked, Taking
<1>3. CASE Sweeps
  BY <1>3 DEF Sweeps, cmd_jumpsub, cmd_sendbatch, BeginSweep, SweepStep, RestoreStep, SweepEnd, Swept, cmd_unreadsub,
              cmd_only, Command, control, asked, stacks, Taking
<1>4. CASE Elsewhere
  BY <1>4 DEF Elsewhere, Delete, Post, control, asked, stacks
<1>5. CASE \E n \in 1 .. MaxRead : cmd_back_text(n)
  BY <1>5 DEF cmd_back_text, Command, control, asked, Taking
<1> QED BY <1>1, <1>2, <1>3, <1>4, <1>5 DEF Next, Back, Takes

(* What was asked for is on the stack or in hand until it is unread.       *)
Unread(t) == t.conf \in subs => t.num \notin read[t.conf]
Waits(t)  == t \in ToSet(ustack) \/ t \in InHand \/ (Taking /\ job.op = "logout" /\ Unread(t))
Asked ==
  /\ wanted \subseteq Texts /\ Nothing \notin wanted
  /\ \A t \in wanted \ missed : IF pc = "out" THEN Unread(t) ELSE Waits(t)

LEMMA UnreadTextAsks ==
  ASSUME Typed, Asked, NEW a, cmd_unread_text(a)
  PROVE  Asked'
<1> DEFINE t == IF a.is = "default" THEN Text(Last_conf, Last_text) ELSE ParseText(a)
           x == Text(Current_conf, t.num)
<1>1. /\ t.num \in files[Current_conf] /\ ustack' = Append(ustack, x) /\ wanted' = wanted \cup {x}
      /\ pc = "command" /\ pc' = pc /\ missed' = missed /\ t.num # 0
  BY DEF cmd_unread_text, Command
<1>2. Current_conf \in Confs /\ files[Current_conf] \subseteq Nat
  BY BoardedIs DEF Typed
<1>3. x \in Texts /\ ustack \in Seq(Texts) /\ x # Nothing
  BY <1>1, <1>2 DEF Text, Texts, Typed, Nothing
<1> HIDE DEF x
<1>4. ToSet(ustack) \subseteq ToSet(ustack') /\ x \in ToSet(ustack')
  BY <1>1, <1>3, Stacks
<1>5. wanted' \subseteq Texts /\ Nothing \notin wanted'
  BY <1>1, <1>3 DEF Asked
<1>6. ASSUME NEW u \in wanted' \ missed' PROVE u \in ToSet(ustack')
  <2>1. u = x \/ u \in ToSet(ustack)
    BY <1>1, <1>6 DEF Asked, Waits, InHand, Taking
  <2> QED BY <1>4, <2>1
<1> QED BY <1>1, <1>5, <1>6 DEF Asked, Waits

LEMMA TakesAsk ==
  ASSUME Typed, Handed, Asked, Takes
  PROVE  Asked'
<1>0. wanted \subseteq Texts /\ Nothing \notin wanted
  BY DEF Asked
<1>1. ASSUME NEW only, cmd_reclaim_unread(only) PROVE Asked'
  <2>1. pc = "command" /\ BeginTake("reclaim", only, FALSE) /\ UNCHANGED << ustack, wanted, missed >>
    BY <1>1 DEF cmd_reclaim_unread, Command, stacks, asked
  <2>2. pc' = "take"
    BY <2>1, BeginTakeHands
  <2>3. \A t \in wanted \ missed : t \in ToSet(ustack)
    BY <2>1 DEF Asked, Waits, InHand, Taking
  <2> QED BY <1>0, <2>1, <2>2, <2>3 DEF Asked, Waits
<1>2. ASSUME NEW locked, exec_logout(locked) PROVE Asked'
  <2>1. /\ pc # "out" /\ \E l : BeginTake("logout", Confs, l)
        /\ UNCHANGED << ustack, wanted, read, subs >> /\ missed' = missed \cup InHand
    BY <1>2 DEF exec_logout, stacks
  <2>2. pc' = "take" /\ job'.op = "logout"
    BY <2>1, BeginTakeHands
  <2>3. \A t \in wanted \ missed' : t \in ToSet(ustack) \/ Unread(t)
    BY <2>1 DEF Asked, Waits
  <2>4. \A t : Unread(t)' <=> Unread(t)
    BY <2>1 DEF Unread
  <2> QED BY <1>0, <2>1, <2>2, <2>3, <2>4 DEF Asked, Waits, Taking
<1>3. CASE PopUnread
  <2>1. UNCHANGED << read, subs, wanted, missed >>
    BY <1>3 DEF PopUnread, asked
  <2>2. /\ pc = "take" /\ pc' = "take" /\ job.held = Nothing /\ ustack # << >> /\ ustack' = Front(ustack)
        /\ job'.op = job.op
        /\ \/ job'.held = Last(ustack) /\ job'.aside = job.aside
           \/ job'.held = Nothing /\ job'.aside = Append(job.aside, Last(ustack))
    BY <1>3, PopHands
  <2>3. ToSet(ustack) = ToSet(ustack') \cup {Last(ustack)} /\ Last(ustack) \in Texts
    BY <2>2, StackEnds DEF Typed
  <2>4. job.aside \in Seq(Texts)
    BY <2>2 DEF Handed, Taking
  <2>5. ASSUME NEW t \in Texts, t # Nothing, t \in ToSet(ustack) PROVE t \in ToSet(ustack') \/ t \in InHand'
    <3>1. CASE t # Last(ustack)
      BY <2>3, <2>5, <3>1
    <3>2. CASE t = Last(ustack) /\ job'.held = Last(ustack)
      BY <2>2, <2>5, <3>2 DEF InHand, Taking
    <3>3. CASE t = Last(ustack) /\ job'.aside = Append(job.aside, Last(ustack))
      <4>1. t \in ToSet(job'.aside)
        BY <2>3, <2>4, <3>3, Stacks
      <4> QED BY <2>2, <4>1 DEF InHand, Taking
    <3> QED BY <2>2, <3>1, <3>2, <3>3
  <2>6. ASSUME NEW t \in InHand PROVE t \in InHand'
    <3>1. t \in ToSet(job.aside)
      BY <2>2, <2>6 DEF InHand, Taking
    <3>2. ToSet(job.aside) \subseteq ToSet(job'.aside)
      BY <2>2, <2>3, <2>4, Stacks
    <3> QED BY <2>2, <3>1, <3>2 DEF InHand, Taking
  <2>7. ASSUME NEW t \in wanted \ missed PROVE Waits(t)'
    <3>1. Waits(t) /\ t \in Texts /\ t # Nothing
      BY <1>0, <2>2, <2>7 DEF Asked
    <3>2. Unread(t)' <=> Unread(t)
      BY <2>1 DEF Unread
    <3> QED BY <2>2, <2>5, <2>6, <3>1, <3>2 DEF Waits, Taking
  <2> QED BY <1>0, <2>1, <2>2, <2>7 DEF Asked
<1>4. CASE MarkHeld
  <2> DEFINE h == job.held
  <2>1. /\ UNCHANGED << ustack, subs >>
        /\ read' = IF job.locked THEN read ELSE Unmark(read, h.conf, {h.num})
        /\ missed' = IF job.locked THEN missed \cup {h} ELSE missed
        /\ wanted' = IF job.op = "reclaim" THEN wanted \ {h} ELSE wanted
    BY <1>4 DEF MarkHeld, stacks
  <2>2. /\ pc = "take" /\ pc' = "take" /\ job'.op = job.op /\ job'.held = Nothing
        /\ job'.aside = job.aside /\ h \in Texts
    BY <1>4, MarkHands
  <2> HIDE DEF h
  <2>3. ASSUME NEW t \in Texts, Unread(t) PROVE Unread(t)'
    <3>1. t.conf \in Confs
      BY DEF Texts
    <3>2. read'[t.conf] \subseteq read[t.conf]
      BY <2>1, <3>1 DEF Unmark, Typed, Mapped
    <3> QED BY <2>1, <2>3, <3>2 DEF Unread
  <2>4. ASSUME ~job.locked, h.conf \in subs PROVE h.num \notin read'[h.conf]
    <3>1. h.conf \in Confs
      BY <2>2 DEF Texts
    <3> QED BY <2>1, <2>4, <3>1 DEF Unmark, Typed, Mapped
  <2>5. job.op = "reclaim" \/ job.op = "logout"
    BY <2>2 DEF Handed, Taking
  <2>6. ASSUME NEW t \in wanted' \ missed' PROVE Waits(t)'
    <3>1. t \in Texts /\ t \in wanted \ missed /\ Waits(t)
      BY <1>0, <2>1, <2>2, <2>6 DEF Asked
    <3>2. CASE t = h
      <4>1. job.op = "logout" /\ ~job.locked
        BY <2>1, <2>5, <2>6, <3>2
      <4>2. Unread(t)'
        BY <2>1, <2>4, <3>2, <4>1 DEF Unread
      <4> QED BY <2>2, <4>1, <4>2 DEF Waits, Taking
    <3>3. CASE t # h
      <4>1. t \in InHand => t \in InHand'
        BY <2>2, <3>3 DEF InHand, Taking, h
      <4>2. Unread(t) => Unread(t)'
        BY <2>3, <3>1
      <4> QED BY <2>1, <2>2, <3>1, <4>1, <4>2 DEF Waits, Taking
    <3> QED BY <3>2, <3>3
  <2>7. wanted' \subseteq wanted
    BY <2>1
  <2> QED BY <1>0, <2>2, <2>6, <2>7 DEF Asked
<1>5. CASE PutBack
  <2>1. UNCHANGED << read, subs, wanted, missed >> /\ ustack' = Append(ustack, Last(job.aside))
    BY <1>5 DEF PutBack, asked
  <2>2. /\ Taking /\ pc' = "back" /\ job.op # "logout" /\ job.held = Nothing /\ job'.held = Nothing
        /\ job.aside \in Seq(Texts) /\ job.aside # << >> /\ job'.aside = Front(job.aside)
    BY <1>5, PutHands
  <2>3. ToSet(job.aside) = ToSet(job'.aside) \cup {Last(job.aside)} /\ Last(job.aside) \in Texts
    BY <2>2, StackEnds
  <2>4. ToSet(ustack) \cup {Last(job.aside)} \subseteq ToSet(ustack')
    BY <2>1, <2>3, Stacks DEF Typed
  <2>5. ASSUME NEW t \in wanted \ missed PROVE Waits(t)'
    <3>1. t \in ToSet(ustack) \/ t \in ToSet(job.aside)
      BY <2>2, <2>5 DEF Asked, Waits, InHand, Taking
    <3> QED BY <2>2, <2>3, <2>4, <3>1 DEF Waits, InHand, Taking
  <2> QED BY <1>0, <2>1, <2>2, <2>5 DEF Asked
<1>6. CASE ReclaimEnd
  <2>1. /\ AllTaken /\ job.op = "reclaim" /\ job.aside = << >> /\ pc' = "command"
        /\ UNCHANGED << ustack, wanted, missed >>
    BY <1>6 DEF ReclaimEnd, asked
  <2>2. pc # "out" /\ job.held = Nothing
    BY <2>1 DEF AllTaken, Handed, Taking
  <2>3. InHand = {}
    BY <2>1, <2>2, EmptyTidy DEF InHand, ToSet
  <2> QED BY <1>0, <2>1, <2>2, <2>3 DEF Asked, Waits
<1>7. CASE LogoutEnd
  <2>1. AllTaken /\ job.op = "logout" /\ pc' = "out" /\ UNCHANGED << wanted, missed, read, subs >>
    BY <1>7 DEF LogoutEnd, asked
  <2>2. pc = "take" /\ job.held = Nothing /\ job.aside = << >> /\ ustack = << >>
    BY <2>1 DEF AllTaken, Handed, Taking
  <2>3. InHand = {} /\ ToSet(ustack) = {}
    BY <2>2, EmptyTidy DEF InHand, ToSet
  <2>4. \A t \in wanted \ missed : Unread(t)
    BY <2>2, <2>3 DEF Asked, Waits
  <2> QED BY <1>0, <2>1, <2>4 DEF Asked, Unread
<1> QED BY <1>1, <1>2, <1>3, <1>4, <1>5, <1>6, <1>7 DEF Takes

(* What the user asked to have unread at logout is unread then: all that   *)
(* no hangup found in the hands of reclaim_unread, and no lock kept.       *)
THEOREM AskedIsUnread == Spec => []LogoutUnreads
<1>1. Init => Asked
  BY DEF Init, Asked
<1>2. Typed /\ Handed /\ Asked /\ [Next]_vars => Asked'
  <2> SUFFICES ASSUME Typed, Handed, Asked, [Next]_vars PROVE Asked'
    OBVIOUS
  <2>0. ASSUME UNCHANGED << wanted, missed, ustack, read, subs, pc, job >> PROVE Asked'
    BY <2>0 DEF Asked, Waits, Unread, InHand, Taking
  <2>1. CASE UNCHANGED vars
    BY <2>0, <2>1 DEF vars, stacks, control, asked
  <2>2. CASE \E a : cmd_unread_text(a)
    BY <2>2, UnreadTextAsks
  <2>3. CASE Takes
    BY <2>3, TakesAsk
  <2>4. CASE Next /\ (\A a : ~cmd_unread_text(a)) /\ ~Takes
    <3>1. CASE pc # "out" /\ pc' # "out" /\ ~Taking /\ ~Taking'
      BY <2>4, <3>1, OthersAsk DEF Asked, Waits, InHand
    <3>2. CASE UNCHANGED << read, subs, pc, job >>
      BY <2>0, <2>4, <3>2, OthersAsk
    <3> QED BY <2>4, <3>1, <3>2, OthersAsk
  <2> QED BY <2>1, <2>2, <2>3, <2>4
<1>3. Asked => LogoutUnreads
  BY DEF Asked, Unread, LogoutUnreads
<1> QED BY <1>1, <1>2, <1>3, AlwaysTyped, PTL DEF Spec

-----------------------------------------------------------------------------
(* A sweep: an unread text that is not meant is read only while it is on   *)
(* the list of those to be marked as unread again.                         *)
Owed ==
  pc = "sweep" =>
    /\ job = [op |-> job.op, confs |-> job.confs, match |-> job.match, ask |-> job.ask, hit |-> job.hit,
              kept |-> job.kept, back |-> job.back, due |-> job.due]
    /\ job.confs \in Seq(Confs) /\ job.kept \in Seq(Texts)
    /\ job.back \in Nat \ {0} /\ (job.confs # << >> => job.back = 1)
    /\ \A t \in job.due :
         /\ t \in Texts /\ t.conf \in subs /\ t.num \in DOMAIN parent[t.conf] /\ t \notin job.match
         /\ t.num \in files[t.conf] /\ t.num \in read[t.conf]
              => \E i \in DOMAIN job.kept : job.back <= i /\ job.kept[i] = t

LEMMA FieldsOf ==
  ASSUME NEW op, NEW confs, NEW match, NEW ask, NEW hit, NEW kept, NEW back, NEW due, NEW j,
         j = [op |-> op, confs |-> confs, match |-> match, ask |-> ask, hit |-> hit,
              kept |-> kept, back |-> back, due |-> due]
  PROVE  /\ j = [op |-> j.op, confs |-> j.confs, match |-> j.match, ask |-> j.ask, hit |-> j.hit,
                 kept |-> j.kept, back |-> j.back, due |-> j.due]
         /\ j.confs = confs /\ j.match = match /\ j.ask = ask /\ j.kept = kept /\ j.back = back /\ j.due = due
OBVIOUS

LEMMA BeginSweepOwes ==
  ASSUME Typed, NEW confs, NEW match, NEW ask, confs \in Seq(Confs), BeginSweep(confs, match, ask)
  PROVE  Owed'
<1> DEFINE due == (UNION {{Text(c, n) : n \in There(c)} : c \in ToSet(confs)}) \ match
<1>1. /\ job' = [op |-> "sweep", confs |-> confs, match |-> match, ask |-> ask, hit |-> FALSE,
                 kept |-> << >>, back |-> 1, due |-> due]
      /\ UNCHANGED << parent, files, read, subs >>
  BY DEF BeginSweep, board
<1>2. ASSUME NEW t \in due
      PROVE  /\ t \in Texts /\ t.conf \in subs /\ t.num \in DOMAIN parent[t.conf] /\ t \notin match
             /\ t.num \notin read[t.conf]
  <2>1. PICK c \in ToSet(confs) : \E n \in There(c) : t = Text(c, n)
    OBVIOUS
  <2>n. PICK n \in There(c) : t = Text(c, n)
    BY <2>1
  <2>2. c \in Confs /\ c \in subs /\ n \in 1 .. LastOf(c) /\ n \notin read[c]
    <3>1. ToSet(confs) \subseteq Confs
      BY LenProperties, ElementOfSeq DEF ToSet
    <3> QED BY <2>1, <3>1 DEF There, Left
  <2>3. DOMAIN parent[c] = 1 .. LastOf(c) /\ n \in Nat
    BY <2>2, BoardedIs DEF Typed
  <2>4. t \notin match
    OBVIOUS
  <2>c. t.conf = c /\ t.num = n
    BY <2>n DEF Text
  <2>5. t \in Texts
    BY <2>n, <2>2, <2>3 DEF Text, Texts
  <2> QED BY <2>2, <2>3, <2>4, <2>5, <2>c
<1> HIDE DEF due
<1>3. /\ job' = [op |-> job'.op, confs |-> job'.confs, match |-> job'.match, ask |-> job'.ask, hit |-> job'.hit,
                 kept |-> job'.kept, back |-> job'.back, due |-> job'.due]
      /\ job'.confs = confs /\ job'.match = match /\ job'.kept = << >> /\ job'.back = 1 /\ job'.due = due
  BY <1>1, FieldsOf
<1>4. << >> \in Seq(Texts)
  OBVIOUS
<1> QED BY <1>1, <1>2, <1>3, <1>4 DEF Owed

(* Marking what next_text passed marks no text that is there.              *)
LEMMA FoundMarks ==
  ASSUME Typed, NEW c, NEW d \in Confs, NEW n \in files[d]
  PROVE  n \in Found(c)[d] <=> n \in read[d]
<1>1. Found(c)[d] = IF d = c THEN read[d] \cup Passed(c) ELSE read[d]
  BY DEF Found, Typed, Mapped
<1>2. ASSUME d = c PROVE n \notin Passed(c)
  BY <1>2 DEF Passed, There
<1> QED BY <1>1, <1>2

LEMMA SweepStepOwes ==
  ASSUME Typed, Owed, SweepStep
  PROVE  Owed'
<1> DEFINE c == Head(job.confs)
           n == NextOf(c)
           keeps == job.ask \/ (n \in files[c] /\ Text(c, n) \notin job.match)
<1>1. pc = "sweep" /\ job.confs # << >> /\ UNCHANGED << parent, files, subs >>
  BY DEF SweepStep, board
<1>2. /\ job = [op |-> job.op, confs |-> job.confs, match |-> job.match, ask |-> job.ask, hit |-> job.hit,
                kept |-> job.kept, back |-> job.back, due |-> job.due]
      /\ job.confs \in Seq(Confs) /\ job.kept \in Seq(Texts) /\ job.back = 1
      /\ \A t \in job.due :
           /\ t \in Texts /\ t.conf \in subs /\ t.num \in DOMAIN parent[t.conf] /\ t \notin job.match
           /\ t.num \in files[t.conf] /\ t.num \in read[t.conf]
                => \E i \in DOMAIN job.kept : job.back <= i /\ job.kept[i] = t
  BY <1>1 DEF Owed
<1>c. c \in Confs /\ Tail(job.confs) \in Seq(Confs)
  BY <1>1, <1>2, HeadTailProperties
<1>n. n \in Nat
  BY <1>c, NextOfIs DEF Typed
<1> HIDE DEF c, n
<1>3. CASE n = 0
  <2>1. job' = [job EXCEPT !.confs = Tail(@)] /\ read' = Found(c)
    BY <1>3 DEF SweepStep, c, n
  <2>2. job' = [op |-> job.op, confs |-> Tail(job.confs), match |-> job.match, ask |-> job.ask, hit |-> job.hit,
                kept |-> job.kept, back |-> job.back, due |-> job.due]
    BY <1>2, <2>1
  <2>3. /\ job' = [op |-> job'.op, confs |-> job'.confs, match |-> job'.match, ask |-> job'.ask, hit |-> job'.hit,
                   kept |-> job'.kept, back |-> job'.back, due |-> job'.due]
        /\ job'.confs = Tail(job.confs) /\ job'.match = job.match /\ job'.kept = job.kept /\ job'.back = job.back /\ job'.due = job.due
    BY <2>2, FieldsOf
  <2>4. ASSUME NEW t \in job.due, t.num \in files[t.conf], t.num \in read'[t.conf] PROVE t.num \in read[t.conf]
    <3>1. t.conf \in Confs
      BY <1>2 DEF Texts
    <3> QED BY <2>1, <2>4, <3>1, FoundMarks
  <2> QED BY <1>1, <1>2, <1>c, <2>3, <2>4 DEF Owed
<1>4. CASE n # 0
  <2> DEFINE e == Text(c, n)
             kept == IF keeps THEN Append(job.kept, e) ELSE job.kept
  <2>1. /\ read' = Mark(Found(c), c, {n})
        /\ \E hit : job' = [op |-> job.op, confs |-> job.confs, match |-> job.match, ask |-> job.ask, hit |-> hit,
                            kept |-> kept, back |-> job.back, due |-> job.due]
    <3>1. /\ read' = Mark(Found(c), c, {n})
          /\ \E hit : job' = [job EXCEPT !.hit = hit, !.kept = kept]
      BY <1>4 DEF SweepStep, c, n
    <3>2. PICK hit : job' = [job EXCEPT !.hit = hit, !.kept = kept]
      BY <3>1
    <3> HIDE DEF kept
    <3>3. job' = [op |-> job.op, confs |-> job.confs, match |-> job.match, ask |-> job.ask, hit |-> hit,
                  kept |-> kept, back |-> job.back, due |-> job.due]
      BY <1>2, <3>2
    <3> QED BY <3>1, <3>3
  <2>2. /\ job' = [op |-> job'.op, confs |-> job'.confs, match |-> job'.match, ask |-> job'.ask, hit |-> job'.hit,
                   kept |-> job'.kept, back |-> job'.back, due |-> job'.due]
        /\ job'.confs = job.confs /\ job'.match = job.match /\ job'.kept = kept /\ job'.back = job.back /\ job'.due = job.due
    <3> HIDE DEF kept
    <3> QED BY <2>1, FieldsOf
  <2>3. e \in Texts
    BY <1>c, <1>n DEF Text, Texts
  <2>4. /\ kept \in Seq(Texts)
        /\ \A i \in DOMAIN job.kept : i \in DOMAIN kept /\ kept[i] = job.kept[i]
        /\ keeps => \E i \in DOMAIN kept : i \in Nat \ {0} /\ kept[i] = e
    <3> HIDE DEF keeps, e
    <3>1. CASE keeps
      BY <1>2, <2>3, <3>1, Pushed
    <3>2. CASE ~keeps
      BY <1>2, <3>2
    <3> QED BY <3>1, <3>2
  <2> HIDE DEF kept
  <2>5. ASSUME NEW t \in job.due, t.num \in files[t.conf], t.num \in read'[t.conf]
        PROVE  \E i \in DOMAIN kept : job.back <= i /\ kept[i] = t
    <3>1. t \in Texts /\ t.conf \in Confs /\ t \notin job.match
      BY <1>2 DEF Texts
    <3>2. CASE t.num \in read[t.conf]
      BY <1>2, <2>4, <2>5, <3>2
    <3>3. CASE t.num \notin read[t.conf]
      <4>1. t.num \notin Found(c)[t.conf]
        BY <2>5, <3>1, <3>3, FoundMarks
      <4>2. t.conf = c /\ t.num = n
        <5>1. Mapped(Found(c))
          BY MappedFound DEF Typed
        <5>2. read' = Mark(Found(c), c, {n})
          BY <2>1
        <5> QED BY <2>5, <3>1, <4>1, <5>1, <5>2 DEF Mark, Mapped
      <4>3. t = e
        BY <3>1, <4>2 DEF Texts, Text
      <4>4. keeps
        BY <2>5, <3>1, <4>2, <4>3
      <4>5. PICK i \in DOMAIN kept : i \in Nat \ {0} /\ kept[i] = e
        BY <2>4, <4>4
      <4>6. job.back <= i
        BY <1>2, <4>5
      <4> QED BY <4>3, <4>5, <4>6
    <3> QED BY <3>2, <3>3
  <2> QED BY <1>1, <1>2, <2>2, <2>4, <2>5 DEF Owed
<1> QED BY <1>3, <1>4

LEMMA RestoreStepOwes ==
  ASSUME Typed, Owed, RestoreStep
  PROVE  Owed'
<1> DEFINE b == job.back
<1>1. /\ pc = "sweep" /\ job.confs = << >> /\ UNCHANGED << parent, files, subs >>
      /\ read' = Unmark(read, job.kept[b].conf, {job.kept[b].num})
      /\ job' = [job EXCEPT !.back = @ + 1]
  BY DEF RestoreStep, Swept, board
<1>2. /\ job = [op |-> job.op, confs |-> job.confs, match |-> job.match, ask |-> job.ask, hit |-> job.hit,
                kept |-> job.kept, back |-> job.back, due |-> job.due]
      /\ job.confs \in Seq(Confs) /\ job.kept \in Seq(Texts) /\ b \in Nat \ {0}
      /\ \A t \in job.due :
           /\ t \in Texts /\ t.conf \in subs /\ t.num \in DOMAIN parent[t.conf] /\ t \notin job.match
           /\ t.num \in files[t.conf] /\ t.num \in read[t.conf]
                => \E i \in DOMAIN job.kept : b <= i /\ job.kept[i] = t
  BY <1>1 DEF Owed
<1>3. job' = [op |-> job.op, confs |-> job.confs, match |-> job.match, ask |-> job.ask, hit |-> job.hit,
              kept |-> job.kept, back |-> b + 1, due |-> job.due]
  BY <1>1, <1>2
<1>4. /\ job' = [op |-> job'.op, confs |-> job'.confs, match |-> job'.match, ask |-> job'.ask, hit |-> job'.hit,
                 kept |-> job'.kept, back |-> job'.back, due |-> job'.due]
      /\ job'.confs = job.confs /\ job'.match = job.match /\ job'.kept = job.kept
      /\ job'.back = b + 1 /\ job'.due = job.due
  BY <1>3, FieldsOf
<1> HIDE DEF b
<1>5. ASSUME NEW t \in job.due, t.num \in files[t.conf], t.num \in read'[t.conf]
      PROVE  \E i \in DOMAIN job.kept : b + 1 <= i /\ job.kept[i] = t
  <2>1. t \in Texts /\ t.conf \in Confs /\ t.conf \in subs /\ Mapped(read)
    BY <1>2 DEF Texts, Typed
  <2>2. t.num \in read[t.conf]
    BY <1>1, <1>5, <2>1 DEF Unmark, Mapped
  <2>3. PICK i \in DOMAIN job.kept : b <= i /\ job.kept[i] = t
    BY <1>2, <1>5, <2>2
  <2>4. i # b
    BY <1>1, <1>5, <2>1, <2>3 DEF Unmark, Mapped
  <2>5. i \in Nat
    BY <1>2, TextsIn
  <2>6. b + 1 <= i
    BY <1>2, <2>3, <2>4, <2>5
  <2> QED BY <2>3, <2>6
<1>6. b + 1 \in Nat \ {0}
  BY <1>2
<1>7. \A t \in job.due : t \in Texts /\ t.conf \in subs /\ t.num \in DOMAIN parent[t.conf] /\ t \notin job.match
  BY <1>2
<1>8. \A t \in job'.due :
        /\ t \in Texts /\ t.conf \in subs' /\ t.num \in DOMAIN parent'[t.conf] /\ t \notin job'.match
        /\ t.num \in files'[t.conf] /\ t.num \in read'[t.conf]
             => \E i \in DOMAIN job'.kept : job'.back <= i /\ job'.kept[i] = t
  <2> SUFFICES ASSUME NEW t \in job.due
               PROVE  /\ t \in Texts /\ t.conf \in subs /\ t.num \in DOMAIN parent[t.conf] /\ t \notin job.match
                      /\ t.num \in files[t.conf] /\ t.num \in read'[t.conf]
                           => \E i \in DOMAIN job.kept : b + 1 <= i /\ job.kept[i] = t
    BY <1>1, <1>4
  <2> QED BY <1>5, <1>7
<1>9. job'.confs \in Seq(Confs) /\ job'.kept \in Seq(Texts) /\ job'.back \in Nat \ {0} /\ job'.confs = << >>
  BY <1>1, <1>2, <1>4, <1>6
<1> QED BY <1>4, <1>8, <1>9 DEF Owed

(* The others.                                                             *)
LEMMA OthersOwe ==
  ASSUME Typed, Owed, Next, ~cmd_jumpsub, ~cmd_sendbatch, ~SweepStep, ~RestoreStep
  PROVE  Owed'
<1>1. ASSUME pc' # "sweep" PROVE Owed'
  BY <1>1 DEF Owed
<1>2. CASE Read
  <2>1. pc' # "sweep"
    BY <1>2 DEF Read, cmd_next_text, cmd_next_comment, AllStep, BeginAll, cmd_read_text, cmd_comment,
                cmd_next_conf, cmd_change_conf, cmd_unsubscribe, Command, control
  <2> QED BY <1>1, <2>1
<1>3. CASE Trees
  <2>1. pc' # "sweep"
    BY <1>3 DEF Trees, cmd_jump_over, cmd_jump_tree, cmd_goto_text, cmd_unread_tree, BeginWalk, WalkStep,
                Command, control
  <2> QED BY <1>1, <2>1
<1>4. CASE Sweeps
  <2>1. pc' # "sweep"
    BY <1>4 DEF Sweeps, SweepEnd, cmd_unreadsub, cmd_only, Command, control
  <2> QED BY <1>1, <2>1
<1>5. CASE Back
  <2>1. pc' # "sweep"
    BY <1>5 DEF Back, cmd_back_text, cmd_unread_text, cmd_reclaim_unread, exec_logout, BeginTake,
           PopUnread, MarkHeld, PutBack, ReclaimEnd, LogoutEnd, Command, control
  <2> QED BY <1>1, <2>1
<1>6. ASSUME NEW c \in Confs, NEW n, Delete(c, n) PROVE Owed'
  <2>1. /\ UNCHANGED << parent, read, subs, pc, job >>
        /\ files' = [files EXCEPT ![c] = @ \ {n}]
    BY <1>6 DEF Delete, control
  <2>2. ASSUME NEW t \in job.due, pc = "sweep", t.num \in files'[t.conf] PROVE t.num \in files[t.conf]
    <3>1. t.conf \in Confs
      BY <2>2 DEF Owed, Texts
    <3> QED BY <2>1, <2>2, <3>1 DEF Typed, Boarded, Mapped
  <2> QED BY <2>1, <2>2 DEF Owed
<1>7. ASSUME NEW c \in Confs, NEW p \in Texts, Post(c, p) PROVE Owed'
  <2>1. /\ UNCHANGED << read, subs, pc, job >>
        /\ parent' = [parent EXCEPT ![c] = Append(@, p)]
        /\ files' = [files EXCEPT ![c] = @ \cup {LastOf(c) + 1}]
    BY <1>7 DEF Post, Posted, control
  <2>2. ASSUME NEW t \in job.due, pc = "sweep"
        PROVE  /\ t.num \in DOMAIN parent'[t.conf]
               /\ t.num \in files'[t.conf] => t.num \in files[t.conf]
    <3>1. t.conf \in Confs /\ t.num \in DOMAIN parent[t.conf]
      BY <2>2 DEF Owed, Texts
    <3>2. CASE t.conf # c
      BY <2>1, <3>1, <3>2 DEF Typed, Boarded, Mapped
    <3>3. CASE t.conf = c
      <4>1. parent[c] \in Seq(Texts) /\ DOMAIN parent[c] = 1 .. LastOf(c) /\ LastOf(c) \in Nat
        BY BoardedIs DEF Typed
      <4>2. parent'[c] = Append(parent[c], p) /\ files'[c] = files[c] \cup {LastOf(c) + 1}
        BY <2>1 DEF Typed, Boarded, Mapped
      <4>3. DOMAIN parent[c] \subseteq DOMAIN parent'[c]
        BY <4>1, <4>2, Pushed
      <4> QED BY <3>1, <3>3, <4>1, <4>2, <4>3
    <3> QED BY <3>2, <3>3
  <2> QED BY <2>1, <2>2 DEF Owed
<1>8. CASE Elsewhere
  <2>1. ASSUME NEW c \in ToSet(Order), NEW p \in {0} \cup files[c],
               Post(c, IF p = 0 THEN Nothing ELSE Text(c, p))
        PROVE  Owed'
    <3>1. c \in Confs /\ Mailbox \in Confs /\ files[c] \subseteq Nat
      BY BoardedIs DEF Typed, Confs
    <3>2. (IF p = 0 THEN Nothing ELSE Text(c, p)) \in Texts
      BY <3>1 DEF Nothing, Text, Texts
    <3> QED BY <1>7, <2>1, <3>1, <3>2
  <2> QED BY <1>6, <1>8, <2>1 DEF Elsewhere
<1> QED BY <1>2, <1>3, <1>4, <1>5, <1>8 DEF Next

LEMMA SweepOwes == Init => Owed
BY DEF Init, Owed

LEMMA NextOwes == Typed /\ Owed /\ [Next]_vars => Owed'
<1> SUFFICES ASSUME Typed, Owed, [Next]_vars PROVE Owed'
  OBVIOUS
<1>1. CASE UNCHANGED vars
  BY <1>1 DEF vars, board, control, Owed
<1>2. CASE Next
  <2>1. CASE cmd_jumpsub
    <3>1. << Current_conf >> \in Seq(Confs)
      BY DEF Typed
    <3> QED BY <2>1, <3>1, BeginSweepOwes DEF cmd_jumpsub
  <2>2. CASE cmd_sendbatch
    <3> DEFINE confs == << Mailbox >> \o Kept(Order, subs)
    <3>1. << Mailbox >> \in Seq(Confs) /\ Kept(Order, subs) \in Seq(Confs)
      BY OrderIs, KeptIs DEF Confs
    <3>2. confs \in Seq(Confs)
      BY <3>1, ConcatProperties
    <3>3. BeginSweep(confs, {}, TRUE)
      BY <2>2 DEF cmd_sendbatch
    <3> HIDE DEF confs
    <3> QED BY <3>2, <3>3, BeginSweepOwes
  <2> QED BY <1>2, <2>1, <2>2, SweepStepOwes, RestoreStepOwes, OthersOwe
<1> QED BY <1>1, <1>2

(* A sweep marks as unread again what it did not mean.                     *)
THEOREM SweepsKeepTheirWord == Spec => SweepKeeps
<1>1. Typed /\ Owed =>
        [\A mark \in BOOLEAN : SweepEnd(mark) /\ ~mark =>
           \A t \in job.due : t.num \in files[t.conf] => t.num \notin read'[t.conf]]_vars
  <2> SUFFICES ASSUME Typed, Owed, SweepEnd(FALSE), NEW t \in job.due, t.num \in files[t.conf],
                      t.num \in read'[t.conf]
               PROVE  FALSE
    OBVIOUS
  <2>1. pc = "sweep" /\ job.back > Len(job.kept) /\ read' = read
    BY DEF SweepEnd, Swept, Restored
  <2>2. PICK i \in DOMAIN job.kept : job.back <= i
    BY <2>1 DEF Owed
  <2>3. job.kept \in Seq(Texts) /\ job.back \in Nat
    BY <2>1 DEF Owed
  <2> QED BY <2>1, <2>2, <2>3, TextsIn
<1> QED BY <1>1, SweepOwes, NextOwes, AlwaysTyped, PTL DEF Spec, SweepKeeps

-----------------------------------------------------------------------------
(* Trees.  F are the texts of a conference that are there.                 *)
TreeOf(p, F, c, n) ==
  LET below[m \in 0 .. MaxText] ==
        m \in F /\ (m = n \/ (c # Mailbox /\ p[m].conf = c
                               /\ p[m].num \in 1 .. m - 1 /\ below[p[m].num]))
  IN {m \in n .. Len(p) : below[m]}

Linked(p, c, m) == c # Mailbox /\ p[m].conf = c /\ p[m].num \in 1 .. m - 1

(* T is the tree of n, which these facts leave no choice about.            *)
IsTree(T, p, F, c, n) ==
  /\ T \subseteq F /\ \A m \in T : n <= m
  /\ \A m \in F : m \in T <=> m = n \/ (Linked(p, c, m) /\ p[m].num \in T)

LEMMA TreeIsTreeOf == ASSUME NEW c, NEW n PROVE Tree(c, n) = TreeOf(parent[c], files[c], c, n)
BY DEF Tree, TreeOf, LastOf

(* There is such a function: the least set that a text is in when it is n  *)
(* or comments one that is.                                                *)
LEMMA TreeFunction ==
  ASSUME NEW p, NEW F, F \subseteq 1 .. MaxText, MaxText \in Nat, NEW c, NEW n
  PROVE  \E f : /\ TreeOf(p, F, c, n) = {m \in n .. Len(p) : f[m]}
                /\ \A m \in 0 .. MaxText : f[m] <=> m \in F /\ (m = n \/ (Linked(p, c, m) /\ f[p[m].num]))
<1> DEFINE Round(g, m) == m \in F /\ (m = n \/ (c # Mailbox /\ p[m].conf = c
                                        /\ p[m].num \in 1 .. m - 1 /\ g[p[m].num]))
           Rounds(g) == g = [m \in 0 .. MaxText |-> Round(g, m)]
           f == CHOOSE g : Rounds(g)
           In(S, m) == m \in F /\ (m = n \/ (Linked(p, c, m) /\ p[m].num \in S))
           Shut(S) == \A m \in 0 .. MaxText : In(S, m) => m \in S
           W == {m \in 0 .. MaxText : \A S \in SUBSET (0 .. MaxText) : Shut(S) => m \in S}
           w == [m \in 0 .. MaxText |-> m \in W]
           V == {m \in 0 .. MaxText : In(W, m)}
<1>0. \A S, m : In(S, m) <=> m \in F /\ (m = n \/ (Linked(p, c, m) /\ p[m].num \in S))
  OBVIOUS
<1>1. ASSUME NEW S \in SUBSET (0 .. MaxText), Shut(S) PROVE V \subseteq S
  <2>1. W \subseteq S
    BY <1>1
  <2>2. \A m : In(W, m) => In(S, m)
    <3> HIDE DEF W, Shut
    <3> QED BY <2>1
  <2> HIDE DEF W, In
  <2> QED BY <1>1, <2>2
<1>2. V \subseteq W
  <2>1. W = {m \in 0 .. MaxText : \A S \in SUBSET (0 .. MaxText) : Shut(S) => m \in S}
    OBVIOUS
  <2>2. V \subseteq 0 .. MaxText
    OBVIOUS
  <2> HIDE DEF V, W, Shut, In
  <2> QED BY <1>1, <2>1, <2>2
<1>3. Shut(V)
  <2> SUFFICES ASSUME NEW m \in 0 .. MaxText, In(V, m) PROVE m \in V
    OBVIOUS
  <2>1. In(W, m)
    <3> HIDE DEF V, W, Shut
    <3> QED BY <1>2
  <2> QED BY <2>1
<1>4. W \subseteq V
  <2>1. V \in SUBSET (0 .. MaxText)
    OBVIOUS
  <2>2. W = {m \in 0 .. MaxText : \A S \in SUBSET (0 .. MaxText) : Shut(S) => m \in S}
    OBVIOUS
  <2> HIDE DEF V, W, Shut, In
  <2> QED BY <1>3, <2>1, <2>2
<1>5. \A m \in 0 .. MaxText : m \in W <=> In(W, m)
  <2>1. W = V
    BY <1>2, <1>4
  <2>2. \A m \in 0 .. MaxText : m \in V <=> In(W, m)
    OBVIOUS
  <2> HIDE DEF V, W, In
  <2> QED BY <2>1, <2>2
<1>6. \A m \in 0 .. MaxText : w[m] <=> m \in W
  <2> HIDE DEF W
  <2> QED OBVIOUS
<1>7. ASSUME NEW m \in 0 .. MaxText PROVE (m \in W) = Round(w, m)
  <2>1. Linked(p, c, m) => p[m].num \in 0 .. MaxText
    BY DEF Linked
  <2>2. Linked(p, c, m) <=> c # Mailbox /\ p[m].conf = c /\ p[m].num \in 1 .. m - 1
    BY DEF Linked
  <2>3. In(W, m) <=> Round(w, m)
    <3>1. Linked(p, c, m) => (w[p[m].num] <=> p[m].num \in W)
      BY <1>6, <2>1
    <3> HIDE DEF W, w
    <3> QED BY <2>2, <3>1
  <2>4. Round(w, m) \in BOOLEAN /\ (m \in W) \in BOOLEAN
    OBVIOUS
  <2> HIDE DEF W, w, In, Round
  <2> QED BY <1>5, <2>3, <2>4
<1>8. Rounds(w)
  <2>1. w = [m \in 0 .. MaxText |-> m \in W]
    OBVIOUS
  <2> HIDE DEF w, W, Round
  <2> QED BY <1>7, <2>1
<1>9. Rounds(f)
  <2> HIDE DEF w, Rounds
  <2> QED BY <1>8
<1>10. TreeOf(p, F, c, n) = {m \in n .. Len(p) : f[m]}
  BY DEF TreeOf
<1> HIDE DEF f
<1>11. ASSUME NEW m \in 0 .. MaxText PROVE f[m] <=> m \in F /\ (m = n \/ (Linked(p, c, m) /\ f[p[m].num]))
  <2>1. f = [k \in 0 .. MaxText |-> Round(f, k)]
    BY <1>9
  <2> HIDE DEF Round
  <2>2. f[m] = Round(f, m)
    BY <2>1, Zenon
  <2> USE DEF Round
  <2> QED BY <2>2 DEF Linked
<1> QED BY <1>10, <1>11

LEMMA TreeIs ==
  ASSUME NEW p, Len(p) \in Nat, Len(p) <= MaxText, MaxText \in Nat, NEW F, F \subseteq 1 .. Len(p),
         NEW c, NEW n \in Nat
  PROVE  IsTree(TreeOf(p, F, c, n), p, F, c, n)
<1> DEFINE T == TreeOf(p, F, c, n)
<1>0. F \subseteq 1 .. MaxText
  OBVIOUS
<1>1. PICK f :
      /\ T = {m \in n .. Len(p) : f[m]}
      /\ \A m \in 0 .. MaxText : f[m] <=> m \in F /\ (m = n \/ (Linked(p, c, m) /\ f[p[m].num]))
  BY <1>0, TreeFunction
<1> HIDE DEF T
<1>2. \A m \in 0 .. MaxText : f[m] => n <= m
  <2> DEFINE U == {m \in 0 .. MaxText : f[m] /\ ~(n <= m)}
  <2> SUFFICES ASSUME U # {} PROVE FALSE
    OBVIOUS
  <2>1. U \subseteq Nat
    OBVIOUS
  <2>2. PICK m \in U : \A k \in U : m <= k
    <3> HIDE DEF U
    <3> QED BY <2>1, LeastOf
  <2>3. m # n /\ Linked(p, c, m) /\ f[p[m].num]
    BY <1>1, <2>2
  <2>4. p[m].num \in 1 .. m - 1
    BY <2>3 DEF Linked
  <2>5. p[m].num \in U /\ ~(m <= p[m].num)
    BY <2>2, <2>3, <2>4
  <2> HIDE DEF U
  <2> QED BY <2>2, <2>5
<1>3. \A m \in F : m \in 1 .. Len(p) /\ m \in 0 .. MaxText
  OBVIOUS
<1>4. \A m : m \in T <=> m \in F /\ f[m]
  <2>1. ASSUME NEW m \in T PROVE m \in F /\ f[m]
    <3>1. m \in n .. Len(p) /\ f[m]
      BY <1>1
    <3>2. m \in 0 .. MaxText
      BY <3>1
    <3> QED BY <1>1, <3>1, <3>2
  <2>2. ASSUME NEW m \in F, f[m] PROVE m \in T
    <3>1. m \in n .. Len(p)
      BY <1>2, <1>3, <2>2
    <3> QED BY <1>1, <2>2, <3>1
  <2> QED BY <2>1, <2>2
<1>5. ASSUME NEW m \in F PROVE m \in T <=> m = n \/ (Linked(p, c, m) /\ p[m].num \in T)
  <2>1. Linked(p, c, m) => p[m].num \in 0 .. MaxText
    BY <1>3 DEF Linked
  <2>2. Linked(p, c, m) => (f[p[m].num] <=> p[m].num \in T)
    BY <1>1, <1>4, <2>1
  <2> QED BY <1>1, <1>3, <1>4, <2>2
<1>6. IsTree(T, p, F, c, n)
  BY <1>2, <1>3, <1>4, <1>5 DEF IsTree
<1> QED BY <1>6 DEF T

(* Below a text is only what is below one of its comments.                 *)
LEMMA BelowAComment ==
  ASSUME NEW p, NEW F, F \subseteq Nat, NEW c, NEW n, NEW T, IsTree(T, p, F, c, n), NEW t \in T, t # n
  PROVE  \E m \in F : Linked(p, c, m) /\ p[m].num = n /\ \A V : IsTree(V, p, F, c, m) => t \in V
<1> DEFINE Good(k) == \E m \in F : Linked(p, c, m) /\ p[m].num = n /\ \A V : IsTree(V, p, F, c, m) => k \in V
           U == {k \in T : k # n /\ ~Good(k)}
<1> SUFFICES ASSUME U # {} PROVE FALSE
  OBVIOUS
<1>1. T \subseteq F /\ \A m \in F : m \in T <=> m = n \/ (Linked(p, c, m) /\ p[m].num \in T)
  BY DEF IsTree
<1>2. PICK k \in U : \A l \in U : k <= l
  <2>1. U \subseteq Nat
    BY <1>1
  <2> HIDE DEF U
  <2> QED BY <2>1, LeastOf
<1>3. k \in F /\ k \in Nat /\ k # n /\ ~Good(k) /\ Linked(p, c, k) /\ p[k].num \in T
  BY <1>1, <1>2
<1>4. \A V : IsTree(V, p, F, c, k) => k \in V
  BY <1>3 DEF IsTree
<1>5. p[k].num # n
  BY <1>3, <1>4
<1>6. ~(k <= p[k].num)
  BY <1>3 DEF Linked
<1>7. Good(p[k].num)
  BY <1>2, <1>3, <1>5, <1>6
<1>8. PICK m \in F : Linked(p, c, m) /\ p[m].num = n /\ \A V : IsTree(V, p, F, c, m) => p[k].num \in V
  BY <1>7
<1>9. \A V : IsTree(V, p, F, c, m) => k \in V
  BY <1>3, <1>8 DEF IsTree
<1> QED BY <1>3, <1>8, <1>9

(* What is posted is below nothing that was there, and above nothing: up   *)
(* to a number the trees are the same when the texts are.                  *)
Alike(p, F, q, G, k) ==
  /\ F \subseteq Nat /\ G \subseteq Nat /\ 0 \notin F
  /\ \A m \in 1 .. k : p[m] = q[m]
  /\ \A m \in 0 .. k : m \in F <=> m \in G

LEMMA SameUpTo ==
  ASSUME NEW p, NEW q, NEW F, NEW G, NEW c, NEW n, NEW k \in Nat, Alike(p, F, q, G, k),
         NEW T, NEW V, IsTree(T, p, F, c, n), IsTree(V, q, G, c, n)
  PROVE  T \cap 0 .. k = V \cap 0 .. k
<1> DEFINE U == {m \in 0 .. k : ~(m \in T <=> m \in V)}
<1> SUFFICES ASSUME U # {} PROVE FALSE
  OBVIOUS
<1>0. /\ F \subseteq Nat /\ G \subseteq Nat /\ 0 \notin F
      /\ \A m \in 1 .. k : p[m] = q[m]
      /\ \A m \in 0 .. k : m \in F <=> m \in G
  BY DEF Alike
<1>1. PICK m \in U : \A l \in U : m <= l
  <2>1. U \subseteq Nat
    OBVIOUS
  <2> HIDE DEF U
  <2> QED BY <2>1, LeastOf
<1>2. m \in 0 .. k /\ ~(m \in T <=> m \in V)
  BY <1>1
<1>3. m \in F /\ m \in G /\ m \in 1 .. k
  BY <1>0, <1>2 DEF IsTree
<1>4. p[m] = q[m] /\ (Linked(p, c, m) <=> Linked(q, c, m))
  BY <1>0, <1>3 DEF Linked
<1>5. ~(m = n \/ (Linked(p, c, m) /\ p[m].num \in T) <=> m = n \/ (Linked(p, c, m) /\ p[m].num \in V))
  BY <1>2, <1>3, <1>4 DEF IsTree
<1>6. Linked(p, c, m) /\ ~(p[m].num \in T <=> p[m].num \in V)
  BY <1>5
<1>7. p[m].num \in 1 .. m - 1
  BY <1>6 DEF Linked
<1>8. p[m].num \in 0 .. k /\ ~(m <= p[m].num)
  BY <1>3, <1>7
<1>9. p[m].num \in U
  BY <1>6, <1>8
<1> HIDE DEF U
<1> QED BY <1>1, <1>8, <1>9

(* When texts are deleted, a tree loses texts, and one that is still in    *)
(* the tree of r is still below all it was below, from r on.               *)
LEMMA FewerTexts ==
  ASSUME NEW p, NEW F, F \subseteq Nat, NEW G, G \subseteq F, NEW c, NEW r \in Nat, NEW s \in Nat, r <= s,
         NEW T, NEW V, NEW W, NEW X,
         IsTree(T, p, F, c, r), IsTree(V, p, F, c, s), IsTree(W, p, G, c, r), IsTree(X, p, G, c, s)
  PROVE  W \subseteq T /\ W \cap V \subseteq X
<1>1. W \subseteq T
  <2> DEFINE U == W \ T
  <2> SUFFICES ASSUME U # {} PROVE FALSE
    OBVIOUS
  <2>1. PICK m \in U : \A l \in U : m <= l
    <3>1. U \subseteq Nat
      BY DEF IsTree
    <3> HIDE DEF U
    <3> QED BY <3>1, LeastOf
  <2>2. m \in G /\ m \in F /\ m \in Nat /\ m \in W /\ m \notin T
    BY <2>1 DEF IsTree
  <2>3. Linked(p, c, m) /\ p[m].num \in W /\ p[m].num \notin T
    BY <2>2 DEF IsTree
  <2>4. p[m].num \in U /\ ~(m <= p[m].num)
    BY <2>2, <2>3 DEF Linked
  <2> HIDE DEF U
  <2> QED BY <2>1, <2>4
<1>2. W \cap V \subseteq X
  <2> DEFINE U == (W \cap V) \ X
  <2> SUFFICES ASSUME U # {} PROVE FALSE
    OBVIOUS
  <2>1. PICK m \in U : \A l \in U : m <= l
    <3>1. U \subseteq Nat
      BY DEF IsTree
    <3> HIDE DEF U
    <3> QED BY <3>1, LeastOf
  <2>2. m \in G /\ m \in F /\ m \in Nat /\ m \in W /\ m \in V /\ m \notin X
    BY <2>1 DEF IsTree
  <2>3. m # s
    BY <2>2 DEF IsTree
  <2>4. Linked(p, c, m) /\ p[m].num \in V /\ p[m].num \notin X
    BY <2>2, <2>3 DEF IsTree
  <2>5. s <= p[m].num /\ p[m].num \in 1 .. m - 1
    BY <2>4 DEF IsTree, Linked
  <2>6. m # r
    BY <2>2, <2>5
  <2>7. p[m].num \in W
    BY <2>2, <2>6 DEF IsTree
  <2>8. p[m].num \in U /\ ~(m <= p[m].num)
    BY <2>2, <2>4, <2>5, <2>7
  <2> HIDE DEF U
  <2> QED BY <2>1, <2>8
<1> QED BY <1>1, <1>2

(* tree_top answers the number of a text.                                  *)
LEMMA TopIsText ==
  ASSUME Boarded, NEW c \in Confs, c # Mailbox, LastOf(c) <= MaxText, NEW n \in 1 .. MaxText
  PROVE  TreeTop(c, n) \in 1 .. MaxText
<1> DEFINE p == parent[c]
           F == files[c]
           On(m) == m \in files[c] /\ parent[c][m].conf = c /\ parent[c][m].num \in files[c]
           Round(g, m) == IF m \in files[c] /\ parent[c][m].conf = c /\ parent[c][m].num \in files[c]
                          THEN g[parent[c][m].num] ELSE m
           Rounds(g) == g = [m \in 0 .. MaxText |-> Round(g, m)]
           f == CHOOSE g : Rounds(g)
           A(m) == {r \in files[c] : m \in TreeOf(parent[c], files[c], c, r)}
           low(m) == CHOOSE r \in A(m) : \A k \in A(m) : r <= k
           w == [m \in 0 .. MaxText |-> IF m \in files[c] THEN low(m) ELSE m]
<1>0. MaxText \in Nat
  BY BoundsAssumption
<1>1. /\ Grown(parent[c], c) /\ LastOf(c) \in Nat /\ DOMAIN parent[c] = 1 .. LastOf(c)
      /\ files[c] \subseteq 1 .. LastOf(c) /\ files[c] \subseteq Nat
  BY BoardedIs
<1>2. TreeTop(c, n) = f[n]
  BY DEF TreeTop
<1>3. \A m \in Nat : IsTree(TreeOf(parent[c], files[c], c, m), parent[c], files[c], c, m)
  BY <1>0, <1>1, TreeIs DEF LastOf
<1>4. ASSUME NEW m \in files[c] PROVE m \in A(m) /\ A(m) \subseteq files[c]
  BY <1>1, <1>3, <1>4 DEF IsTree
<1>5. ASSUME NEW m, On(m) PROVE /\ Linked(parent[c], c, m) /\ parent[c][m].num \in files[c]
                               /\ A(m) = A(parent[c][m].num) \cup {m}
                               /\ parent[c][m].num \in Nat /\ parent[c][m].num < m /\ m \in files[c]
  <2>1. m \in DOMAIN parent[c] /\ parent[c][m].num < m /\ parent[c][m].num \in 1 .. LastOf(c) /\ m \in Nat
    BY <1>1, <1>5 DEF Grown
  <2>2. Linked(parent[c], c, m)
    BY <1>5, <2>1 DEF Linked
  <2>3. \A r \in files[c] : m \in TreeOf(parent[c], files[c], c, r)
                              <=> m = r \/ parent[c][m].num \in TreeOf(parent[c], files[c], c, r)
    BY <1>1, <1>3, <1>5, <2>2 DEF IsTree
  <2> QED BY <1>5, <2>1, <2>2, <2>3
<1>6. ASSUME NEW m \in files[c], ~On(m) PROVE A(m) = {m}
  <2>1. ASSUME NEW r \in A(m) PROVE r = m
    <3>1. IsTree(TreeOf(parent[c], files[c], c, r), parent[c], files[c], c, r)
      BY <1>1, <1>3
    <3> QED BY <1>6, <2>1, <3>1 DEF IsTree, Linked
  <2> QED BY <1>4, <2>1
<1>7. ASSUME NEW m \in files[c] PROVE low(m) \in A(m) /\ \A k \in A(m) : low(m) <= k
  <2>1. A(m) \subseteq Nat /\ A(m) # {}
    BY <1>1, <1>4
  <2> HIDE DEF A
  <2>2. \E r \in A(m) : \A k \in A(m) : r <= k
    BY <2>1, LeastOf
  <2> QED BY <2>2
<1>8. ASSUME NEW m \in 0 .. MaxText PROVE w[m] = Round(w, m)
  <2> DEFINE q == parent[c][m].num
  <2>1. CASE On(m)
    <3>1. m \in files[c] /\ q \in files[c] /\ q \in 0 .. MaxText /\ q < m /\ q \in Nat /\ A(m) = A(q) \cup {m}
      <4>1. q \in files[c] /\ q \in Nat /\ q < m /\ m \in files[c] /\ A(m) = A(q) \cup {m}
        BY <1>5, <2>1
      <4>2. \A k \in files[c] : k \in 0 .. MaxText
        BY <1>0, <1>1
      <4> HIDE DEF A
      <4> QED BY <4>1, <4>2
    <3>2. w[m] = low(m) /\ w[q] = low(q) /\ Round(w, m) = w[q]
      BY <2>1, <3>1
    <3> HIDE DEF q, w
    <3>3. low(q) \in A(q) /\ (\A k \in A(q) : low(q) <= k) /\ low(m) \in A(m) /\ (\A k \in A(m) : low(m) <= k)
      BY <1>7, <3>1
    <3>4. q \in A(q) /\ A(q) \subseteq Nat /\ m \in Nat
      BY <1>1, <1>4, <3>1
    <3> HIDE DEF low, A
    <3>5. low(q) <= q /\ low(q) \in Nat /\ low(m) \in Nat
      BY <3>1, <3>3, <3>4
    <3>6. low(q) <= low(m)
      BY <3>1, <3>3, <3>4, <3>5
    <3>7. low(m) <= low(q)
      BY <3>1, <3>3
    <3> QED BY <3>2, <3>5, <3>6, <3>7
  <2>2. CASE ~On(m)
    <3>1. CASE m \in files[c]
      <4>1. w[m] = low(m)
        BY <3>1
      <4>2. low(m) = m
        <5>1. A(m) = {m} /\ low(m) \in A(m)
          BY <1>6, <1>7, <2>2, <3>1
        <5> HIDE DEF A, low
        <5> QED BY <5>1
      <4> QED BY <2>2, <4>1, <4>2
    <3>2. CASE m \notin files[c]
      BY <2>2, <3>2
    <3> QED BY <3>1, <3>2
  <2> QED BY <2>1, <2>2
<1>9. Rounds(w)
  <2>1. w = [m \in 0 .. MaxText |-> w[m]]
    OBVIOUS
  <2> HIDE DEF w, Round
  <2> QED BY <1>8, <2>1
<1>10. Rounds(f)
  <2> HIDE DEF w, Rounds
  <2> QED BY <1>9
<1> HIDE DEF f
<1>11. ASSUME NEW m \in 0 .. MaxText PROVE f[m] = Round(f, m)
  <2>1. f = [k \in 0 .. MaxText |-> Round(f, k)]
    BY <1>10
  <2> HIDE DEF Round
  <2> QED BY <2>1, Zenon
<1> DEFINE U == {m \in 1 .. MaxText : f[m] \notin 1 .. MaxText}
<1>12. U = {}
  <2> SUFFICES ASSUME U # {} PROVE FALSE
    OBVIOUS
  <2>1. PICK m \in U : \A l \in U : m <= l
    <3>1. U \subseteq Nat
      BY <1>0
    <3> HIDE DEF U
    <3> QED BY <3>1, LeastOf
  <2>2. m \in 0 .. MaxText /\ f[m] # m
    BY <1>0, <2>1
  <2>3. On(m) /\ f[m] = f[parent[c][m].num]
    BY <1>11, <2>2
  <2>4. parent[c][m].num \in 1 .. LastOf(c) /\ parent[c][m].num < m
    BY <1>1, <1>5, <2>3
  <2>5. parent[c][m].num \in U /\ ~(m <= parent[c][m].num)
    BY <1>0, <1>1, <2>1, <2>3, <2>4
  <2> HIDE DEF U
  <2> QED BY <2>1, <2>5
<1> QED BY <1>2, <1>12

-----------------------------------------------------------------------------
(* A walk begins at a text only because Last_text is the number of one.    *)
Placed ==
  /\ Last_conf \in Confs /\ Last_text \in 0 .. MaxText
  /\ \A c \in Confs : LastOf(c) <= MaxText

LEMMA FilesAreTexts ==
  ASSUME Typed, Placed, NEW c \in Confs
  PROVE  /\ files[c] \subseteq 1 .. MaxText /\ DOMAIN parent[c] \subseteq 1 .. MaxText
         /\ LastOf(c) \in 0 .. MaxText /\ NextOf(c) \in 0 .. MaxText /\ MaxText \in Nat
<1>0. MaxText \in Nat /\ LastOf(c) <= MaxText
  BY BoundsAssumption DEF Placed
<1>1. LastOf(c) \in Nat /\ DOMAIN parent[c] = 1 .. LastOf(c) /\ files[c] \subseteq 1 .. LastOf(c)
  BY BoardedIs DEF Typed
<1>2. There(c) \subseteq 1 .. LastOf(c)
  BY DEF There, Left
<1>3. There(c) # {} => \E n \in There(c) : \A m \in There(c) : n <= m
  <2>1. There(c) \subseteq Nat
    BY <1>2
  <2> QED BY <2>1, LeastOf
<1>4. NextOf(c) \in {0} \cup There(c)
  BY <1>3 DEF NextOf
<1> QED BY <1>0, <1>1, <1>2, <1>4

LEMMA ParsedConf ==
  ASSUME Typed, Placed, NEW a \in Numbers \cup Words
  PROVE  ParseText(a).conf \in Confs
<1>1. Mailbox \in Confs /\ Current_conf \in Confs /\ Last_conf \in Confs
  BY DEF Typed, Placed, Confs
<1>2. a.is \in {"number", "last", "followed"}
  BY DEF Numbers, Words
<1>3. CASE a.is \in {"number", "last"}
  BY <1>1, <1>3 DEF ParseText, Text
<1>4. CASE a.is = "followed"
  <2>1. ParseText(a) = IF Commented.num = 0 THEN Text(Last_conf, 0) ELSE Commented
    BY <1>4 DEF ParseText
  <2>2. CASE Commented.num = 0
    BY <1>1, <2>1, <2>2 DEF Text
  <2>3. CASE Commented.num # 0
    <3>1. Nothing.num = 0
      BY DEF Nothing, Text
    <3>2. Last_text \in files[Last_conf] /\ Commented = parent[Last_conf][Last_text]
      BY <2>3, <3>1 DEF Commented
    <3>3. parent[Last_conf] \in Seq(Texts) /\ Last_text \in DOMAIN parent[Last_conf]
      BY <1>1, <3>2, BoardedIs DEF Typed
    <3> QED BY <2>1, <2>3, <3>2, <3>3, TextsIn
  <2> QED BY <2>2, <2>3
<1> QED BY <1>2, <1>3, <1>4

LEMMA PlacedBy ==
  ASSUME Placed, UNCHANGED parent, Last_conf' \in Confs, Last_text' \in 0 .. MaxText
  PROVE  Placed'
BY DEF Placed, LastOf

(* The steps that read.                                                    *)
LEMMA ReadPlaces ==
  ASSUME Typed, Waiting, Placed, Typed',
         \/ cmd_next_text \/ cmd_next_comment \/ AllStep \/ \E all : BeginAll(all)
         \/ \E a \in Numbers \cup Words : cmd_read_text(a)
         \/ cmd_next_conf \/ \E c \in Confs : cmd_change_conf(c) \/ cmd_unsubscribe(c)
  PROVE  Placed'
<1>0. /\ Current_conf \in Confs /\ Current_conf' \in Confs /\ Last_conf \in Confs /\ Last_text \in 0 .. MaxText
      /\ NextOf(Current_conf) \in 0 .. MaxText
  BY FilesAreTexts DEF Typed, Placed
<1>t. cstack # << >> => Last(cstack).num \in 0 .. MaxText
  <2> SUFFICES ASSUME cstack # << >> PROVE Last(cstack).num \in 0 .. MaxText
    OBVIOUS
  <2>1. Last(cstack).num \in DOMAIN parent[Current_conf]
    BY TidyPopped DEF Typed, Waiting
  <2>2. DOMAIN parent[Current_conf] \subseteq 1 .. MaxText
    BY <1>0, FilesAreTexts
  <2> QED BY <2>1, <2>2
<1>r. \A t, r, u : ReadHere(t, r, u) => Last_text' = t
  BY DEF ReadHere
<1>1. CASE cmd_next_text
  <2>1. UNCHANGED parent /\ Last_conf' = Current_conf
    BY <1>1 DEF cmd_next_text, board
  <2>2. Last_text' = Last_text \/ Last_text' = NextOf(Current_conf)
    BY <1>1, <1>r DEF cmd_next_text
  <2> QED BY <1>0, <2>1, <2>2, PlacedBy
<1>2. CASE cmd_next_comment
  <2>1. UNCHANGED parent /\ Last_conf' = Current_conf
    BY <1>2 DEF cmd_next_comment, board
  <2>2. Last_text' = Last_text \/ (cstack # << >> /\ Last_text' = Last(cstack).num)
    BY <1>2, <1>r DEF cmd_next_comment
  <2> QED BY <1>0, <1>t, <2>1, <2>2, PlacedBy
<1>3. CASE AllStep
  <2>1. UNCHANGED parent
    BY <1>3 DEF AllStep, board
  <2>2. Last_conf' = Last_conf \/ Last_conf' = Current_conf'
    BY <1>3 DEF AllStep, SetConf, place
  <2>3. \/ Last_text' = Last_text \/ (cstack # << >> /\ Last_text' = Last(cstack).num)
        \/ Last_text' = NextOf(Current_conf)
    BY <1>3, <1>r DEF AllStep, place
  <2> QED BY <1>0, <1>t, <2>1, <2>2, <2>3, PlacedBy
<1>4. ASSUME NEW all, BeginAll(all) PROVE Placed'
  BY <1>0, <1>4, PlacedBy DEF BeginAll, board, place
<1>5. ASSUME NEW a \in Numbers \cup Words, cmd_read_text(a) PROVE Placed'
  <2> DEFINE t == ParseText(a)
  <2>1. t.conf \in Confs
    BY ParsedConf
  <2>2. UNCHANGED parent /\ Last_conf' = t.conf /\ (Last_text' = Last_text \/ (t.num \in files[t.conf] /\ Last_text' = t.num))
    BY <1>5 DEF cmd_read_text, board
  <2> HIDE DEF t
  <2>3. Last_text' \in 0 .. MaxText
    BY <1>0, <2>1, <2>2, FilesAreTexts
  <2> QED BY <2>1, <2>2, <2>3, PlacedBy
<1>e. ASSUME NEW c, Enter(c) PROVE Last_conf' = Current_conf' /\ Current_conf' = c /\ Last_text' = LastOf(c)
  BY <1>e DEF Enter, SetConf
<1>6. CASE cmd_next_conf
  <2>1. UNCHANGED parent
    BY <1>6 DEF cmd_next_conf, board
  <2>2. CASE MoreConf = NoConf
    BY <1>0, <1>6, <2>1, <2>2, PlacedBy DEF cmd_next_conf, place
  <2>3. CASE MoreConf # NoConf
    <3>1. Enter(MoreConf)
      BY <1>6, <2>3 DEF cmd_next_conf
    <3>2. Last_conf' = Current_conf' /\ Last_text' = LastOf(Current_conf')
      BY <1>e, <3>1
    <3> QED BY <1>0, <2>1, <3>2, FilesAreTexts, PlacedBy
  <2> QED BY <2>2, <2>3
<1>7. ASSUME NEW c \in Confs, cmd_change_conf(c) PROVE Placed'
  <2>1. UNCHANGED parent /\ Enter(c)
    BY <1>7 DEF cmd_change_conf, board
  <2>2. Last_conf' = c /\ Last_text' = LastOf(c)
    BY <1>e, <2>1
  <2> QED BY <2>1, <2>2, FilesAreTexts, PlacedBy
<1>8. ASSUME NEW c \in Confs, cmd_unsubscribe(c) PROVE Placed'
  <2>1. UNCHANGED << parent, Last_text >> /\ (Last_conf' = Last_conf \/ Last_conf' = Current_conf')
    BY <1>8 DEF cmd_unsubscribe, board, SetConf
  <2> QED BY <1>0, <2>1, PlacedBy
<1> QED BY <1>1, <1>2, <1>3, <1>4, <1>5, <1>6, <1>7, <1>8

(* A text more.                                                            *)
LEMMA PostedPlaces ==
  ASSUME Typed, Placed, NEW d \in Confs, NEW x, Posted(d, x), x \in Texts
  PROVE  LastOf(d) + 1 \in 1 .. MaxText /\ \A c \in Confs : (LastOf(c) <= MaxText)'
<1>1. /\ LastOf(d) < Limit[d] /\ parent' = [parent EXCEPT ![d] = Append(@, x)]
  BY DEF Posted
<1>2. MaxText \in Nat /\ Limit[d] \in 0 .. MaxText /\ LastOf(d) \in Nat /\ parent[d] \in Seq(Texts)
  BY BoundsAssumption, BoardedIs DEF Typed
<1>3. Len(Append(parent[d], x)) = LastOf(d) + 1
  BY <1>2, AppendProperties DEF LastOf
<1>4. \A c \in Confs : parent'[c] = IF c = d THEN Append(parent[d], x) ELSE parent[c]
  BY <1>1 DEF Typed, Boarded
<1>5. LastOf(d) + 1 \in 1 .. MaxText
  BY <1>1, <1>2
<1>6. ASSUME NEW c \in Confs PROVE Len(parent'[c]) <= MaxText
  <2>1. CASE c = d
    <3>1. parent'[c] = Append(parent[d], x)
      BY <1>4, <2>1
    <3>2. Len(parent'[c]) = LastOf(d) + 1
      BY <1>3, <3>1
    <3> QED BY <1>2, <1>5, <3>2
  <2>2. CASE c # d
    BY <1>4, <2>2 DEF Placed, LastOf
  <2> QED BY <2>1, <2>2
<1> QED BY <1>5, <1>6 DEF LastOf

LEMMA CommentPlaces ==
  ASSUME Typed, Placed, NEW a \in Words \cup {Default}, cmd_comment(a)
  PROVE  Placed'
<1> DEFINE t == IF a.is = "default" THEN Text(Current_conf, Last_text) ELSE ParseText(a)
           x == Text(Current_conf, t.num)
           n == LastOf(Current_conf) + 1
<1>1. /\ t.num \in files[Current_conf] /\ Posted(Current_conf, x) /\ Last_text' = n
      /\ Last_conf' = IF a.is = "default" THEN Last_conf ELSE t.conf
  BY DEF cmd_comment
<1>2. a.is # "default" => t.conf \in Confs
  <2> SUFFICES ASSUME a.is # "default" PROVE t.conf \in Confs
    OBVIOUS
  <2>1. a # Default
    BY DEF Default
  <2>2. ParseText(a).conf \in Confs
    BY <2>1, ParsedConf
  <2> QED BY <2>2
<1> HIDE DEF t
<1>3. Current_conf \in Confs /\ files[Current_conf] \subseteq Nat
  BY BoardedIs DEF Typed
<1>4. x \in Texts
  BY <1>1, <1>3 DEF Text, Texts
<1> HIDE DEF x
<1>5. n \in 1 .. MaxText /\ \A c \in Confs : (LastOf(c) <= MaxText)'
  BY <1>1, <1>3, <1>4, PostedPlaces
<1>6. Last_conf' \in Confs
  BY <1>1, <1>2 DEF Placed
<1> HIDE DEF n
<1>7. Last_text' \in 0 .. MaxText
  BY <1>1, <1>5
<1> QED BY <1>5, <1>6, <1>7 DEF Placed

LEMMA PostPlaces ==
  ASSUME Typed, Placed, NEW c \in Confs, NEW x \in Texts, Post(c, x)
  PROVE  Placed'
<1>1. Posted(c, x) /\ UNCHANGED << Last_conf, Last_text >>
  BY DEF Post, place
<1> QED BY <1>1, PostedPlaces DEF Placed

LEMMA InitPlaced == Init => Placed
<1> SUFFICES ASSUME Init PROVE Placed
  OBVIOUS
<1>1. Current_conf \in Confs
  BY InitTyped DEF Typed
<1>2. MaxText \in Nat /\ \A c \in Confs : LastOf(c) <= MaxText
  BY BoundsAssumption, BoardsAssumption DEF Init, LastOf
<1> QED BY <1>1, <1>2 DEF Init, Placed

LEMMA NextPlaced == Typed /\ Waiting /\ Handed /\ Placed /\ [Next]_vars => Placed'
<1> SUFFICES ASSUME Typed, Waiting, Handed, Placed, [Next]_vars PROVE Placed'
  OBVIOUS
<1>0. Typed' /\ Current_conf' \in Confs /\ Last_conf \in Confs /\ Last_text \in 0 .. MaxText
  BY NextTyped DEF Typed, Placed
<1>u. ASSUME UNCHANGED << parent, Last_conf, Last_text >> PROVE Placed'
  BY <1>0, <1>u, PlacedBy
<1>1. CASE Read
  BY <1>0, <1>1, ReadPlaces, CommentPlaces DEF Read
<1>2. CASE Trees
  <2>1. ASSUME NEW a \in Numbers \cup Words, cmd_goto_text(a) PROVE Placed'
    <3>1. Last_conf' = ParseText(a).conf /\ UNCHANGED Last_text
      BY <2>1 DEF cmd_goto_text
    <3>2. UNCHANGED parent
      BY <2>1 DEF cmd_goto_text, BeginWalk, board
    <3> QED BY <1>0, <3>1, <3>2, ParsedConf, PlacedBy
  <2>2. ASSUME cmd_jump_over \/ cmd_jump_tree \/ WalkStep \/ \E n \in 0 .. MaxText : cmd_unread_tree(n) PROVE Placed'
    <3>1. UNCHANGED << parent, Last_conf, Last_text >>
      BY <2>2 DEF cmd_jump_over, cmd_jump_tree, WalkStep, cmd_unread_tree, BeginWalk, board, place
    <3> QED BY <1>u, <3>1
  <2> QED BY <1>2, <2>1, <2>2 DEF Trees
<1>3. CASE Sweeps
  <2>1. UNCHANGED << parent, Last_conf, Last_text >>
    BY <1>3 DEF Sweeps, cmd_jumpsub, cmd_sendbatch, BeginSweep, SweepStep, RestoreStep, SweepEnd,
                cmd_unreadsub, cmd_only, board, place
  <2> QED BY <1>u, <2>1
<1>4. CASE Back
  <2>1. ASSUME NEW n, cmd_back_text(n) PROVE Placed'
    <3>1. Last_conf' = Current_conf' /\ UNCHANGED << parent, Last_text >>
      BY <2>1 DEF cmd_back_text, SetConf, board
    <3> QED BY <1>0, <3>1, PlacedBy
  <2>2. ASSUME NEW a \in Numbers \cup Words \cup {Default}, cmd_unread_text(a) PROVE Placed'
    <3> DEFINE t == IF a.is = "default" THEN Text(Last_conf, Last_text) ELSE ParseText(a)
    <3>1. Last_conf' = t.conf /\ UNCHANGED << parent, Last_text >>
      BY <2>2 DEF cmd_unread_text, board
    <3>2. t.conf \in Confs
      <4>1. CASE a.is = "default"
        BY <1>0, <4>1 DEF Text
      <4>2. CASE a.is # "default"
        <5>1. a # Default
          BY <4>2 DEF Default
        <5> QED BY <4>2, <5>1, ParsedConf
      <4> QED BY <4>1, <4>2
    <3> HIDE DEF t
    <3> QED BY <1>0, <3>1, <3>2, PlacedBy
  <2>3. CASE ReclaimEnd
    <3>1. UNCHANGED << parent, Last_text >> /\ (Last_conf' = Last_conf \/ Last_conf' = Current_conf')
      BY <2>3 DEF ReclaimEnd, SetConf, board
    <3> QED BY <1>0, <3>1, PlacedBy
  <2>4. ASSUME Takes, ~ReclaimEnd PROVE Placed'
    <3>1. UNCHANGED << parent, Last_conf, Last_text >>
      BY <2>4 DEF Takes, cmd_reclaim_unread, exec_logout, PopUnread, MarkHeld, PutBack, LogoutEnd, board, place
    <3> QED BY <1>u, <3>1
  <2> QED BY <1>4, <2>1, <2>2, <2>3, <2>4 DEF Back, Takes
<1>5. CASE Elsewhere
  <2>1. ASSUME NEW c \in ToSet(Order), NEW p \in {0} \cup files[c],
               Post(c, IF p = 0 THEN Nothing ELSE Text(c, p))
        PROVE  Placed'
    <3>1. c \in Confs /\ Mailbox \in Confs /\ files[c] \subseteq Nat
      BY BoardedIs DEF Typed, Confs
    <3>2. (IF p = 0 THEN Nothing ELSE Text(c, p)) \in Texts
      BY <3>1 DEF Nothing, Text, Texts
    <3> QED BY <2>1, <3>1, <3>2, PostPlaces
  <2>2. ASSUME NEW c, NEW n, Delete(c, n) PROVE Placed'
    <3>1. UNCHANGED << parent, Last_conf, Last_text >>
      BY <2>2 DEF Delete, place
    <3> QED BY <1>u, <3>1
  <2> QED BY <1>5, <2>1, <2>2 DEF Elsewhere
<1>6. CASE UNCHANGED vars
  BY <1>6, <1>u DEF vars, board, place
<1> QED BY <1>1, <1>2, <1>3, <1>4, <1>5, <1>6 DEF Next

-----------------------------------------------------------------------------
(* What a walk puts on the stack are the comments that are there.          *)
LEMMA ReverseHas ==
  ASSUME NEW k \in Seq(Nat)
  PROVE  /\ \A i \in DOMAIN k : \E j \in DOMAIN Reverse(k) : Reverse(k)[j] = k[i]
         /\ \A j \in DOMAIN Reverse(k) : \E i \in DOMAIN k : Reverse(k)[j] = k[i]
<1> DEFINE m == Len(k)
           r == Reverse(k)
<1>1. m \in Nat /\ DOMAIN k = 1 .. m
  BY LenProperties
<1>2. r = [i \in 1 .. m |-> k[m - i + 1]]
  BY DEF Reverse
<1> HIDE DEF m, r
<1>3. \A i \in 1 .. m : m - i + 1 \in 1 .. m /\ m - (m - i + 1) + 1 = i
  BY <1>1
<1>4. DOMAIN r = 1 .. m /\ \A i \in 1 .. m : r[i] = k[m - i + 1]
  BY <1>2
<1>5. ASSUME NEW i \in 1 .. m PROVE r[m - i + 1] = k[i]
  BY <1>3, <1>4
<1>6. \A i \in DOMAIN k : \E j \in DOMAIN r : r[j] = k[i]
  BY <1>1, <1>3, <1>4, <1>5
<1>7. \A j \in DOMAIN r : \E i \in DOMAIN k : r[j] = k[i]
  BY <1>1, <1>3, <1>4
<1> QED BY <1>6, <1>7 DEF r

LEMMA StackedAre ==
  ASSUME Boarded, NEW c \in Confs, NEW n
  PROVE  /\ \A m \in files[c] : c # Mailbox /\ n \in files[c] /\ parent[c][m] = Text(c, n)
              => \E i \in DOMAIN Stacked(c, n) : Stacked(c, n)[i] = m
         /\ \A i \in DOMAIN Stacked(c, n) :
              c # Mailbox /\ n \in files[c] /\ Stacked(c, n)[i] \in files[c]
                /\ parent[c][Stacked(c, n)[i]] = Text(c, n)
         /\ Gone(c, n) \subseteq (1 .. LastOf(c)) \ files[c]
<1> DEFINE l == LastOf(c)
           s == [i \in 1 .. l |-> i]
           S == {i \in 1 .. l : parent[c][i] = Text(c, n)}
           t == Comments(c, n)
           h == Kept(t, files[c])
<1>1. parent[c] \in Seq(Texts) /\ l \in Nat /\ DOMAIN parent[c] = 1 .. l /\ files[c] \subseteq 1 .. l
  BY BoardedIs
<1> HIDE DEF l
<1>2. s \in Seq(Nat) /\ Len(s) = l /\ \A i \in 1 .. l : s[i] = i
  BY <1>1
<1>3. t = Kept(s, S)
  BY DEF Comments, l
<1>4. t \in Seq(Nat) /\ KeptOf(s, S, l, t)
  <2> HIDE DEF s, S, t
  <2> QED BY <1>2, <1>3, KeptIs
<1>5. \A m \in 1 .. l : parent[c][m] = Text(c, n) => \E i \in DOMAIN t : t[i] = m
  <2> SUFFICES ASSUME NEW m \in 1 .. l, parent[c][m] = Text(c, n) PROVE \E i \in DOMAIN t : t[i] = m
    OBVIOUS
  <2>1. m \in S
    OBVIOUS
  <2> HIDE DEF s, S, t
  <2> QED BY <1>2, <1>4, <2>1 DEF KeptOf
<1>6. \A i \in DOMAIN t : t[i] \in 1 .. l /\ parent[c][t[i]] = Text(c, n)
  <2> SUFFICES ASSUME NEW i \in DOMAIN t PROVE t[i] \in S
    OBVIOUS
  <2> HIDE DEF s, S, t
  <2> QED BY <1>2, <1>4 DEF KeptOf
<1> HIDE DEF t
<1>7. h \in Seq(Nat) /\ KeptOf(t, files[c], Len(t), h) /\ DOMAIN t = 1 .. Len(t)
  BY <1>4, KeptIs, LenProperties
<1> HIDE DEF h
<1>8. /\ \A i \in DOMAIN h : h[i] \in files[c] /\ parent[c][h[i]] = Text(c, n)
      /\ \A m \in files[c] : parent[c][m] = Text(c, n) => \E i \in DOMAIN h : h[i] = m
  <2>1. ASSUME NEW i \in DOMAIN h PROVE h[i] \in files[c] /\ parent[c][h[i]] = Text(c, n)
    <3>1. PICK j \in 1 .. Len(t) : t[j] \in files[c] /\ h[i] = t[j]
      BY <1>7 DEF KeptOf
    <3> QED BY <1>6, <1>7, <3>1
  <2>2. ASSUME NEW m \in files[c], parent[c][m] = Text(c, n) PROVE \E i \in DOMAIN h : h[i] = m
    <3>1. PICK i \in DOMAIN t : t[i] = m
      BY <1>1, <1>5, <2>2
    <3> QED BY <1>7, <3>1 DEF KeptOf
  <2> QED BY <2>1, <2>2
<1>9. CASE c = Mailbox \/ n \notin files[c]
  <2>1. Stacked(c, n) = << >> /\ DOMAIN << >> = {} /\ Gone(c, n) = {}
    BY <1>9 DEF Stacked, Gone
  <2> QED BY <1>9, <2>1
<1>10. CASE ~(c = Mailbox \/ n \notin files[c])
  <2>1. Stacked(c, n) = Reverse(h)
    BY <1>10 DEF Stacked, h, t
  <2>2. /\ \A i \in DOMAIN h : \E j \in DOMAIN Stacked(c, n) : Stacked(c, n)[j] = h[i]
        /\ \A j \in DOMAIN Stacked(c, n) : \E i \in DOMAIN h : Stacked(c, n)[j] = h[i]
    BY <1>7, <2>1, ReverseHas
  <2>3. Gone(c, n) = ToSet(t) \ files[c]
    BY <1>10 DEF Gone, t
  <2>4. Gone(c, n) \subseteq (1 .. LastOf(c)) \ files[c]
    BY <1>6, <2>3 DEF ToSet, l
  <2> QED BY <1>8, <1>10, <2>2, <2>4
<1> QED BY <1>9, <1>10

(* The numbers on a stack.                                                 *)
Nums(s) == {s[i].num : i \in DOMAIN s}

LEMMA NumsOfPushed ==
  ASSUME NEW c \in Confs, NEW u \in Seq(Texts), NEW k \in Seq(Nat)
  PROVE  /\ u \o Entries(c, k) \in Seq(Texts)
         /\ Nums(u \o Entries(c, k)) = Nums(u) \cup {k[i] : i \in DOMAIN k}
<1> DEFINE e == Entries(c, k)
           s == u \o e
           m == Len(u)
           n == Len(k)
<1>1. /\ m \in Nat /\ DOMAIN u = 1 .. m /\ n \in Nat /\ DOMAIN k = 1 .. n /\ \A i \in 1 .. n : k[i] \in Nat
  BY LenProperties, ElementOfSeq
<1>2. e = [i \in 1 .. n |-> Text(c, k[i])] /\ \A i \in 1 .. n : Text(c, k[i]) \in Texts
  BY <1>1 DEF Entries, Text, Texts
<1> HIDE DEF m, n, e
<1>3. e \in Seq(Texts) /\ Len(e) = n /\ \A i \in 1 .. n : e[i] = Text(c, k[i])
  BY <1>1, <1>2
<1>4. /\ u \o e \in Seq(Texts) /\ Len(u \o e) = Len(u) + Len(e)
      /\ \A i \in 1 .. Len(u) + Len(e) : (u \o e)[i] = IF i <= Len(u) THEN u[i] ELSE e[i - Len(u)]
  <2>1. u \in Seq(Texts) /\ e \in Seq(Texts)
    BY <1>3
  <2> QED BY <2>1, ConcatProperties
<1>5. /\ s \in Seq(Texts) /\ Len(s) = m + n /\ \A i \in 1 .. m + n : s[i] = IF i <= m THEN u[i] ELSE e[i - m]
  BY <1>3, <1>4 DEF m
<1>6. DOMAIN s = 1 .. m + n
  BY <1>5, LenProperties
<1> HIDE DEF s
<1>7. ASSUME NEW i \in 1 .. m PROVE i \in DOMAIN s /\ s[i] = u[i]
  BY <1>1, <1>5, <1>6
<1>8. ASSUME NEW i \in 1 .. n PROVE m + i \in DOMAIN s /\ s[m + i].num = k[i]
  <2> DEFINE j == m + i
  <2>1. j \in 1 .. m + n /\ ~(j <= m) /\ j - m = i
    BY <1>1
  <2> HIDE DEF j
  <2>2. s[j] = e[i] /\ e[i] = Text(c, k[i])
    BY <1>3, <1>5, <2>1
  <2>3. j \in DOMAIN s /\ s[j].num = k[i]
    BY <1>6, <2>1, <2>2 DEF Text
  <2> QED BY <2>3 DEF j
<1>9. ASSUME NEW i \in DOMAIN s PROVE s[i].num \in Nums(u) \cup {k[j] : j \in DOMAIN k}
  <2>1. CASE i <= m
    <3>1. i \in 1 .. m
      BY <1>1, <1>6, <2>1
    <3> QED BY <1>1, <1>7, <3>1 DEF Nums
  <2>2. CASE ~(i <= m)
    <3>1. i - m \in 1 .. n /\ s[i] = e[i - m]
      BY <1>1, <1>5, <1>6, <2>2
    <3> QED BY <1>1, <1>3, <3>1 DEF Text
  <2> QED BY <2>1, <2>2
<1>10. Nums(s) = Nums(u) \cup {k[i] : i \in DOMAIN k}
  <2>1. Nums(u) \subseteq Nums(s)
    BY <1>1, <1>7 DEF Nums
  <2>2. {k[i] : i \in DOMAIN k} \subseteq Nums(s)
    BY <1>1, <1>8 DEF Nums
  <2>3. Nums(s) \subseteq Nums(u) \cup {k[i] : i \in DOMAIN k}
    BY <1>9 DEF Nums
  <2> QED BY <2>1, <2>2, <2>3
<1> QED BY <1>5, <1>10 DEF s, e

LEMMA NumsOfPopped ==
  ASSUME NEW s \in Seq(Texts), s # << >>
  PROVE  Nums(s) = {Last(s).num} \cup Nums(Front(s))
<1> DEFINE n == Len(s)
           f == Front(s)
<1>1. /\ n \in Nat \ {0} /\ DOMAIN s = 1 .. n /\ Last(s) = s[n]
      /\ DOMAIN f = 1 .. n - 1 /\ \A i \in 1 .. n - 1 : f[i] = s[i]
  BY FrontIs
<1> HIDE DEF n, f
<1>2. \A i : i \in 1 .. n <=> i = n \/ i \in 1 .. n - 1
  BY <1>1
<1> QED BY <1>1, <1>2 DEF Nums, f

-----------------------------------------------------------------------------
(* What a walk has to do yet, what it may mark, and what it has done.      *)
Ahead == {job.next} \cup Nums(cstack)
Meant == job.tree \cup {job.root} \cup job.last + 1 .. LastOf(Current_conf)
Lost  == (1 .. LastOf(Current_conf)) \ files[Current_conf]
Done(t) == IF job.mark = "read" THEN t \in read[Current_conf] ELSE t \notin read[Current_conf]

Trunk(n) == TreeOf(parent[Current_conf], files[Current_conf], Current_conf, n)

(* Nothing gets into the tree that the walk was meant for later, and every *)
(* text of it that is in the tree still is done or below one that is ahead.*)
Whole ==
  /\ job.root \in 1 .. MaxText /\ job.last \in Nat /\ job.last <= LastOf(Current_conf)
  /\ job.tree \subseteq 1 .. job.last
  /\ \A m \in files[Current_conf] :
       m <= job.last /\ (m = job.root \/ (/\ Linked(parent[Current_conf], Current_conf, m)
                                          /\ parent[Current_conf][m].num \in job.tree))
         => m \in job.tree
Within  == \A s \in Ahead : s \in Nat /\ job.root <= s /\ s \in Meant
Covered == \A t \in job.tree \cap Trunk(job.root) : Done(t) \/ \E s \in Ahead : t \in Trunk(s)
Bounded ==
  IF job.mark = "read"
  THEN job.before \subseteq read[Current_conf] /\ read[Current_conf] \ job.before \subseteq Meant \cup Lost
  ELSE job.before \ read[Current_conf] \subseteq Meant /\ read[Current_conf] \ job.before \subseteq Lost

Walked == pc = "walk" => Whole /\ Within /\ (Current_conf \in subs => Covered /\ Bounded)

LEMMA TrunkIs ==
  ASSUME Typed, Placed
  PROVE  /\ \A n \in Nat : IsTree(Trunk(n), parent[Current_conf], files[Current_conf], Current_conf, n)
         /\ \A n : Trunk(n) = Tree(Current_conf, n)
<1>1. /\ Current_conf \in Confs /\ LastOf(Current_conf) \in Nat /\ LastOf(Current_conf) <= MaxText
      /\ MaxText \in Nat /\ files[Current_conf] \subseteq 1 .. LastOf(Current_conf)
  BY BoardedIs, BoundsAssumption DEF Typed, Placed
<1>2. \A n \in Nat : IsTree(Trunk(n), parent[Current_conf], files[Current_conf], Current_conf, n)
  BY <1>1, TreeIs DEF Trunk, LastOf
<1>3. \A n : Trunk(n) = Tree(Current_conf, n)
  BY TreeIsTreeOf DEF Trunk
<1> QED BY <1>2, <1>3

(* A walk begins at the root.                                              *)
LEMMA WalkBegins ==
  ASSUME Typed, Placed, NEW mark, NEW root \in 1 .. MaxText, BeginWalk(mark, root),
         Current_conf' = Current_conf
  PROVE  Walked'
<1> DEFINE c == Current_conf
<1>1. /\ cstack' = << >> /\ UNCHANGED << parent, files, read, subs, Current_conf >>
      /\ job' = [op |-> "walk", mark |-> mark, root |-> root, next |-> root, tree |-> Tree(c, root),
                 last |-> LastOf(c), before |-> read[c]]
  BY DEF BeginWalk, board
<1>2. /\ job'.mark = mark /\ job'.root = root /\ job'.next = root /\ job'.tree = Trunk(root)
      /\ job'.last = LastOf(c) /\ job'.before = read[c]
  BY <1>1, TrunkIs
<1>3. /\ c \in Confs /\ LastOf(c) \in Nat /\ files[c] \subseteq 1 .. LastOf(c) /\ MaxText \in Nat /\ root \in Nat
      /\ IsTree(Trunk(root), parent[c], files[c], c, root)
  <2>1. c \in Confs /\ MaxText \in Nat /\ root \in Nat
    BY BoundsAssumption DEF Typed
  <2> QED BY <2>1, BoardedIs, TrunkIs DEF Typed
<1>4. DOMAIN cstack' = {} /\ Nums(cstack)' = {}
  BY <1>1, EmptyTidy DEF Nums
<1>5. Ahead' = {root}
  BY <1>2, <1>4 DEF Ahead
<1>6. Trunk(root)' = Trunk(root)
  BY <1>1 DEF Trunk
<1>7. Meant' = Trunk(root) \cup {root} \cup LastOf(c) + 1 .. LastOf(c)
  BY <1>1, <1>2 DEF Meant, LastOf
<1>8. Whole'
  <2>1. job'.last <= LastOf(c) /\ job'.tree \subseteq 1 .. LastOf(c)
    BY <1>2, <1>3 DEF IsTree
  <2>2. \A m \in files[c] : m = root \/ (Linked(parent[c], c, m) /\ parent[c][m].num \in Trunk(root)) => m \in Trunk(root)
    BY <1>3 DEF IsTree
  <2> HIDE DEF c
  <2> QED BY <1>1, <1>2, <1>3, <2>1, <2>2 DEF Whole, LastOf, c
<1>9. Within'
  BY <1>2, <1>3, <1>5, <1>7 DEF Within
<1>10. Covered'
  BY <1>1, <1>2, <1>5, <1>6 DEF Covered, Trunk
<1>11. Bounded'
  BY <1>1, <1>2 DEF Bounded
<1> QED BY <1>8, <1>9, <1>10, <1>11 DEF Walked

(* Texts are deleted or posted elsewhere during a walk.                    *)
LEMMA WalkGoesOn ==
  ASSUME Typed, Placed, Walked, pc = "walk",
         UNCHANGED << read, subs, Current_conf, cstack, pc, job >>,
         LastOf(Current_conf)' \in Nat, LastOf(Current_conf) <= LastOf(Current_conf)',
         \A m \in 1 .. LastOf(Current_conf) :
           /\ parent'[Current_conf][m] = parent[Current_conf][m]
           /\ m \in files'[Current_conf] => m \in files[Current_conf],
         \A t \in 1 .. LastOf(Current_conf) : t \in Trunk(job.root)' =>
           t \in Trunk(job.root) /\ \A s \in Nat : job.root <= s /\ t \in Trunk(s) => t \in Trunk(s)',
         files'[Current_conf] \subseteq Nat \ {0}
  PROVE  Walked'
<1> DEFINE c == Current_conf
           l == LastOf(Current_conf)
<1>1. Whole /\ Within /\ (c \in subs => Covered /\ Bounded) /\ c \in Confs /\ l \in Nat
  BY BoardedIs DEF Walked, Typed
<1>2. Ahead' = Ahead
  BY DEF Ahead, Nums
<1>3. Meant \subseteq Meant'
  BY <1>1 DEF Meant, Whole
<1>4. Lost \subseteq Lost'
  BY <1>1 DEF Lost
<1>5. Whole'
  <2>1. job.last \in Nat /\ job.last <= l /\ l <= LastOf(c)' /\ job.tree \subseteq 1 .. job.last
    BY <1>1 DEF Whole
  <2>2. job.last <= LastOf(c)'
    BY <1>1, <2>1
  <2>3. ASSUME NEW m \in files'[c], m <= job.last,
               m = job.root \/ (Linked(parent'[c], c, m) /\ parent'[c][m].num \in job.tree)
        PROVE  m \in job.tree
    <3>1. m \in 1 .. l
      BY <1>1, <2>1, <2>3
    <3>2. m \in files[c] /\ parent'[c][m] = parent[c][m]
      BY <3>1
    <3> QED BY <1>1, <2>3, <3>2 DEF Whole, Linked
  <2> QED BY <1>1, <2>1, <2>2, <2>3 DEF Whole
<1>6. Within'
  BY <1>1, <1>2, <1>3 DEF Within
<1>7. ASSUME c \in subs PROVE Covered'
  <2> SUFFICES ASSUME NEW t \in job.tree, t \in Trunk(job.root)' PROVE Done(t)' \/ \E s \in Ahead' : t \in Trunk(s)'
    BY DEF Covered, Trunk
  <2>1. t \in 1 .. l
    BY <1>1 DEF Whole
  <2>2. t \in Trunk(job.root) /\ \A s \in Nat : job.root <= s /\ t \in Trunk(s) => t \in Trunk(s)'
    BY <2>1
  <2>3. Done(t) \/ \E s \in Ahead : t \in Trunk(s)
    BY <1>1, <1>7, <2>2 DEF Covered
  <2>4. CASE Done(t)
    BY <2>4 DEF Done
  <2>5. ASSUME NEW s \in Ahead, t \in Trunk(s) PROVE \E u \in Ahead' : t \in Trunk(u)'
    <3>1. s \in Nat /\ job.root <= s
      BY <1>1 DEF Within
    <3> QED BY <1>2, <2>2, <2>5, <3>1
  <2> QED BY <2>3, <2>4, <2>5
<1>8. ASSUME c \in subs PROVE Bounded'
  BY <1>1, <1>3, <1>4, <1>8 DEF Bounded
<1> QED BY <1>5, <1>6, <1>7, <1>8 DEF Walked

(* A tree with a text in it has its root.                                  *)
LEMMA RootIsThere ==
  ASSUME NEW p, NEW F, F \subseteq Nat, NEW c, NEW n, NEW T, IsTree(T, p, F, c, n), NEW t \in T
  PROVE  n \in F
<1>1. T \subseteq Nat /\ T # {}
  BY DEF IsTree
<1>2. PICK k \in T : \A l \in T : k <= l
  BY <1>1, LeastOf
<1>3. k \in F /\ k \in Nat /\ (k = n \/ (Linked(p, c, k) /\ p[k].num \in T))
  BY <1>1, <1>2 DEF IsTree
<1>4. Linked(p, c, k) => ~(k <= p[k].num)
  BY <1>3 DEF Linked
<1> QED BY <1>2, <1>3, <1>4

(* One round of a walk: what is on the stack before the next is popped.    *)
Round == cstack \o Entries(Current_conf, Stacked(Current_conf, job.next))

(* All of it is meant, and the comments of the text the walk is at are on. *)
LEMMA RoundIs ==
  ASSUME Typed, Walked, pc = "walk"
  PROVE  /\ Round \in Seq(Texts)
         /\ \A s \in Nums(Round) : s \in Nat /\ job.root <= s /\ s \in Meant
         /\ Nums(cstack) \subseteq Nums(Round)
         /\ \A m \in files[Current_conf] :
              job.next \in files[Current_conf] /\ Linked(parent[Current_conf], Current_conf, m)
                /\ parent[Current_conf][m].num = job.next
              => m \in Nums(Round)
<1> DEFINE c == Current_conf
           n == job.next
           k == Stacked(c, n)
<1>1. c \in Confs /\ Boarded /\ cstack \in Seq(Texts) /\ Whole /\ Within
  BY DEF Typed, Walked
<1>2. /\ parent[c] \in Seq(Texts) /\ LastOf(c) \in Nat /\ DOMAIN parent[c] = 1 .. LastOf(c) /\ Grown(parent[c], c)
      /\ files[c] \subseteq 1 .. LastOf(c)
  BY <1>1, BoardedIs
<1>3. k \in Seq(Nat)
  BY <1>2, StackedComments DEF CommentsOf
<1>4. /\ \A m \in files[c] : c # Mailbox /\ n \in files[c] /\ parent[c][m] = Text(c, n)
              => \E i \in DOMAIN k : k[i] = m
      /\ \A i \in DOMAIN k : c # Mailbox /\ n \in files[c] /\ k[i] \in files[c] /\ parent[c][k[i]] = Text(c, n)
  BY <1>1, StackedAre
<1> HIDE DEF k
<1>5. Round \in Seq(Texts) /\ Nums(Round) = Nums(cstack) \cup {k[i] : i \in DOMAIN k}
  <2>1. Round = cstack \o Entries(c, k)
    BY DEF Round, k
  <2> QED BY <1>1, <1>3, <2>1, NumsOfPushed
<1>6. n \in Nat /\ job.root <= n /\ n \in Meant /\ \A s \in Nums(cstack) : s \in Nat /\ job.root <= s /\ s \in Meant
  BY <1>1 DEF Within, Ahead
<1>7. ASSUME NEW i \in DOMAIN k PROVE k[i] \in Nat /\ job.root <= k[i] /\ k[i] \in Meant
  <2> DEFINE m == k[i]
  <2>1. c # Mailbox /\ n \in files[c] /\ m \in files[c] /\ parent[c][m] = Text(c, n)
    BY <1>4
  <2>2. m \in 1 .. LastOf(c) /\ n \in 1 .. LastOf(c) /\ parent[c][m].conf = c /\ parent[c][m].num = n
    BY <1>2, <2>1 DEF Text
  <2> HIDE DEF m
  <2>3. n < m
    BY <1>2, <2>2 DEF Grown
  <2>4. /\ job.root \in Nat /\ job.last \in Nat /\ job.last <= LastOf(c) /\ job.tree \subseteq 1 .. job.last
        /\ \A x \in files[c] : x <= job.last /\ (x = job.root \/ (Linked(parent[c], c, x) /\ parent[c][x].num \in job.tree))
              => x \in job.tree
    <3>1. MaxText \in Nat
      BY BoundsAssumption
    <3> QED BY <1>1, <3>1 DEF Whole
  <2>5. m \in Nat /\ job.root <= m
    BY <1>2, <1>6, <2>2, <2>3, <2>4
  <2>6. CASE m <= job.last
    <3>1. Linked(parent[c], c, m)
      BY <1>2, <2>1, <2>2, <2>3 DEF Linked
    <3>2. n <= job.last /\ n \notin job.last + 1 .. LastOf(c)
      BY <1>2, <2>2, <2>3, <2>4, <2>6
    <3>3. n \in job.tree
      BY <1>6, <2>1, <2>4, <3>2 DEF Meant
    <3>4. m \in job.tree
      BY <2>1, <2>2, <2>4, <2>6, <3>1, <3>3
    <3> QED BY <2>5, <3>4 DEF Meant, m
  <2>7. CASE ~(m <= job.last)
    <3>1. m \in job.last + 1 .. LastOf(c)
      BY <1>2, <2>2, <2>4, <2>7
    <3> QED BY <2>5, <3>1 DEF Meant, m
  <2> QED BY <2>6, <2>7
<1>8. ASSUME NEW m \in files[c], n \in files[c], Linked(parent[c], c, m), parent[c][m].num = n
      PROVE  m \in Nums(Round)
  <2>1. c # Mailbox /\ parent[c][m].conf = c /\ m \in DOMAIN parent[c]
    BY <1>2, <1>8 DEF Linked
  <2>2. parent[c][m] \in Texts
    BY <1>2, <2>1, TextsIn
  <2>3. parent[c][m] = Text(c, n)
    BY <1>8, <2>1, <2>2 DEF Text, Texts
  <2> QED BY <1>4, <1>5, <1>8, <2>1, <2>3
<1> QED BY <1>5, <1>6, <1>7, <1>8

(* What it marks.                                                          *)
LEMMA RoundMarks ==
  ASSUME Typed, WalkStep, Current_conf \in subs
  PROVE  /\ read'[Current_conf] = (IF job.mark = "read" THEN read[Current_conf] \cup {job.next}
                                                         ELSE read[Current_conf] \ {job.next})
                                  \cup Gone(Current_conf, job.next)
         /\ Gone(Current_conf, job.next) \subseteq Lost
<1> DEFINE c == Current_conf
           marked == IF job.mark = "read" THEN Mark(read, c, {job.next}) ELSE Unmark(read, c, {job.next})
<1>1. c \in Confs /\ Boarded /\ Mapped(read)
  BY DEF Typed
<1>2. Gone(c, job.next) \subseteq Lost
  BY <1>1, StackedAre DEF Lost
<1>3. read' = Mark(marked, c, Gone(c, job.next))
  BY DEF WalkStep
<1>4. /\ Mapped(marked)
      /\ marked[c] = IF job.mark = "read" THEN read[c] \cup {job.next} ELSE read[c] \ {job.next}
  <2>1. Mapped(marked)
    BY <1>1, MappedMark
  <2>2. CASE job.mark = "read"
    BY <1>1, <2>2 DEF Mark, Mapped
  <2>3. CASE job.mark # "read"
    BY <1>1, <2>3 DEF Unmark, Mapped
  <2> HIDE DEF marked
  <2> QED BY <2>1, <2>2, <2>3 DEF marked
<1> HIDE DEF marked
<1>5. read'[c] = marked[c] \cup Gone(c, job.next)
  BY <1>1, <1>3, <1>4 DEF Mark, Mapped
<1> QED BY <1>2, <1>4, <1>5

(* What was done stays done, what it is at is done, and what is below that *)
(* is below one of its comments.                                           *)
LEMMA RoundCovers ==
  ASSUME Typed, Placed, Walked, WalkStep, Current_conf \in subs
  PROVE  /\ \A t \in job.tree \cap Trunk(job.root) :
              \/ IF job.mark = "read" THEN t \in read'[Current_conf] ELSE t \notin read'[Current_conf]
              \/ \E s \in Nums(Round) : t \in Trunk(s)
         /\ IF job.mark = "read"
            THEN job.before \subseteq read'[Current_conf] /\ read'[Current_conf] \ job.before \subseteq Meant \cup Lost
            ELSE job.before \ read'[Current_conf] \subseteq Meant /\ read'[Current_conf] \ job.before \subseteq Lost
<1> DEFINE c == Current_conf
           n == job.next
           done(t) == IF job.mark = "read" THEN t \in read'[c] ELSE t \notin read'[c]
<1>1. pc = "walk" /\ Whole /\ Within /\ Covered /\ Bounded /\ c \in Confs /\ Boarded
  BY DEF WalkStep, Walked, Typed
<1>2. /\ read'[c] = (IF job.mark = "read" THEN read[c] \cup {n} ELSE read[c] \ {n}) \cup Gone(c, n)
      /\ Gone(c, n) \subseteq Lost
  BY RoundMarks
<1>3. n \in Nat /\ n \in Meant
  BY <1>1 DEF Within, Ahead
<1>4. ASSUME NEW t \in job.tree \cap Trunk(job.root)
      PROVE  done(t) \/ \E s \in Nums(Round) : t \in Trunk(s)
  <2>1. t \in files[c]
    <3>1. job.root \in Nat
      BY <1>1, BoundsAssumption DEF Whole
    <3> QED BY <3>1, TrunkIs DEF IsTree
  <2>2. t \notin Gone(c, n)
    BY <1>2, <2>1 DEF Lost
  <2>3. CASE Done(t)
    BY <1>2, <2>2, <2>3 DEF Done
  <2>4. CASE t = n
    BY <1>2, <2>2, <2>4
  <2>5. ASSUME NEW s \in Nums(cstack), t \in Trunk(s) PROVE \E u \in Nums(Round) : t \in Trunk(u)
    BY <1>1, <2>5, RoundIs
  <2>6. ASSUME t \in Trunk(n), t # n PROVE \E u \in Nums(Round) : t \in Trunk(u)
    <3>1. IsTree(Trunk(n), parent[c], files[c], c, n) /\ files[c] \subseteq Nat
      BY <1>1, <1>3, TrunkIs, BoardedIs
    <3>2. PICK m \in files[c] : /\ Linked(parent[c], c, m) /\ parent[c][m].num = n
                               /\ \A V : IsTree(V, parent[c], files[c], c, m) => t \in V
      BY <2>6, <3>1, BelowAComment
    <3>3. n \in files[c] /\ m \in Nat
      BY <2>6, <3>1, RootIsThere
    <3>4. m \in Nums(Round)
      BY <1>1, <3>2, <3>3, RoundIs
    <3>5. IsTree(Trunk(m), parent[c], files[c], c, m)
      BY <3>3, TrunkIs
    <3> QED BY <3>2, <3>4, <3>5
  <2>7. Done(t) \/ \E s \in Ahead : t \in Trunk(s)
    BY <1>1 DEF Covered
  <2> QED BY <2>3, <2>4, <2>5, <2>6, <2>7 DEF Ahead
<1>5. IF job.mark = "read"
      THEN job.before \subseteq read'[c] /\ read'[c] \ job.before \subseteq Meant \cup Lost
      ELSE job.before \ read'[c] \subseteq Meant /\ read'[c] \ job.before \subseteq Lost
  BY <1>1, <1>2, <1>3 DEF Bounded
<1> QED BY <1>4, <1>5

(* A walk keeps what it was begun with.                                    *)
LEMMA JobKeeps ==
  ASSUME NEW j, NEW x,
         j = [op |-> j.op, mark |-> j.mark, root |-> j.root, next |-> j.next, tree |-> j.tree,
              last |-> j.last, before |-> j.before],
         NEW k, k = [j EXCEPT !.next = x]
  PROVE  /\ k.next = x /\ k.mark = j.mark /\ k.root = j.root
         /\ k.tree = j.tree /\ k.last = j.last /\ k.before = j.before
<1> DEFINE h == [op |-> j.op, mark |-> j.mark, root |-> j.root, next |-> x, tree |-> j.tree,
                 last |-> j.last, before |-> j.before]
<1>1. k = h
  OBVIOUS
<1>2. /\ h.next = x /\ h.mark = j.mark /\ h.root = j.root
      /\ h.tree = j.tree /\ h.last = j.last /\ h.before = j.before
  OBVIOUS
<1> HIDE DEF h
<1> QED BY <1>1, <1>2

(* The walk goes on with the text on top, or is over.                      *)
LEMMA WalkStepWalks ==
  ASSUME Typed, Waiting, Placed, Walked, WalkStep
  PROVE  Walked'
<1> DEFINE c == Current_conf
<1>1. /\ pc = "walk" /\ UNCHANGED << parent, files, subs, Current_conf >>
      /\ IF Round = << >>
         THEN cstack' = << >> /\ pc' = "command" /\ job' = NoJob
         ELSE cstack' = Front(Round) /\ job' = [job EXCEPT !.next = Last(Round).num] /\ UNCHANGED pc
  BY DEF WalkStep, Round, board, place
<1>2. Walking /\ Whole /\ Within
  BY <1>1 DEF Waiting, Walked
<1>3. Round \in Seq(Texts) /\ \A s \in Nums(Round) : s \in Nat /\ job.root <= s /\ s \in Meant
  BY <1>1, RoundIs
<1>4. CASE Round = << >>
  BY <1>1, <1>4 DEF Walked
<1>5. CASE Round # << >>
  <2>1. cstack' = Front(Round) /\ job' = [job EXCEPT !.next = Last(Round).num]
    BY <1>1, <1>5
  <2>2. /\ job'.next = Last(Round).num /\ job'.mark = job.mark /\ job'.root = job.root
        /\ job'.tree = job.tree /\ job'.last = job.last /\ job'.before = job.before
    BY <1>2, <2>1, JobKeeps DEF Walking
  <2>3. Ahead' = Nums(Round)
    <3>1. Nums(Round) = {Last(Round).num} \cup Nums(Front(Round))
      BY <1>3, <1>5, NumsOfPopped
    <3>2. Nums(cstack)' = Nums(Front(Round))
      BY <2>1 DEF Nums
    <3> QED BY <2>2, <3>1, <3>2 DEF Ahead
  <2>4. Meant' = Meant /\ Lost' = Lost
    BY <1>1, <2>2 DEF Meant, Lost, LastOf
  <2>5. Whole'
    BY <1>1, <1>2, <2>2 DEF Whole, LastOf
  <2>6. Within'
    BY <1>3, <2>2, <2>3, <2>4 DEF Within
  <2>7. ASSUME c \in subs PROVE Covered' /\ Bounded'
    <3>1. \A t : Trunk(t)' = Trunk(t)
      BY <1>1 DEF Trunk
    <3>2. /\ \A t \in job.tree \cap Trunk(job.root) :
               \/ IF job.mark = "read" THEN t \in read'[c] ELSE t \notin read'[c]
               \/ \E s \in Nums(Round) : t \in Trunk(s)
          /\ IF job.mark = "read"
             THEN job.before \subseteq read'[c] /\ read'[c] \ job.before \subseteq Meant \cup Lost
             ELSE job.before \ read'[c] \subseteq Meant /\ read'[c] \ job.before \subseteq Lost
      BY <2>7, RoundCovers
    <3>3. \A t : Done(t)' <=> IF job.mark = "read" THEN t \in read'[c] ELSE t \notin read'[c]
      BY <1>1, <2>2 DEF Done
    <3>4. Covered'
      BY <1>1, <2>2, <2>3, <3>1, <3>2, <3>3 DEF Covered
    <3>5. Bounded'
      BY <1>1, <2>2, <2>4, <3>2 DEF Bounded
    <3> QED BY <3>4, <3>5
  <2> QED BY <1>1, <2>5, <2>6, <2>7 DEF Walked
<1> QED BY <1>4, <1>5

-----------------------------------------------------------------------------
(* A tree of the next state.                                               *)
LEMMA TrunkStays ==
  ASSUME Typed', Placed', Current_conf' = Current_conf, NEW n \in Nat
  PROVE  IsTree(Trunk(n)', parent'[Current_conf], files'[Current_conf], Current_conf, n)
<1>1. /\ Current_conf' \in Confs /\ Len(parent'[Current_conf']) \in Nat /\ Len(parent'[Current_conf']) <= MaxText
      /\ MaxText \in Nat /\ files'[Current_conf'] \subseteq 1 .. Len(parent'[Current_conf'])
  <2>1. Current_conf' \in Confs /\ Boarded'
    BY DEF Typed
  <2>2. parent'[Current_conf'] \in Seq(Texts) /\ files'[Current_conf'] \subseteq DOMAIN parent'[Current_conf']
    BY <2>1 DEF Boarded
  <2>3. Len(parent'[Current_conf']) <= MaxText
    BY <2>1 DEF Placed, LastOf
  <2> QED BY <2>1, <2>2, <2>3, LenProperties, BoundsAssumption
<1>2. Trunk(n)' = TreeOf(parent'[Current_conf'], files'[Current_conf'], Current_conf', n)
  BY DEF Trunk
<1> QED BY <1>1, <1>2, TreeIs

(* Texts are deleted.                                                      *)
LEMMA DeleteWalks ==
  ASSUME Typed, Placed, Typed', Placed', Walked, NEW d \in Confs, NEW n, Delete(d, n)
  PROVE  Walked'
<1> DEFINE c == Current_conf
<1>1. /\ UNCHANGED << parent, read, subs, Current_conf, cstack, pc, job >>
      /\ files' = [files EXCEPT ![d] = @ \ {n}]
  BY DEF Delete, place, stacks, control
<1>2. /\ c \in Confs /\ LastOf(c) \in Nat /\ LastOf(c)' = LastOf(c) /\ files[c] \subseteq 1 .. LastOf(c)
      /\ files[c] \subseteq Nat
  BY <1>1, BoardedIs DEF Typed, LastOf
<1>3. files'[c] \subseteq files[c]
  BY <1>1, <1>2 DEF Typed, Boarded, Mapped
<1>4. CASE pc = "walk"
  <2>1. job.root \in Nat
    BY <1>4, BoundsAssumption DEF Walked, Whole
  <2>2. ASSUME NEW s \in Nat PROVE IsTree(Trunk(s), parent[c], files[c], c, s)
    BY TrunkIs
  <2>3. ASSUME NEW s \in Nat PROVE IsTree(Trunk(s)', parent[c], files'[c], c, s)
    BY <1>1, TrunkStays
  <2>4. PICK r \in Nat : r = job.root
    BY <2>1
  <2>5. Trunk(job.root) = Trunk(r) /\ Trunk(job.root)' = Trunk(r)'
    BY <1>1, <2>4
  <2>6. ASSUME NEW t \in Trunk(r)', NEW s \in Nat, r <= s
        PROVE  t \in Trunk(r) /\ (t \in Trunk(s) => t \in Trunk(s)')
    <3>1. /\ IsTree(Trunk(r), parent[c], files[c], c, r) /\ IsTree(Trunk(s), parent[c], files[c], c, s)
          /\ IsTree(Trunk(r)', parent[c], files'[c], c, r) /\ IsTree(Trunk(s)', parent[c], files'[c], c, s)
      BY <2>2, <2>3
    <3>2. Trunk(r)' \subseteq Trunk(r) /\ Trunk(r)' \cap Trunk(s) \subseteq Trunk(s)'
      BY <1>2, <1>3, <2>6, <3>1, FewerTexts
    <3> QED BY <2>6, <3>2
  <2>7. files'[c] \subseteq Nat \ {0}
    BY <1>2, <1>3
  <2>8. \A m \in 1 .. LastOf(c) : parent'[c][m] = parent[c][m] /\ (m \in files'[c] => m \in files[c])
    BY <1>1, <1>3
  <2>9. \A t \in 1 .. LastOf(c) : t \in Trunk(job.root)' =>
          t \in Trunk(job.root) /\ \A s \in Nat : job.root <= s /\ t \in Trunk(s) => t \in Trunk(s)'
    BY <2>4, <2>5, <2>6
  <2>10. LastOf(c)' \in Nat /\ LastOf(c) <= LastOf(c)'
    BY <1>2
  <2> QED BY <1>1, <1>4, <2>7, <2>8, <2>9, <2>10, WalkGoesOn
<1>5. CASE pc # "walk"
  BY <1>1, <1>5 DEF Walked
<1> QED BY <1>4, <1>5

(* Texts are posted.                                                       *)
LEMMA PostWalks ==
  ASSUME Typed, Placed, Typed', Placed', Walked, NEW d \in Confs, NEW x \in Texts, Post(d, x)
  PROVE  Walked'
<1> DEFINE c == Current_conf
           l == LastOf(Current_conf)
<1>1. /\ UNCHANGED << read, subs, Current_conf, cstack, pc, job >>
      /\ parent' = [parent EXCEPT ![d] = Append(@, x)]
      /\ files' = [files EXCEPT ![d] = @ \cup {LastOf(d) + 1}]
  BY DEF Post, Posted, place, stacks, control
<1>2. /\ c \in Confs /\ parent[c] \in Seq(Texts) /\ l \in Nat /\ files[c] \subseteq 1 .. l
      /\ DOMAIN parent[c] = 1 .. l /\ l = Len(parent[c])
  BY BoardedIs DEF Typed, LastOf
<1>3. /\ l <= LastOf(c)' /\ LastOf(c)' \in Nat /\ files'[c] \subseteq Nat \ {0}
      /\ \A m \in 1 .. l : parent'[c][m] = parent[c][m]
      /\ \A m \in 0 .. l : m \in files[c] <=> m \in files'[c]
  <2>1. CASE d # c
    <3>1. parent'[c] = parent[c] /\ files'[c] = files[c]
      BY <1>1, <1>2, <2>1 DEF Typed, Boarded, Mapped
    <3> QED BY <1>1, <1>2, <3>1 DEF LastOf
  <2>2. CASE d = c
    <3>1. parent'[c] = Append(parent[c], x) /\ files'[c] = files[c] \cup {l + 1}
      BY <1>1, <1>2, <2>2 DEF Typed, Boarded, Mapped
    <3>2. Len(parent'[c]) = l + 1 /\ \A m \in 1 .. l : parent'[c][m] = parent[c][m]
      BY <1>2, <3>1, AppendProperties
    <3>3. LastOf(c)' = l + 1
      BY <1>1, <3>2 DEF LastOf
    <3> HIDE DEF c, l
    <3> QED BY <1>2, <3>1, <3>2, <3>3
  <2> QED BY <2>1, <2>2
<1>4. CASE pc = "walk"
  <2>1. job.root \in Nat
    BY <1>4, BoundsAssumption DEF Walked, Whole
  <2>2. PICK r \in Nat : r = job.root
    BY <2>1
  <2>3. Trunk(job.root) = Trunk(r) /\ Trunk(job.root)' = Trunk(r)'
    BY <1>1, <2>2
  <2>4. ASSUME NEW s \in Nat PROVE \A t \in 0 .. l : t \in Trunk(s) <=> t \in Trunk(s)'
    <3>1. IsTree(Trunk(s), parent[c], files[c], c, s)
      BY TrunkIs
    <3>2. IsTree(Trunk(s)', parent'[c], files'[c], c, s)
      BY <1>1, TrunkStays
    <3>3. Alike(parent[c], files[c], parent'[c], files'[c], l) /\ l \in Nat
      BY <1>2, <1>3 DEF Alike
    <3> HIDE DEF c, l
    <3>4. Trunk(s) \cap 0 .. l = Trunk(s)' \cap 0 .. l
      BY <3>1, <3>2, <3>3, SameUpTo
    <3> QED BY <3>4
  <2>5. \A m \in 1 .. l : parent'[c][m] = parent[c][m] /\ (m \in files'[c] => m \in files[c])
    BY <1>2, <1>3
  <2>6. \A t \in 1 .. l : t \in Trunk(job.root)' =>
          t \in Trunk(job.root) /\ \A s \in Nat : job.root <= s /\ t \in Trunk(s) => t \in Trunk(s)'
    BY <1>2, <2>2, <2>3, <2>4
  <2> QED BY <1>1, <1>3, <1>4, <2>5, <2>6, WalkGoesOn
<1>5. CASE pc # "walk"
  BY <1>1, <1>5 DEF Walked
<1> QED BY <1>4, <1>5

(* A text that is there has a number within the bound.                     *)
LEMMA TextIsPlaced ==
  ASSUME Typed, Placed, NEW n \in files[Current_conf]
  PROVE  n \in 1 .. MaxText
BY FilesAreTexts DEF Typed

(* A walk is begun.                                                        *)
LEMMA BeginWalks ==
  ASSUME Typed, Placed, \/ cmd_jump_over \/ cmd_jump_tree \/ \E n \in 0 .. MaxText : cmd_unread_tree(n)
                        \/ \E a \in Numbers \cup Words : cmd_goto_text(a)
  PROVE  Walked'
<1>1. Current_conf \in Confs /\ Boarded /\ LastOf(Current_conf) <= MaxText /\ Last_text \in 0 .. MaxText /\ MaxText \in Nat
  BY BoundsAssumption DEF Typed, Placed
<1>2. CASE cmd_jump_over
  <2>1. BeginWalk("read", Last_text) /\ Current_conf' = Current_conf /\ Last_text \in 1 .. MaxText
    BY <1>1, <1>2 DEF cmd_jump_over, place
  <2> QED BY <2>1, WalkBegins
<1>3. CASE cmd_jump_tree
  <2>1. /\ BeginWalk("read", TreeTop(Current_conf, Last_text)) /\ Current_conf' = Current_conf
        /\ Last_text \in 1 .. MaxText /\ Current_conf # Mailbox
    BY <1>1, <1>3 DEF cmd_jump_tree, place
  <2>2. TreeTop(Current_conf, Last_text) \in 1 .. MaxText
    BY <1>1, <2>1, TopIsText
  <2> QED BY <2>1, <2>2, WalkBegins
<1>4. ASSUME NEW n \in 0 .. MaxText, cmd_unread_tree(n) PROVE Walked'
  <2> DEFINE t == IF n = 0 THEN Last_text ELSE n
  <2>1. /\ BeginWalk("unread", TreeTop(Current_conf, t)) /\ Current_conf' = Current_conf
        /\ t \in files[Current_conf] /\ Current_conf # Mailbox
    BY <1>4 DEF cmd_unread_tree, place
  <2> HIDE DEF t
  <2>2. t \in 1 .. MaxText
    BY <2>1, TextIsPlaced
  <2>3. TreeTop(Current_conf, t) \in 1 .. MaxText
    BY <1>1, <2>1, <2>2, TopIsText
  <2> QED BY <2>1, <2>3, WalkBegins
<1>5. ASSUME NEW a \in Numbers \cup Words, cmd_goto_text(a) PROVE Walked'
  <2> DEFINE t == ParseText(a)
  <2>1. CASE t.num \in files[Current_conf]
    <3>1. BeginWalk("unread", t.num) /\ Current_conf' = Current_conf
      BY <1>5, <2>1 DEF cmd_goto_text
    <3>2. t.num \in 1 .. MaxText
      BY <2>1, TextIsPlaced
    <3> QED BY <3>1, <3>2, WalkBegins
  <2>2. CASE t.num \notin files[Current_conf]
    <3>1. pc' = "command"
      BY <1>5, <2>2 DEF cmd_goto_text, Command, control
    <3> QED BY <3>1 DEF Walked
  <2> QED BY <2>1, <2>2
<1> QED BY <1>2, <1>3, <1>4, <1>5

-----------------------------------------------------------------------------
LEMMA InitWalked == Init => Walked
BY DEF Init, Walked

LEMMA NextWalked ==
  Typed /\ Waiting /\ Placed /\ Walked /\ Typed' /\ Placed' /\ [Next]_vars => Walked'
<1> SUFFICES ASSUME Typed, Waiting, Placed, Walked, Typed', Placed', [Next]_vars PROVE Walked'
  OBVIOUS
<1>0. ASSUME pc' # "walk" PROVE Walked'
  BY <1>0 DEF Walked
<1>1. CASE Read
  <2>1. pc' # "walk"
    BY <1>1 DEF Read, cmd_next_text, cmd_next_comment, AllStep, BeginAll, cmd_read_text, cmd_comment,
                cmd_next_conf, cmd_change_conf, cmd_unsubscribe, Command, control
  <2> QED BY <1>0, <2>1
<1>2. CASE Trees
  BY <1>2, BeginWalks, WalkStepWalks DEF Trees
<1>3. CASE Sweeps
  <2>1. pc' # "walk"
    BY <1>3 DEF Sweeps, cmd_jumpsub, cmd_sendbatch, BeginSweep, SweepStep, RestoreStep, Swept, SweepEnd,
                cmd_unreadsub, cmd_only, Command, control
  <2> QED BY <1>0, <2>1
<1>4. CASE Back
  <2>1. pc' # "walk"
    BY <1>4 DEF Back, cmd_back_text, cmd_unread_text, cmd_reclaim_unread, exec_logout, BeginTake,
           PopUnread, MarkHeld, PutBack, ReclaimEnd, LogoutEnd, Command, control
  <2> QED BY <1>0, <2>1
<1>5. CASE Elsewhere
  <2>1. ASSUME NEW c \in ToSet(Order), NEW p \in {0} \cup files[c],
               Post(c, IF p = 0 THEN Nothing ELSE Text(c, p))
        PROVE  Walked'
    <3>1. c \in Confs /\ Mailbox \in Confs /\ files[c] \subseteq Nat
      BY BoardedIs DEF Typed, Confs
    <3>2. (IF p = 0 THEN Nothing ELSE Text(c, p)) \in Texts
      BY <3>1 DEF Nothing, Text, Texts
    <3> QED BY <2>1, <3>1, <3>2, PostWalks
  <2> QED BY <1>5, <2>1, DeleteWalks DEF Elsewhere
<1>6. CASE UNCHANGED vars
  <2>1. UNCHANGED << parent, files, read, subs, Current_conf, cstack, pc, job >>
    BY <1>6 DEF vars, board, place, stacks, control
  <2> QED BY <2>1 DEF Walked, Whole, Within, Covered, Bounded, Ahead, Nums, Meant, Lost, Done, Trunk, LastOf
<1> QED BY <1>1, <1>2, <1>3, <1>4, <1>5, <1>6 DEF Next

LEMMA AlwaysWalked == Spec => [](Typed /\ Waiting /\ Placed /\ Walked)
BY InitTyped, InitHanded, NextTyped, InitPlaced, NextPlaced, InitWalked, NextWalked, PTL DEF Spec

(* A walk marks the tree that stayed, and only texts that it was meant for,*)
(* are gone, or have come since.                                           *)
THEOREM WalksAreExact == Spec => WalkExact
<1> DEFINE all  == job.tree \cap Tree(Current_conf, job.root)
           some == job.tree \cup {job.root} \cup job.last + 1 .. LastOf(Current_conf)
           gone == (1 .. LastOf(Current_conf)) \ files[Current_conf]
           r    == read'[Current_conf]
           Exact == IF job.mark = "read"
                    THEN all \subseteq r /\ job.before \subseteq r /\ r \ job.before \subseteq some \cup gone
                    ELSE all \cap r = {} /\ job.before \ r \subseteq some /\ r \ job.before \subseteq gone
<1>1. ASSUME Typed, Placed, Walked, Next, pc = "walk", pc' = "command", Current_conf \in subs PROVE Exact
  <2>b. ~Back
    BY <1>1 DEF Back, cmd_back_text, cmd_unread_text, cmd_reclaim_unread, exec_logout, BeginTake, PopUnread,
       MarkHeld, PutBack, ReclaimEnd, AllTaken, LogoutEnd, Command, control
  <2>1. WalkStep
    BY <1>1, <2>b DEF Next, Read, Trees, Sweeps, Elsewhere, cmd_next_text, cmd_next_comment, AllStep, BeginAll,
       cmd_read_text, cmd_comment, cmd_next_conf, cmd_change_conf, cmd_unsubscribe, cmd_jump_over,
       cmd_jump_tree, cmd_goto_text, cmd_unread_tree, cmd_jumpsub, cmd_sendbatch, BeginSweep, SweepStep,
       RestoreStep, Swept, SweepEnd, cmd_unreadsub, cmd_only, Delete, Post, Command, control
  <2>2. Round = << >>
    BY <1>1, <2>1 DEF WalkStep, Round
  <2>3. Nums(Round) = {}
    BY <2>2, EmptyTidy DEF Nums
  <2>4. Trunk(job.root) = Tree(Current_conf, job.root)
    BY <1>1, TrunkIs
  <2>5. /\ \A t \in all : IF job.mark = "read" THEN t \in r ELSE t \notin r
        /\ IF job.mark = "read"
           THEN job.before \subseteq r /\ r \ job.before \subseteq Meant \cup Lost
           ELSE job.before \ r \subseteq Meant /\ r \ job.before \subseteq Lost
    BY <1>1, <2>1, <2>3, <2>4, RoundCovers
  <2>6. Meant = some /\ Lost = gone
    BY DEF Meant, Lost
  <2> HIDE DEF all, r, some, gone
  <2> QED BY <2>5, <2>6
<1>2. Typed /\ Placed /\ Walked /\ [Next]_vars =>
        [pc = "walk" /\ pc' = "command" /\ Current_conf \in subs => Exact]_vars
  BY <1>1
<1> QED BY <1>2, AlwaysWalked, PTL DEF Spec, WalkExact
=============================================================================
