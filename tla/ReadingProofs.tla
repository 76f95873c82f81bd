--------------------------- MODULE ReadingProofs ---------------------------
(***************************************************************************)
(* For every set of conferences, every number of texts and whatever the    *)
(* others post and delete: a session keeps its interval lists in normal    *)
(* form; what display_prompt, next_text, more_conf, first_text and         *)
(* num_unread answer is right; and what is written is what ReadSet allows. *)
(*                                                                         *)
(* First the operators of IntervalList: on a list in normal form,          *)
(* mark_as_read, mark_as_unread and the entries of next_text, first_text   *)
(* and only leave it in normal form and mark the texts they ought to.      *)
(***************************************************************************)
EXTENDS Reading, SequenceTheorems, FiniteSetTheorems, WellFoundedInduction, TLAPS

(* InsertAt of SequencesExt, element by element.                           *)
LEMMA InsertAtIs ==
  ASSUME NEW S, NEW s \in Seq(S), NEW i \in 1 .. Len(s) + 1, NEW e \in S
  PROVE  /\ InsertAt(s, i, e) \in Seq(S)
         /\ Len(InsertAt(s, i, e)) = Len(s) + 1
         /\ \A k \in 1 .. Len(s) + 1 : InsertAt(s, i, e)[k] =
              IF k < i THEN s[k] ELSE IF k = i THEN e ELSE s[k - 1]
<1> DEFINE front == SubSeq(s, 1, i - 1)
           init  == front \o <<e>>
           back  == SubSeq(s, i, Len(s))
<1>0. Len(s) \in Nat /\ i \in Int
  OBVIOUS
<1>1. /\ front \in Seq(S) /\ Len(front) = i - 1
      /\ \A k \in 1 .. i - 1 : front[k] = s[k]
  BY SubSeqProperties
<1>2. /\ back \in Seq(S) /\ Len(back) = Len(s) - i + 1
      /\ \A k \in 1 .. Len(s) - i + 1 : back[k] = s[i + k - 1]
  BY SubSeqProperties
<1>3. InsertAt(s, i, e) = init \o back
  BY DEF InsertAt
<1> HIDE DEF front, back
<1>4. /\ init \in Seq(S) /\ Len(init) = i
      /\ \A k \in 1 .. i : init[k] = IF k < i THEN s[k] ELSE e
  BY <1>1
<1> HIDE DEF init
<1>5. /\ init \o back \in Seq(S)
      /\ Len(init \o back) = Len(init) + Len(back)
      /\ \A k \in 1 .. Len(init) + Len(back) :
           (init \o back)[k] = IF k <= Len(init) THEN init[k] ELSE back[k - Len(init)]
  BY <1>2, <1>4, ConcatProperties
<1>6. Len(init) + Len(back) = Len(s) + 1
  BY <1>0, <1>2, <1>4
<1>7. ASSUME NEW k \in 1 .. Len(s) + 1
      PROVE  (init \o back)[k] = IF k < i THEN s[k] ELSE IF k = i THEN e ELSE s[k - 1]
  <2>0. k \in Int
    BY <1>0
  <2>1. CASE k <= i
    BY <2>0, <2>1, <1>0, <1>4, <1>5, <1>6
  <2>2. CASE k > i
    <3>1. k - i \in 1 .. Len(s) - i + 1 /\ i + (k - i) - 1 = k - 1
      BY <2>0, <2>2, <1>0
    <3>2. back[k - i] = s[k - 1]
      BY <3>1, <1>2
    <3> QED BY <3>2, <2>0, <2>2, <1>0, <1>4, <1>5, <1>6
  <2>3. k <= i \/ k > i
    BY <2>0, <1>0
  <2> QED BY <2>1, <2>2, <2>3
<1> QED BY <1>3, <1>5, <1>6, <1>7

(* RemoveAt of SequencesExt, element by element.                           *)
LEMMA RemoveAtIs ==
  ASSUME NEW S, NEW s \in Seq(S), NEW i \in 1 .. Len(s)
  PROVE  /\ RemoveAt(s, i) \in Seq(S)
         /\ Len(RemoveAt(s, i)) = Len(s) - 1
         /\ \A k \in 1 .. Len(s) - 1 : RemoveAt(s, i)[k] =
              IF k < i THEN s[k] ELSE s[k + 1]
<1> DEFINE front == SubSeq(s, 1, i - 1)
           back  == SubSeq(s, i + 1, Len(s))
<1>0. Len(s) \in Nat /\ i \in Int
  OBVIOUS
<1>1. /\ front \in Seq(S) /\ Len(front) = i - 1
      /\ \A k \in 1 .. i - 1 : front[k] = s[k]
  BY SubSeqProperties
<1>2. /\ back \in Seq(S) /\ Len(back) = Len(s) - i
      /\ \A k \in 1 .. Len(s) - i : back[k] = s[i + k]
  BY SubSeqProperties
<1>3. RemoveAt(s, i) = front \o back
  BY DEF RemoveAt
<1> HIDE DEF front, back
<1>4. /\ front \o back \in Seq(S)
      /\ Len(front \o back) = Len(front) + Len(back)
      /\ \A k \in 1 .. Len(front) + Len(back) :
           (front \o back)[k] = IF k <= Len(front) THEN front[k] ELSE back[k - Len(front)]
  BY <1>1, <1>2, ConcatProperties
<1>5. Len(front) + Len(back) = Len(s) - 1
  BY <1>0, <1>1, <1>2
<1>6. ASSUME NEW k \in 1 .. Len(s) - 1
      PROVE  (front \o back)[k] = IF k < i THEN s[k] ELSE s[k + 1]
  <2>0. k \in Int
    BY <1>0
  <2>1. CASE k < i
    BY <2>0, <2>1, <1>0, <1>1, <1>4, <1>5
  <2>2. CASE k >= i
    <3>1. k - (i - 1) \in 1 .. Len(s) - i /\ i + (k - (i - 1)) = k + 1
      BY <2>0, <2>2, <1>0
    <3>2. back[k - (i - 1)] = s[k + 1]
      BY <3>1, <1>2
    <3> QED BY <3>2, <2>0, <2>2, <1>0, <1>1, <1>4, <1>5
  <2>3. k < i \/ k >= i
    BY <2>0, <1>0
  <2> QED BY <2>1, <2>2, <2>3
<1> QED BY <1>3, <1>4, <1>5, <1>6

(* A nonempty set of numbers has a least one: induction over the intervals *)
(* of a list takes this form.                                              *)
LEMMA LeastElement ==
  ASSUME NEW T, T \subseteq Nat, T # {}
  PROVE  \E m \in T : \A k \in T : m <= k
<1> DEFINE R == {ss \in Nat \X Nat : ss[1] < ss[2]}
<1>1. IsWellFoundedOn(R, Nat)
  BY NatLessThanWellFounded DEF OpToRel
<1>0. \A a, b \in Nat : a < b => <<a, b>> \in R
  OBVIOUS
<1> HIDE DEF R
<1>2. PICK x \in T : \A y \in T : ~ (<<y, x>> \in R)
  BY <1>1, WFMin
<1>3. ASSUME NEW y \in T PROVE x <= y
  <2>1. x \in Nat /\ y \in Nat
    OBVIOUS
  <2>2. ~ (y < x)
    BY <1>2, <1>0, <2>1
  <2> QED BY <2>1, <2>2
<1> QED BY <1>3

-----------------------------------------------------------------------------
(* In a normal list, intervals with text t between them lie on both sides  *)
(* of it: below the gap for t, everything ends before t.                   *)
LEMMA BelowGap ==
  ASSUME NEW s \in Seq(Interval), NormalForm(s), NEW t \in Nat, ~Marked(s, t),
         NEW g \in 1 .. Len(s) + 1,
         \A i \in 1 .. g - 1 : i \notin Gaps(s, t)
  PROVE  \A i \in 1 .. g - 1 : s[i].to < t
<1> DEFINE T == {i \in 1 .. g - 1 : ~ (s[i].to < t)}
<1>0. Len(s) \in Nat /\ g \in Int
  OBVIOUS
<1> SUFFICES ASSUME T # {} PROVE FALSE
  OBVIOUS
<1>1. T \subseteq Nat
  OBVIOUS
<1>2. PICK m \in T : \A k \in T : m <= k
  BY <1>1, LeastElement
<1>3. m \in 1 .. g - 1 /\ m \in DOMAIN s /\ m \in 1 .. Len(s) + 1 /\ m \in Int
  BY <1>0
<1>4. s[m] \in Interval
  BY <1>3
<1>5. s[m].from \in Nat /\ s[m].to \in Nat /\ t <= s[m].to
  <2>1. s[m].from \in Nat /\ s[m].to \in Nat
    BY <1>4 DEF Interval
  <2>2. ~ (s[m].to < t)
    OBVIOUS
  <2> QED BY <2>1, <2>2
<1>6. t < s[m].from
  BY <1>3, <1>5 DEF Marked, Covers
<1>7. m = 1 \/ s[m - 1].to < t
  <2>1. CASE m = 1
    BY <2>1
  <2>2. CASE m # 1
    <3>1. m - 1 \in 1 .. g - 1 /\ ~ (m <= m - 1)
      BY <1>3, <2>2, <1>0
    <3> QED BY <3>1, <1>2
  <2> QED BY <2>1, <2>2
<1>8. m \in Gaps(s, t)
  BY <1>3, <1>6, <1>7 DEF Gaps
<1> QED BY <1>3, <1>8

(* GapFor is the first gap.                                                *)
LEMMA GapForIs ==
  ASSUME NEW s \in Seq(Interval), NormalForm(s), NEW t \in Nat, ~Marked(s, t)
  PROVE  /\ GapFor(s, t) \in 1 .. Len(s) + 1
         /\ \A i \in 1 .. GapFor(s, t) - 1 : s[i].to < t
         /\ \A i \in GapFor(s, t) .. Len(s) : t < s[i].from
<1> DEFINE g == GapFor(s, t)
<1>0. Len(s) \in Nat
  OBVIOUS
<1>1. Len(s) + 1 \in Gaps(s, t) /\ Gaps(s, t) \subseteq Nat
  BY <1>0 DEF Gaps
<1>2. g \in Gaps(s, t) /\ \A j \in Gaps(s, t) : g <= j
  <2>1. \E m \in Gaps(s, t) : \A j \in Gaps(s, t) : m <= j
    BY <1>1, LeastElement
  <2> QED BY <2>1 DEF GapFor
<1>3. g \in 1 .. Len(s) + 1 /\ g \in Int
  BY <1>2, <1>0 DEF Gaps
<1>4. \A i \in 1 .. g - 1 : i \notin Gaps(s, t)
  <2> TAKE i \in 1 .. g - 1
  <2>1. i \in Int /\ ~ (g <= i)
    BY <1>3
  <2> QED BY <2>1, <1>2
<1> HIDE DEF g
<1>5. \A i \in 1 .. g - 1 : s[i].to < t
  BY <1>3, <1>4, BelowGap
<1>6. \A i \in g .. Len(s) : t < s[i].from
  <2> TAKE i \in g .. Len(s)
  <2>1. g # Len(s) + 1 /\ g \in DOMAIN s /\ i \in DOMAIN s /\ i \in Int
    BY <1>3, <1>0
  <2>2. t < s[g].from
    BY <1>2, <2>1 DEF Gaps
  <2>3. s[g] \in Interval /\ s[i] \in Interval
    BY <2>1
  <2>4. g = i \/ g < i
    BY <1>3, <2>1
  <2>5. CASE g < i
    BY <2>1, <2>2, <2>3, <2>5 DEF NormalForm, Interval
  <2> QED BY <2>2, <2>4, <2>5
<1> QED BY <1>3, <1>5, <1>6 DEF g

(* The shape of a list: its elements are typed and in normal form.         *)
Normal(s) == s \in Seq(Interval) /\ NormalForm(s)

(* Elements and their order, in the form the cases below use.              *)
LEMMA NormalElements ==
  ASSUME NEW s, Normal(s)
  PROVE  /\ Len(s) \in Nat
         /\ \A i \in 1 .. Len(s) : /\ s[i] \in Interval
                                   /\ s[i].from \in Nat /\ s[i].to \in Nat
                                   /\ 1 <= s[i].from /\ s[i].from <= s[i].to
         /\ \A i, j \in 1 .. Len(s) : i < j => s[i].to + 1 < s[j].from
<1>1. s \in Seq(Interval) /\ NormalForm(s)
  BY DEF Normal
<1>2. Len(s) \in Nat /\ DOMAIN s = 1 .. Len(s) /\ \A i \in 1 .. Len(s) : s[i] \in Interval
  BY <1>1
<1>3. \A i \in 1 .. Len(s) : s[i].from \in Nat /\ s[i].to \in Nat
  BY <1>2 DEF Interval
<1> QED BY <1>1, <1>2, <1>3 DEF NormalForm

(* An interval put where it touches nothing, put in the place of another,  *)
(* or taken out, leaves a list normal.                                     *)
LEMMA InsertNormal ==
  ASSUME NEW s, Normal(s), NEW g \in 1 .. Len(s) + 1,
         NEW e \in Interval, 1 <= e.from, e.from <= e.to,
         \A i \in 1 .. g - 1 : s[i].to + 1 < e.from,
         \A i \in g .. Len(s) : e.to + 1 < s[i].from
  PROVE  Normal(InsertAt(s, g, e))
<1> DEFINE n == InsertAt(s, g, e)
<1>0. s \in Seq(Interval) /\ Len(s) \in Nat
  BY DEF Normal
<1>1. g \in Int /\ g \in 1 .. Len(s) + 1
  BY <1>0
<1>2. e.from \in Nat /\ e.to \in Nat
  BY DEF Interval
<1>3. /\ n \in Seq(Interval) /\ Len(n) = Len(s) + 1
      /\ \A k \in 1 .. Len(s) + 1 :
           n[k] = IF k < g THEN s[k] ELSE IF k = g THEN e ELSE s[k - 1]
  BY <1>0, <1>1, InsertAtIs
<1> HIDE DEF n
<1>5. \A i \in 1 .. g - 1 : s[i].to + 1 < e.from
  OBVIOUS
<1>6. \A i \in g .. Len(s) : e.to + 1 < s[i].from
  OBVIOUS
<1>7. ASSUME NEW i \in 1 .. Len(s) + 1
      PROVE  1 <= n[i].from /\ n[i].from <= n[i].to
  <2>1. i < g \/ i = g \/ i > g
    BY <1>0, <1>1
  <2>2. CASE i < g
    BY <2>2, <1>0, <1>1, <1>3, NormalElements
  <2>3. CASE i = g
    BY <2>3, <1>0, <1>2, <1>3
  <2>4. CASE i > g
    <3>1. i - 1 \in 1 .. Len(s) /\ n[i] = s[i - 1]
      BY <2>4, <1>0, <1>1, <1>3
    <3> QED BY <3>1, NormalElements
  <2> QED BY <2>1, <2>2, <2>3, <2>4
<1>8. ASSUME NEW i \in 1 .. Len(s) + 1, NEW j \in 1 .. Len(s) + 1, i < j
      PROVE  n[i].to + 1 < n[j].from
  <2>0. i \in Int /\ j \in Int
    BY <1>0
  <2>1. \/ j < g \/ j = g \/ i = g \/ (i < g /\ j > g) \/ i > g
    BY <1>1, <2>0
  <2>2. CASE j < g
    <3>1. i \in 1 .. Len(s) /\ j \in 1 .. Len(s) /\ n[i] = s[i] /\ n[j] = s[j]
      BY <2>0, <2>2, <1>0, <1>1, <1>3, <1>8
    <3> QED BY <3>1, <1>8, NormalElements
  <2>3. CASE j = g
    <3>1. i \in 1 .. g - 1 /\ n[i] = s[i] /\ n[j] = e
      BY <2>0, <2>3, <1>0, <1>1, <1>3, <1>8
    <3> QED BY <3>1, <1>5
  <2>4. CASE i = g
    <3>1. j - 1 \in g .. Len(s) /\ n[i] = e /\ n[j] = s[j - 1]
      BY <2>0, <2>4, <1>0, <1>1, <1>3, <1>8
    <3> QED BY <3>1, <1>6
  <2>5. CASE i < g /\ j > g
    <3>1. i \in 1 .. Len(s) /\ j - 1 \in 1 .. Len(s) /\ i < j - 1
      BY <2>0, <2>5, <1>0, <1>1
    <3>2. n[i] = s[i] /\ n[j] = s[j - 1]
      BY <2>0, <2>5, <1>0, <1>1, <1>3
    <3> QED BY <3>1, <3>2, NormalElements
  <2>6. CASE i > g
    <3>1. i - 1 \in 1 .. Len(s) /\ j - 1 \in 1 .. Len(s) /\ i - 1 < j - 1
      BY <2>0, <2>6, <1>0, <1>1, <1>8
    <3>a. j > g /\ ~(i < g) /\ i # g /\ ~(j < g) /\ j # g
      BY <2>0, <2>6, <1>0, <1>1, <1>8
    <3>2. n[i] = s[i - 1] /\ n[j] = s[j - 1]
      BY <3>a, <1>3
    <3> QED BY <3>1, <3>2, NormalElements
  <2> QED BY <2>1, <2>2, <2>3, <2>4, <2>5, <2>6
<1>9. NormalForm(n)
  BY <1>3, <1>7, <1>8 DEF NormalForm
<1> QED BY <1>3, <1>9 DEF Normal, n

(* An interval put in the place of another one that it lies between the    *)
(* neighbours of.                                                          *)
LEMMA ReplaceNormal ==
  ASSUME NEW s, Normal(s), NEW g \in 1 .. Len(s),
         NEW e \in Interval, 1 <= e.from, e.from <= e.to,
         \A i \in 1 .. g - 1 : s[i].to + 1 < e.from,
         \A i \in g + 1 .. Len(s) : e.to + 1 < s[i].from
  PROVE  Normal([s EXCEPT ![g] = e])
<1> DEFINE n == [s EXCEPT ![g] = e]
<1>0. s \in Seq(Interval) /\ Len(s) \in Nat /\ g \in Int
  BY DEF Normal
<1>1. /\ n \in Seq(Interval) /\ Len(n) = Len(s)
      /\ \A k \in 1 .. Len(s) : n[k] = IF k = g THEN e ELSE s[k]
  BY <1>0
<1> HIDE DEF n
<1>2. ASSUME NEW i \in 1 .. Len(s)
      PROVE  1 <= n[i].from /\ n[i].from <= n[i].to
  BY <1>1, NormalElements
<1>3. ASSUME NEW i \in 1 .. Len(s), NEW j \in 1 .. Len(s), i < j
      PROVE  n[i].to + 1 < n[j].from
  <2>0. i \in Int /\ j \in Int
    BY <1>0
  <2>1. CASE i = g
    BY <2>0, <2>1, <1>0, <1>1, <1>3
  <2>2. CASE j = g
    BY <2>0, <2>2, <1>0, <1>1, <1>3
  <2>3. CASE i # g /\ j # g
    BY <2>3, <1>1, <1>3, NormalElements
  <2> QED BY <2>1, <2>2, <2>3
<1>4. NormalForm(n)
  BY <1>1, <1>2, <1>3 DEF NormalForm
<1> QED BY <1>1, <1>4 DEF Normal, n

(* An interval taken out, as mark_as_unread does with a single text.       *)
LEMMA RemoveNormal ==
  ASSUME NEW s, Normal(s), NEW g \in 1 .. Len(s)
  PROVE  Normal(RemoveAt(s, g))
<1> DEFINE n == RemoveAt(s, g)
           At(k) == IF k < g THEN k ELSE k + 1
<1>0. s \in Seq(Interval) /\ Len(s) \in Nat /\ g \in Int
  BY DEF Normal
<1>1. /\ n \in Seq(Interval) /\ Len(n) = Len(s) - 1
      /\ \A k \in 1 .. Len(s) - 1 : n[k] = IF k < g THEN s[k] ELSE s[k + 1]
  BY <1>0, RemoveAtIs
<1> HIDE DEF n
<1>2. \A k \in 1 .. Len(s) - 1 : At(k) \in 1 .. Len(s) /\ n[k] = s[At(k)]
  BY <1>0, <1>1
<1>3. \A i, j \in 1 .. Len(s) - 1 : i < j => At(i) < At(j)
  BY <1>0
<1> HIDE DEF At
<1>4. NormalForm(n)
  <2>1. ASSUME NEW i \in 1 .. Len(s) - 1
        PROVE  1 <= n[i].from /\ n[i].from <= n[i].to
    BY <1>2, NormalElements
  <2>2. ASSUME NEW i \in 1 .. Len(s) - 1, NEW j \in 1 .. Len(s) - 1, i < j
        PROVE  n[i].to + 1 < n[j].from
    BY <2>2, <1>2, <1>3, NormalElements
  <2> QED BY <2>1, <2>2, <1>1 DEF NormalForm
<1> QED BY <1>1, <1>4 DEF Normal, n

-----------------------------------------------------------------------------
(* A text that is not marked lies above or below every interval.           *)
LEMMA Beside ==
  ASSUME NEW s, Normal(s), NEW t \in Nat, ~Marked(s, t), NEW i \in 1 .. Len(s)
  PROVE  s[i].to < t \/ t < s[i].from
<1>1. s[i].from \in Nat /\ s[i].to \in Nat
  BY NormalElements
<1>2. i \in DOMAIN s
  BY DEF Normal
<1> QED BY <1>1, <1>2 DEF Marked, Covers

(* Where an interval lies, its neighbours on the same side follow.         *)
LEMMA Ordered ==
  ASSUME NEW s, Normal(s), NEW i \in 1 .. Len(s), NEW j \in 1 .. Len(s), i < j
  PROVE  s[i].to + 1 < s[j].from /\ s[i].to < s[j].to /\ s[i].from < s[j].from
BY NormalElements

(* bound = 2: the two neighbours of t are next to each other, and become   *)
(* one interval.                                                           *)
LEMMA JoinIs ==
  ASSUME NEW s, Normal(s), NEW t \in Nat \ {0}, ~Marked(s, t),
         Touching(s, t) # {}, ~ (\E i \in Touching(s, t) : Touching(s, t) = {i})
  PROVE  \E a \in 1 .. Len(s) :
           /\ a + 1 \in 1 .. Len(s) /\ s[a].to = t - 1 /\ s[a + 1].from = t + 1
           /\ AddText(s, t) = RemoveAt([s EXCEPT ![a] = [@ EXCEPT !.to = s[a + 1].to]], a + 1)
<1> DEFINE touch == Touching(s, t)
<1>0. s \in Seq(Interval) /\ NormalForm(s) /\ Len(s) \in Nat /\ t \in Nat /\ 1 <= t
  BY DEF Normal
<1>1. touch = {i \in 1 .. Len(s) : s[i].from = t + 1 \/ s[i].to = t - 1}
  BY <1>0 DEF Touching
<1>2. PICK a \in touch, b \in touch : a < b
  <2>1. PICK a \in touch, b \in touch : a # b
    OBVIOUS
  <2>2. a \in Int /\ b \in Int
    BY <1>1
  <2> QED BY <2>1, <2>2
<1>3. a \in 1 .. Len(s) /\ b \in 1 .. Len(s) /\ a \in Int /\ b \in Int
  BY <1>1
<1>4. /\ s[a].from \in Nat /\ s[a].to \in Nat /\ 1 <= s[a].from /\ s[a].from <= s[a].to
      /\ s[b].from \in Nat /\ s[b].to \in Nat /\ 1 <= s[b].from /\ s[b].from <= s[b].to
      /\ s[a].to + 1 < s[b].from
  BY <1>2, <1>3, NormalElements
<1>5. s[a].to = t - 1 /\ s[b].from = t + 1
  BY <1>0, <1>1, <1>2, <1>4
<1>6. b = a + 1
  <2>1. SUFFICES ASSUME a + 1 < b PROVE FALSE
    BY <1>2, <1>3
  <2>2. a + 1 \in 1 .. Len(s) /\ a < a + 1
    BY <2>1, <1>3, <1>0
  <2>3. s[a].to + 1 < s[a + 1].from /\ s[a + 1].to + 1 < s[b].from
    BY <2>1, <2>2, <1>3, NormalElements
  <2>4. /\ s[a + 1].from \in Nat /\ s[a + 1].to \in Nat
        /\ s[a + 1].from <= s[a + 1].to
    BY <2>2, NormalElements
  <2> QED BY <2>3, <2>4, <1>4, <1>5, <1>0
<1>7. (CHOOSE k \in touch : s[k].to = t - 1) = a
  <2>1. ASSUME NEW k \in touch, s[k].to = t - 1 PROVE k = a
    <3>1. k \in 1 .. Len(s) /\ k \in Int
      BY <1>1
    <3>2. ~ (k < a) /\ ~ (a < k)
      BY <3>1, <2>1, <1>3, <1>5, Ordered, <1>0
    <3> QED BY <3>1, <3>2, <1>3
  <2> QED BY <2>1, <1>5
<1>8. AddText(s, t) = RemoveAt([s EXCEPT ![a] = [@ EXCEPT !.to = s[a + 1].to]], a + 1)
  BY <1>7 DEF AddText
<1> QED BY <1>3, <1>5, <1>6, <1>8

(* bound = 1: the one neighbour grows.                                     *)
LEMMA GrowIs ==
  ASSUME NEW s, Normal(s), NEW t \in Nat \ {0},
         \E i \in Touching(s, t) : Touching(s, t) = {i}
  PROVE  \E i \in 1 .. Len(s) :
           /\ s[i].from = t + 1 \/ s[i].to = t - 1
           /\ \A j \in 1 .. Len(s) : j # i => s[j].from # t + 1 /\ s[j].to # t - 1
           /\ AddText(s, t) = [s EXCEPT ![i] = Grow(s[i], t)]
<1>1. Touching(s, t) = {i \in 1 .. Len(s) : s[i].from = t + 1 \/ s[i].to = t - 1}
  BY DEF Touching, Normal
<1>2. PICK i \in Touching(s, t) : Touching(s, t) = {i}
  OBVIOUS
<1>3. (CHOOSE k \in Touching(s, t) : TRUE) = i
  BY <1>2
<1>4. AddText(s, t) = [s EXCEPT ![i] = Grow(s[i], t)]
  BY <1>2, <1>3 DEF AddText
<1> QED BY <1>1, <1>2, <1>4

(* mark_as_read keeps the list normal: the three cases of bound.           *)
LEMMA AddTextNormal ==
  ASSUME NEW s, Normal(s), NEW t \in Nat \ {0}, ~Marked(s, t)
  PROVE  Normal(AddText(s, t))
<1> DEFINE touch == Touching(s, t)
<1>0. s \in Seq(Interval) /\ NormalForm(s) /\ Len(s) \in Nat /\ t \in Nat /\ 1 <= t
  BY DEF Normal
<1>1. touch = {i \in 1 .. Len(s) : s[i].from = t + 1 \/ s[i].to = t - 1}
  BY <1>0 DEF Touching
<1>2. CASE touch = {}
  <2> DEFINE g == GapFor(s, t)
             e == [from |-> t, to |-> t]
  <2>1. /\ g \in 1 .. Len(s) + 1 /\ g \in Int
        /\ \A i \in 1 .. g - 1 : s[i].to < t
        /\ \A i \in g .. Len(s) : t < s[i].from
    BY <1>0, GapForIs
  <2>2. e \in Interval /\ e.from = t /\ e.to = t
    BY <1>0 DEF Interval
  <2> HIDE DEF g, e
  <2>3. \A i \in 1 .. Len(s) : s[i].from # t + 1 /\ s[i].to # t - 1
    BY <1>1, <1>2
  <2>4. ASSUME NEW i \in 1 .. g - 1 PROVE s[i].to + 1 < e.from
    <3>1. i \in 1 .. Len(s)
      BY <1>0, <2>1
    <3>2. s[i].to \in Nat /\ s[i].to < t /\ s[i].to # t - 1
      BY <3>1, <2>1, <2>3, NormalElements
    <3> QED BY <3>2, <2>2, <1>0
  <2>5. ASSUME NEW i \in g .. Len(s) PROVE e.to + 1 < s[i].from
    <3>1. i \in 1 .. Len(s)
      BY <1>0, <2>1
    <3>2. s[i].from \in Nat /\ t < s[i].from /\ s[i].from # t + 1
      BY <3>1, <2>1, <2>3, NormalElements
    <3> QED BY <3>2, <2>2, <1>0
  <2>6. Normal(InsertAt(s, g, e))
    BY <2>1, <2>2, <2>4, <2>5, <1>0, InsertNormal
  <2> QED BY <1>2, <2>6 DEF AddText, g, e
<1>3. CASE touch # {} /\ \E i \in touch : touch = {i}
  <2>1. PICK i \in 1 .. Len(s) :
           /\ s[i].from = t + 1 \/ s[i].to = t - 1
           /\ \A j \in 1 .. Len(s) : j # i => s[j].from # t + 1 /\ s[j].to # t - 1
           /\ AddText(s, t) = [s EXCEPT ![i] = Grow(s[i], t)]
    BY <1>3, GrowIs
  <2> DEFINE e == Grow(s[i], t)
  <2>2. i \in 1 .. Len(s) /\ i \in Int /\ (s[i].from = t + 1 \/ s[i].to = t - 1)
    BY <2>1
  <2>3. \A j \in 1 .. Len(s) : j # i => s[j].from # t + 1 /\ s[j].to # t - 1
    BY <2>1
  <2>4. AddText(s, t) = [s EXCEPT ![i] = e]
    BY <2>1
  <2>5. /\ s[i] \in Interval /\ s[i].from \in Nat /\ s[i].to \in Nat
        /\ 1 <= s[i].from /\ s[i].from <= s[i].to
    BY <2>2, NormalElements
  <2>6. CASE s[i].from = t + 1
    <3>1. e \in Interval /\ e.from = t /\ e.to = s[i].to
      BY <2>5, <2>6, <1>0 DEF Grow, Interval
    <3> HIDE DEF e
    <3>2. ASSUME NEW j \in 1 .. i - 1 PROVE s[j].to + 1 < e.from
      <4>1. j \in 1 .. Len(s) /\ j < i /\ j # i
        BY <2>2, <1>0
      <4>2. s[j].to \in Nat /\ s[j].to + 1 < t + 1 /\ s[j].to # t - 1
        BY <4>1, <2>2, <2>3, <2>6, NormalElements
      <4> QED BY <4>2, <3>1, <1>0
    <3>3. ASSUME NEW j \in i + 1 .. Len(s) PROVE e.to + 1 < s[j].from
      <4>1. j \in 1 .. Len(s) /\ i < j
        BY <2>2, <1>0
      <4> QED BY <4>1, <2>2, <3>1, NormalElements
    <3>4. 1 <= e.from /\ e.from <= e.to
      BY <3>1, <2>5, <2>6, <1>0
    <3>5. Normal([s EXCEPT ![i] = e])
      BY <3>1, <3>2, <3>3, <3>4, <2>2, ReplaceNormal
    <3> QED BY <3>5, <2>4
  <2>7. CASE s[i].from # t + 1
    <3>1. e \in Interval /\ e.from = s[i].from /\ e.to = t
      BY <2>5, <2>7, <1>0 DEF Grow, Interval
    <3>2. s[i].to = t - 1
      BY <2>2, <2>7
    <3> HIDE DEF e
    <3>3. ASSUME NEW j \in 1 .. i - 1 PROVE s[j].to + 1 < e.from
      <4>1. j \in 1 .. Len(s) /\ j < i
        BY <2>2, <1>0
      <4> QED BY <4>1, <2>2, <3>1, NormalElements
    <3>4. ASSUME NEW j \in i + 1 .. Len(s) PROVE e.to + 1 < s[j].from
      <4>1. j \in 1 .. Len(s) /\ i < j /\ j # i
        BY <2>2, <1>0
      <4>2. s[j].from \in Nat /\ s[i].to + 1 < s[j].from /\ s[j].from # t + 1
        BY <4>1, <2>2, <2>3, NormalElements
      <4> QED BY <4>2, <3>1, <3>2, <1>0
    <3>5. 1 <= e.from /\ e.from <= e.to
      BY <3>1, <3>2, <2>5, <1>0
    <3>6. Normal([s EXCEPT ![i] = e])
      BY <3>1, <3>3, <3>4, <3>5, <2>2, ReplaceNormal
    <3> QED BY <3>6, <2>4
  <2> QED BY <2>6, <2>7
<1>4. CASE touch # {} /\ ~ (\E i \in touch : touch = {i})
  <2>1. PICK a \in 1 .. Len(s) :
           /\ a + 1 \in 1 .. Len(s) /\ s[a].to = t - 1 /\ s[a + 1].from = t + 1
           /\ AddText(s, t) = RemoveAt([s EXCEPT ![a] = [@ EXCEPT !.to = s[a + 1].to]], a + 1)
    BY <1>4, JoinIs
  <2> DEFINE b == a + 1
  <2>2. a \in 1 .. Len(s) /\ b \in 1 .. Len(s) /\ a \in Int /\ b \in Int /\ a < b
    BY <2>1
  <2>3. /\ s[a].from \in Nat /\ s[a].to \in Nat /\ 1 <= s[a].from /\ s[a].from <= s[a].to
        /\ s[b].from \in Nat /\ s[b].to \in Nat /\ 1 <= s[b].from /\ s[b].from <= s[b].to
        /\ s[a].to + 1 < s[b].from
    BY <2>2, NormalElements
  <2> DEFINE e == [s[a] EXCEPT !.to = s[b].to]
             r == [s EXCEPT ![a] = e]
             q == RemoveAt(s, a + 1)
  <2>7. AddText(s, t) = RemoveAt(r, a + 1)
    BY <2>1
  <2>5. b = a + 1
    OBVIOUS
  <2>8. e \in Interval /\ e.from = s[a].from /\ e.to = s[b].to
    BY <2>2, <2>3, <2>5, NormalElements DEF Interval
  <2> HIDE DEF e
  <2>9. /\ r \in Seq(Interval) /\ Len(r) = Len(s)
        /\ \A k \in 1 .. Len(s) : r[k] = IF k = a THEN e ELSE s[k]
    BY <1>0, <2>2, <2>8
  <2>10. a + 1 \in 1 .. Len(s)
    BY <2>2, <2>5
  <2> HIDE DEF r
  <2>11. /\ RemoveAt(r, a + 1) \in Seq(Interval) /\ Len(RemoveAt(r, a + 1)) = Len(s) - 1
         /\ \A k \in 1 .. Len(s) - 1 :
              RemoveAt(r, a + 1)[k] = IF k < a + 1 THEN r[k] ELSE r[k + 1]
    <3>1. r \in Seq(Interval) /\ Len(r) = Len(s)
      BY <2>9
    <3>2. a + 1 \in 1 .. Len(r)
      BY <3>1, <2>10
    <3>3. RemoveAt(r, a + 1) \in Seq(Interval)
      BY <3>1, <3>2, RemoveAtIs
    <3>4. Len(RemoveAt(r, a + 1)) = Len(r) - 1
      BY <3>1, <3>2, RemoveAtIs
    <3>5. \A k \in 1 .. Len(r) - 1 :
            RemoveAt(r, a + 1)[k] = IF k < a + 1 THEN r[k] ELSE r[k + 1]
      BY <3>1, <3>2, RemoveAtIs
    <3> QED BY <3>1, <3>3, <3>4, <3>5
  <2>12. /\ q \in Seq(Interval) /\ Len(q) = Len(s) - 1
         /\ \A k \in 1 .. Len(s) - 1 : q[k] = IF k < a + 1 THEN s[k] ELSE s[k + 1]
    <3>1. q \in Seq(Interval)
      BY <1>0, <2>10, RemoveAtIs
    <3>2. Len(q) = Len(s) - 1
      BY <1>0, <2>10, RemoveAtIs
    <3>3. \A k \in 1 .. Len(s) - 1 : q[k] = IF k < a + 1 THEN s[k] ELSE s[k + 1]
      BY <1>0, <2>10, RemoveAtIs
    <3> QED BY <3>1, <3>2, <3>3
  <2>13. Normal(q)
    BY <2>10, RemoveNormal
  <2> HIDE DEF q
  <2>14. a \in 1 .. Len(s) - 1
    BY <2>10, <2>2, <1>0
  <2>15. RemoveAt(r, a + 1) = [q EXCEPT ![a] = e]
    <3> DEFINE x == RemoveAt(r, a + 1)
               y == [q EXCEPT ![a] = e]
    <3>1. /\ y \in Seq(Interval) /\ Len(y) = Len(s) - 1
          /\ \A k \in 1 .. Len(s) - 1 : y[k] = IF k = a THEN e ELSE q[k]
      BY <2>8, <2>12, <2>14
    <3>2. x \in Seq(Interval) /\ Len(x) = Len(s) - 1
      BY <2>11
    <3>3. ASSUME NEW k \in 1 .. Len(s) - 1 PROVE x[k] = y[k]
      <4>0. k \in Int /\ k \in 1 .. Len(s) /\ k + 1 \in 1 .. Len(s)
        BY <1>0
      <4>1. x[k] = IF k < a + 1 THEN r[k] ELSE r[k + 1]
        BY <2>11
      <4>2. k + 1 # a \/ k < a + 1
        BY <4>0, <2>2
      <4>3. x[k] = IF k = a THEN e ELSE IF k < a + 1 THEN s[k] ELSE s[k + 1]
        BY <4>0, <4>1, <4>2, <2>2, <2>9
      <4> QED BY <4>3, <3>1, <2>12, <4>0, <2>2
    <3> HIDE DEF x, y
    <3>4. x = y
      BY <3>1, <3>2, <3>3, SeqEqual
    <3> QED BY <3>4 DEF x, y
  <2>16. ASSUME NEW j \in 1 .. a - 1 PROVE q[j].to + 1 < e.from
    <3>1. j \in 1 .. Len(s) - 1 /\ j \in 1 .. Len(s) /\ j < a /\ j < a + 1
      BY <2>14, <2>2, <1>0
    <3> QED BY <3>1, <2>2, <2>8, <2>12, NormalElements
  <2>17. ASSUME NEW j \in a + 1 .. Len(q) PROVE e.to + 1 < q[j].from
    <3>1. j \in 1 .. Len(s) - 1 /\ j + 1 \in 1 .. Len(s) /\ b < j + 1 /\ ~ (j < a + 1)
      BY <2>12, <2>14, <2>2, <2>5, <1>0
    <3> QED BY <3>1, <2>2, <2>8, <2>12, NormalElements
  <2>18. 1 <= e.from /\ e.from <= e.to
    BY <2>3, <2>8
  <2>19. Normal([q EXCEPT ![a] = e])
    BY <2>8, <2>12, <2>13, <2>14, <2>16, <2>17, <2>18, ReplaceNormal
  <2> QED BY <2>7, <2>15, <2>19
<1> QED BY <1>2, <1>3, <1>4

(* mark_as_read as a whole.                                                *)
LEMMA MarkAsReadNormal ==
  ASSUME NEW s, Normal(s), NEW t \in Nat \ {0}
  PROVE  Normal(MarkAsRead(s, t))
BY AddTextNormal DEF MarkAsRead

(* mark_as_unread keeps the list normal: it drops, cuts or splits.         *)
LEMMA MarkAsUnreadNormal ==
  ASSUME NEW s, Normal(s), NEW t \in Nat
  PROVE  Normal(MarkAsUnread(s, t))
<1> SUFFICES ASSUME Marked(s, t) PROVE Normal(CutText(s, t))
  BY DEF MarkAsUnread
<1> DEFINE i  == CHOOSE k \in DOMAIN s : Covers(s[k], t)
           iv == s[i]
<1>0. s \in Seq(Interval) /\ Len(s) \in Nat /\ DOMAIN s = 1 .. Len(s)
  BY DEF Normal
<1>1. i \in 1 .. Len(s) /\ i \in Int /\ Covers(s[i], t)
  BY <1>0 DEF Marked
<1> HIDE DEF i
<1>2. iv \in Interval /\ iv.from \in Nat /\ iv.to \in Nat /\ 1 <= iv.from /\ iv.from <= t /\ t <= iv.to
  BY <1>1, NormalElements DEF Covers
<1>3. CutText(s, t) =
        IF iv.from = iv.to THEN RemoveAt(s, i)
        ELSE IF iv.from = t THEN [s EXCEPT ![i] = [@ EXCEPT !.from = t + 1]]
        ELSE IF iv.to = t THEN [s EXCEPT ![i] = [@ EXCEPT !.to = t - 1]]
        ELSE InsertAt([s EXCEPT ![i] = [@ EXCEPT !.to = t - 1]],
                      i + 1, [from |-> t + 1, to |-> iv.to])
  BY DEF CutText, i
<1>4. ASSUME NEW j \in 1 .. i - 1 PROVE j \in 1 .. Len(s) /\ s[j].to + 1 < iv.from
  <2>1. j \in 1 .. Len(s) /\ j < i
    BY <1>0, <1>1
  <2> QED BY <2>1, <1>1, NormalElements
<1>5. ASSUME NEW j \in i + 1 .. Len(s) PROVE j \in 1 .. Len(s) /\ iv.to + 1 < s[j].from
  <2>1. j \in 1 .. Len(s) /\ i < j
    BY <1>0, <1>1
  <2> QED BY <2>1, <1>1, NormalElements
<1>6. CASE iv.from = iv.to
  BY <1>1, <1>3, <1>6, RemoveNormal
<1>7. CASE iv.from # iv.to /\ iv.from = t
  <2> DEFINE e == [iv EXCEPT !.from = t + 1]
  <2>1. e \in Interval /\ e.from = t + 1 /\ e.to = iv.to
    BY <1>2 DEF Interval
  <2>2. CutText(s, t) = [s EXCEPT ![i] = e]
    BY <1>3, <1>7
  <2> HIDE DEF e
  <2>3. 1 <= e.from /\ e.from <= e.to
    BY <2>1, <1>2, <1>7
  <2>4. \A j \in 1 .. i - 1 : s[j].to + 1 < e.from
    <3> TAKE j \in 1 .. i - 1
    <3>1. s[j].to \in Nat /\ s[j].to + 1 < iv.from
      BY <1>4, NormalElements
    <3> QED BY <3>1, <2>1, <1>2, <1>7
  <2>5. \A j \in i + 1 .. Len(s) : e.to + 1 < s[j].from
    BY <2>1, <1>5
  <2>6. Normal([s EXCEPT ![i] = e])
    BY <2>1, <2>3, <2>4, <2>5, <1>1, ReplaceNormal
  <2> QED BY <2>2, <2>6
<1>8. ASSUME iv.from # t
      PROVE  LET e == [iv EXCEPT !.to = t - 1]
             IN  /\ e \in Interval /\ e.from = iv.from /\ e.to = t - 1
                 /\ Normal([s EXCEPT ![i] = e])
  <2> DEFINE e == [iv EXCEPT !.to = t - 1]
  <2>1. e \in Interval /\ e.from = iv.from /\ e.to = t - 1
    BY <1>2, <1>8 DEF Interval
  <2> HIDE DEF e
  <2>3. 1 <= e.from /\ e.from <= e.to
    BY <2>1, <1>2, <1>8
  <2>4. \A j \in 1 .. i - 1 : s[j].to + 1 < e.from
    BY <2>1, <1>4
  <2>5. \A j \in i + 1 .. Len(s) : e.to + 1 < s[j].from
    <3> TAKE j \in i + 1 .. Len(s)
    <3>1. s[j].from \in Nat /\ iv.to + 1 < s[j].from
      BY <1>5, NormalElements
    <3> QED BY <3>1, <2>1, <1>2
  <2>6. Normal([s EXCEPT ![i] = e])
    BY <2>1, <2>3, <2>4, <2>5, <1>1, ReplaceNormal
  <2> QED BY <2>1, <2>6 DEF e
<1>9. CASE iv.from # iv.to /\ iv.from # t /\ iv.to = t
  BY <1>3, <1>8, <1>9
<1>10. CASE iv.from # iv.to /\ iv.from # t /\ iv.to # t
  <2> DEFINE e == [iv EXCEPT !.to = t - 1]
             r == [s EXCEPT ![i] = e]
             f == [from |-> t + 1, to |-> iv.to]
  <2>1. e \in Interval /\ e.from = iv.from /\ e.to = t - 1 /\ Normal(r)
    BY <1>8, <1>10
  <2>2. CutText(s, t) = InsertAt(r, i + 1, f)
    BY <1>3, <1>10
  <2>3. f \in Interval /\ f.from = t + 1 /\ f.to = iv.to
    BY <1>2 DEF Interval
  <2> HIDE DEF e, f
  <2>4. /\ r \in Seq(Interval) /\ Len(r) = Len(s)
        /\ \A k \in 1 .. Len(s) : r[k] = IF k = i THEN e ELSE s[k]
    BY <1>0, <1>1, <2>1
  <2> HIDE DEF r
  <2>5. i + 1 \in 1 .. Len(r) + 1
    BY <1>0, <1>1, <2>4
  <2>6. 1 <= f.from /\ f.from <= f.to
    BY <1>2, <1>10, <2>3
  <2>7. ASSUME NEW j \in 1 .. (i + 1) - 1 PROVE r[j].to + 1 < f.from
    <3>1. j \in 1 .. Len(s) /\ (j = i \/ j \in 1 .. i - 1)
      BY <1>0, <1>1
    <3>2. CASE j = i
      BY <3>2, <3>1, <2>1, <2>3, <2>4, <1>2
    <3>3. CASE j \in 1 .. i - 1
      <4>1. r[j] = s[j] /\ s[j].to \in Nat /\ s[j].to + 1 < iv.from
        BY <3>1, <3>3, <2>4, <1>1, <1>4, NormalElements
      <4> QED BY <4>1, <2>3, <1>2
    <3> QED BY <3>1, <3>2, <3>3
  <2>8. ASSUME NEW j \in i + 1 .. Len(r) PROVE f.to + 1 < r[j].from
    <3>1. j \in i + 1 .. Len(s) /\ j # i
      BY <2>4, <1>1
    <3> QED BY <3>1, <2>3, <2>4, <1>5
  <2>9. Normal(InsertAt(r, i + 1, f))
    BY <2>1, <2>3, <2>5, <2>6, <2>7, <2>8, InsertNormal
  <2> QED BY <2>2, <2>9
<1> QED BY <1>6, <1>7, <1>9, <1>10

(* Subscribing, "only" and the skip write a normal list.                   *)
LEMMA UpToNormal ==
  ASSUME NEW n \in Int
  PROVE  Normal(UpTo(n))
<1>1. CASE n > 1
  <2>1. UpTo(n) = << [from |-> 1, to |-> n - 1] >>
    BY <1>1 DEF UpTo
  <2>2. [from |-> 1, to |-> n - 1] \in Interval
    BY <1>1 DEF Interval
  <2>3. UpTo(n) \in Seq(Interval) /\ Len(UpTo(n)) = 1
        /\ UpTo(n)[1] = [from |-> 1, to |-> n - 1]
    BY <2>1, <2>2
  <2>4. \A i \in DOMAIN UpTo(n) : i = 1
    BY <2>3
  <2> QED BY <1>1, <2>3, <2>4 DEF Normal, NormalForm
<1>2. CASE ~ (n > 1)
  <2>1. UpTo(n) = <<>>
    BY <1>2 DEF UpTo
  <2> QED BY <2>1 DEF Normal, NormalForm
<1> QED BY <1>1, <1>2

-----------------------------------------------------------------------------
(* FirstUnread is what next_text takes it for: the lowest text that the    *)
(* list does not mark.                                                     *)
LEMMA FirstUnreadIs ==
  ASSUME NEW s, Normal(s)
  PROVE  /\ FirstUnread(s) \in Nat \ {0}
         /\ ~ Marked(s, FirstUnread(s))
         /\ \A t \in 1 .. FirstUnread(s) - 1 : Marked(s, t)
<1>0. s \in Seq(Interval) /\ Len(s) \in Nat /\ DOMAIN s = 1 .. Len(s)
  BY DEF Normal
<1>1. CASE s = <<>>
  BY <1>1, <1>0 DEF FirstUnread, Marked
<1>2. CASE s # <<>>
  <2>1. 1 \in 1 .. Len(s) /\ 1 \in DOMAIN s
    BY <1>0, <1>2
  <2>2. s[1].from \in Nat /\ s[1].to \in Nat /\ 1 <= s[1].from /\ s[1].from <= s[1].to
    BY <2>1, NormalElements
  <2>3. ASSUME NEW i \in 1 .. Len(s)
        PROVE  /\ s[i].from \in Nat
               /\ i = 1 \/ s[1].to + 1 < s[i].from
    <3>1. i = 1 \/ 1 < i
      BY <1>0
    <3> QED BY <3>1, <2>1, NormalElements
  <2>4. CASE s[1].from > 1
    <3>1. FirstUnread(s) = 1
      BY <2>4 DEF FirstUnread
    <3>2. ASSUME NEW i \in DOMAIN s PROVE ~ Covers(s[i], 1)
      BY <1>0, <2>2, <2>3, <2>4 DEF Covers
    <3> QED BY <3>1, <3>2 DEF Marked
  <2>5. CASE ~ (s[1].from > 1)
    <3>1. FirstUnread(s) = s[1].to + 1 /\ s[1].from = 1
      BY <1>2, <2>2, <2>5 DEF FirstUnread
    <3>2. ASSUME NEW i \in DOMAIN s PROVE ~ Covers(s[i], s[1].to + 1)
      <4>1. i \in 1 .. Len(s)
        BY <1>0
      <4> QED BY <4>1, <2>2, <2>3 DEF Covers
    <3>3. ASSUME NEW t \in 1 .. s[1].to PROVE Marked(s, t)
      <4>1. Covers(s[1], t)
        BY <3>1 DEF Covers
      <4> QED BY <4>1, <2>1 DEF Marked
    <3>4. FirstUnread(s) - 1 = s[1].to /\ FirstUnread(s) \in Nat \ {0}
      BY <3>1, <2>2
    <3> QED BY <3>1, <3>2, <3>3, <3>4 DEF Marked
  <2> QED BY <2>4, <2>5
<1> QED BY <1>1, <1>2
-----------------------------------------------------------------------------
(* The texts a list marks, one way or the other.                           *)
LEMMA MarkedTextsAre ==
  ASSUME NEW s, Normal(s)
  PROVE  MarkedTexts(s) = {u \in Nat \ {0} : Marked(s, u)}
<1>1. DOMAIN s = 1 .. Len(s)
  BY DEF Normal
<1>2. ASSUME NEW i \in 1 .. Len(s), NEW u
      PROVE  u \in s[i].from .. s[i].to <=> u \in Nat \ {0} /\ Covers(s[i], u)
  <2>1. s[i].from \in Nat /\ s[i].to \in Nat /\ 1 <= s[i].from
    BY NormalElements
  <2> QED BY <2>1 DEF Covers
<1>3. ASSUME NEW u
      PROVE  u \in MarkedTexts(s) <=> u \in Nat \ {0} /\ Marked(s, u)
  BY <1>1, <1>2 DEF MarkedTexts, Marked
<1> QED BY <1>3

(* What an interval put in, put in the place of another or taken out does  *)
(* to the texts that are marked.                                           *)
LEMMA InsertMarks ==
  ASSUME NEW s, s \in Seq(Interval), NEW g \in 1 .. Len(s) + 1, NEW e \in Interval, NEW u
  PROVE  Marked(InsertAt(s, g, e), u) <=> Marked(s, u) \/ Covers(e, u)
<1> DEFINE n == InsertAt(s, g, e)
<1>a. s \in Seq(Interval) /\ g \in 1 .. Len(s) + 1 /\ e \in Interval
  OBVIOUS
<1>b. g \in Int /\ Len(s) \in Nat
  BY <1>a
<1>1. /\ n \in Seq(Interval) /\ Len(n) = Len(s) + 1
      /\ \A k \in 1 .. Len(s) + 1 :
           n[k] = IF k < g THEN s[k] ELSE IF k = g THEN e ELSE s[k - 1]
  <2>1. InsertAt(s, g, e) \in Seq(Interval)
    BY <1>a, InsertAtIs
  <2>2. Len(InsertAt(s, g, e)) = Len(s) + 1
    BY <1>a, InsertAtIs
  <2>3. \A k \in 1 .. Len(s) + 1 : InsertAt(s, g, e)[k] =
          IF k < g THEN s[k] ELSE IF k = g THEN e ELSE s[k - 1]
    BY <1>a, InsertAtIs
  <2> QED BY <2>1, <2>2, <2>3
<1>0. Len(s) \in Nat /\ g \in Int /\ DOMAIN s = 1 .. Len(s)
  BY <1>a, <1>b
<1> HIDE DEF n
<1>2. DOMAIN n = 1 .. Len(s) + 1
  BY <1>1
<1>3. ASSUME NEW k \in 1 .. Len(s) + 1, Covers(n[k], u)
      PROVE  Marked(s, u) \/ Covers(e, u)
  <2>1. CASE k < g
    <3>1. k \in 1 .. Len(s) /\ n[k] = s[k]
      BY <2>1, <1>0, <1>1
    <3> QED BY <3>1, <1>0, <1>3 DEF Marked
  <2>2. CASE k = g
    BY <2>2, <1>1, <1>3, <1>0
  <2>3. CASE k > g
    <3>1. k - 1 \in 1 .. Len(s) /\ n[k] = s[k - 1]
      BY <2>3, <1>0, <1>1
    <3> QED BY <3>1, <1>0, <1>3 DEF Marked
  <2>4. k < g \/ k = g \/ k > g
    BY <1>0
  <2> QED BY <2>1, <2>2, <2>3, <2>4
<1>4. ASSUME NEW k \in 1 .. Len(s), Covers(s[k], u)
      PROVE  Marked(n, u)
  <2>1. CASE k < g
    <3>1. k \in 1 .. Len(s) + 1 /\ n[k] = s[k]
      BY <2>1, <1>0, <1>1
    <3> QED BY <3>1, <1>2, <1>4 DEF Marked
  <2>2. CASE k >= g
    <3>1. k + 1 \in 1 .. Len(s) + 1 /\ ~(k + 1 < g) /\ k + 1 # g /\ (k + 1) - 1 = k
      BY <2>2, <1>0
    <3>2. n[k + 1] = s[k]
      BY <3>1, <1>1
    <3> QED BY <3>1, <3>2, <1>2, <1>4 DEF Marked
  <2>3. k < g \/ k >= g
    BY <1>0
  <2> QED BY <2>1, <2>2, <2>3
<1>5. n[g] = e /\ g \in 1 .. Len(s) + 1
  BY <1>a, <1>b, <1>1
<1> QED BY <1>0, <1>2, <1>3, <1>4, <1>5 DEF Marked, n

LEMMA ReplaceMarks ==
  ASSUME NEW s \in Seq(Interval), NEW g \in 1 .. Len(s), NEW e \in Interval, NEW u
  PROVE  Marked([s EXCEPT ![g] = e], u) <=>
           Covers(e, u) \/ \E i \in 1 .. Len(s) : i # g /\ Covers(s[i], u)
<1> DEFINE n == [s EXCEPT ![g] = e]
<1>1. DOMAIN n = 1 .. Len(s) /\ \A k \in 1 .. Len(s) : n[k] = IF k = g THEN e ELSE s[k]
  OBVIOUS
<1> HIDE DEF n
<1> QED BY <1>1 DEF Marked, n

LEMMA RemoveMarks ==
  ASSUME NEW s \in Seq(Interval), NEW g \in 1 .. Len(s), NEW u
  PROVE  Marked(RemoveAt(s, g), u) <=> \E i \in 1 .. Len(s) : i # g /\ Covers(s[i], u)
<1> DEFINE n == RemoveAt(s, g)
<1>0. Len(s) \in Nat /\ g \in Int
  OBVIOUS
<1>1. /\ n \in Seq(Interval) /\ Len(n) = Len(s) - 1
      /\ \A k \in 1 .. Len(s) - 1 : n[k] = IF k < g THEN s[k] ELSE s[k + 1]
  BY RemoveAtIs
<1> HIDE DEF n
<1>2. DOMAIN n = 1 .. Len(s) - 1
  BY <1>1
<1>3. ASSUME NEW k \in 1 .. Len(s) - 1, Covers(n[k], u)
      PROVE  \E i \in 1 .. Len(s) : i # g /\ Covers(s[i], u)
  <2>1. CASE k < g
    BY <2>1, <1>0, <1>1, <1>3
  <2>2. CASE ~(k < g)
    <3>1. k + 1 \in 1 .. Len(s) /\ k + 1 # g /\ n[k] = s[k + 1]
      BY <2>2, <1>0, <1>1
    <3> QED BY <3>1, <1>3
  <2> QED BY <2>1, <2>2
<1>4. ASSUME NEW i \in 1 .. Len(s), i # g, Covers(s[i], u)
      PROVE  \E k \in 1 .. Len(s) - 1 : Covers(n[k], u)
  <2>1. CASE i < g
    <3>1. i \in 1 .. Len(s) - 1 /\ n[i] = s[i]
      BY <2>1, <1>0, <1>1
    <3> QED BY <3>1, <1>4
  <2>2. CASE i > g
    <3>1. i - 1 \in 1 .. Len(s) - 1 /\ ~(i - 1 < g) /\ (i - 1) + 1 = i
      BY <2>2, <1>0
    <3>2. n[i - 1] = s[i]
      BY <3>1, <1>1
    <3> QED BY <3>1, <3>2, <1>4
  <2>3. i < g \/ i > g
    BY <1>0, <1>4
  <2> QED BY <2>1, <2>2, <2>3
<1> QED BY <1>2, <1>3, <1>4 DEF Marked, n

(* mark_as_read marks the text and no other.                               *)
LEMMA MarkAsReadMarks ==
  ASSUME NEW s, Normal(s), NEW t \in Nat \ {0}, NEW u \in Nat
  PROVE  Marked(MarkAsRead(s, t), u) <=> Marked(s, u) \/ u = t
<1>0. s \in Seq(Interval) /\ Len(s) \in Nat /\ DOMAIN s = 1 .. Len(s) /\ t \in Nat /\ 1 <= t
  BY DEF Normal
<1>a. Marked(s, u) <=> \E i \in 1 .. Len(s) : Covers(s[i], u)
  BY <1>0 DEF Marked
<1>1. CASE Marked(s, t)
  BY <1>1 DEF MarkAsRead
<1>2. CASE ~Marked(s, t) /\ Touching(s, t) = {}
  <2> DEFINE e == [from |-> t, to |-> t]
  <2>1. e \in Interval /\ (Covers(e, u) <=> u = t)
    BY <1>0 DEF Interval, Covers
  <2>2. GapFor(s, t) \in 1 .. Len(s) + 1
    BY <1>0, <1>2, GapForIs DEF Normal
  <2>3. MarkAsRead(s, t) = InsertAt(s, GapFor(s, t), e)
    BY <1>2 DEF MarkAsRead, AddText
  <2> HIDE DEF e
  <2> QED BY <2>1, <2>2, <2>3, <1>0, InsertMarks
<1>3. CASE ~Marked(s, t) /\ \E i \in Touching(s, t) : Touching(s, t) = {i}
  <2>1. PICK i \in 1 .. Len(s) :
           /\ s[i].from = t + 1 \/ s[i].to = t - 1
           /\ AddText(s, t) = [s EXCEPT ![i] = Grow(s[i], t)]
    BY <1>3, GrowIs
  <2> DEFINE e == Grow(s[i], t)
  <2>2. s[i] \in Interval /\ s[i].from \in Nat /\ s[i].to \in Nat /\ s[i].from <= s[i].to
    BY NormalElements
  <2>3. e \in Interval
    BY <1>0, <2>2 DEF Grow, Interval
  <2>4. Covers(e, u) <=> Covers(s[i], u) \/ u = t
    <3>1. CASE s[i].from = t + 1
      <4>1. e.from = t /\ e.to = s[i].to
        BY <2>2, <3>1 DEF Grow, Interval
      <4> QED BY <4>1, <2>2, <3>1, <1>0 DEF Covers
    <3>2. CASE s[i].from # t + 1
      <4>1. e.from = s[i].from /\ e.to = t /\ s[i].to = t - 1
        BY <2>1, <2>2, <3>2 DEF Grow, Interval
      <4> QED BY <4>1, <2>2, <1>0 DEF Covers
    <3> QED BY <3>1, <3>2
  <2>5. MarkAsRead(s, t) = [s EXCEPT ![i] = e]
    BY <1>3, <2>1 DEF MarkAsRead
  <2> HIDE DEF e
  <2>6. Marked([s EXCEPT ![i] = e], u) <=>
          Covers(e, u) \/ \E k \in 1 .. Len(s) : k # i /\ Covers(s[k], u)
    BY <2>3, <1>0, ReplaceMarks
  <2> QED BY <2>4, <2>5, <2>6, <1>a
<1>4. CASE ~Marked(s, t) /\ Touching(s, t) # {} /\ ~ (\E i \in Touching(s, t) : Touching(s, t) = {i})
  <2>1. PICK a \in 1 .. Len(s) :
           /\ a + 1 \in 1 .. Len(s) /\ s[a].to = t - 1 /\ s[a + 1].from = t + 1
           /\ AddText(s, t) = RemoveAt([s EXCEPT ![a] = [@ EXCEPT !.to = s[a + 1].to]], a + 1)
    BY <1>4, JoinIs
  <2> DEFINE e == [s[a] EXCEPT !.to = s[a + 1].to]
             r == [s EXCEPT ![a] = e]
  <2>2. /\ s[a] \in Interval /\ s[a].from \in Nat /\ s[a].to \in Nat /\ s[a].from <= s[a].to
        /\ s[a + 1] \in Interval /\ s[a + 1].from \in Nat /\ s[a + 1].to \in Nat
        /\ s[a + 1].from <= s[a + 1].to
    BY <2>1, NormalElements
  <2>3. e \in Interval /\ e.from = s[a].from /\ e.to = s[a + 1].to
    BY <2>2 DEF Interval
  <2>4. MarkAsRead(s, t) = RemoveAt(r, a + 1)
    BY <1>4, <2>1 DEF MarkAsRead
  <2> HIDE DEF e
  <2>5. Covers(e, u) <=> Covers(s[a], u) \/ u = t \/ Covers(s[a + 1], u)
    BY <2>1, <2>2, <2>3, <1>0 DEF Covers
  <2>6. /\ r \in Seq(Interval) /\ Len(r) = Len(s)
        /\ \A k \in 1 .. Len(s) : r[k] = IF k = a THEN e ELSE s[k]
    BY <1>0, <2>3
  <2> HIDE DEF r
  <2>7. Marked(MarkAsRead(s, t), u) <=> \E k \in 1 .. Len(s) : k # a + 1 /\ Covers(r[k], u)
    BY <2>1, <2>4, <2>6, RemoveMarks
  <2>8. a # a + 1
    BY <1>0
  <2> QED BY <2>1, <2>5, <2>6, <2>7, <2>8, <1>a
<1> QED BY <1>1, <1>2, <1>3, <1>4

(* mark_as_unread unmarks the text and no other.                           *)
LEMMA MarkAsUnreadMarks ==
  ASSUME NEW s, Normal(s), NEW t \in Nat, NEW u \in Nat
  PROVE  Marked(MarkAsUnread(s, t), u) <=> Marked(s, u) /\ u # t
<1>0. s \in Seq(Interval) /\ Len(s) \in Nat /\ DOMAIN s = 1 .. Len(s)
  BY DEF Normal
<1>1. CASE ~Marked(s, t)
  BY <1>1 DEF MarkAsUnread
<1>2. CASE Marked(s, t)
  <2> DEFINE i  == CHOOSE k \in DOMAIN s : Covers(s[k], t)
             iv == s[i]
             lo == [iv EXCEPT !.to = t - 1]
             hi == [iv EXCEPT !.from = t + 1]
             up == [from |-> t + 1, to |-> iv.to]
  <2>1. i \in 1 .. Len(s) /\ i \in Int /\ Covers(s[i], t)
    BY <1>0, <1>2 DEF Marked
  <2>2. MarkAsUnread(s, t) =
          IF iv.from = iv.to THEN RemoveAt(s, i)
          ELSE IF iv.from = t THEN [s EXCEPT ![i] = hi]
          ELSE IF iv.to = t THEN [s EXCEPT ![i] = lo]
          ELSE InsertAt([s EXCEPT ![i] = lo], i + 1, up)
    BY <1>2 DEF MarkAsUnread, CutText
  <2> HIDE DEF i
  <2>3. /\ iv \in Interval /\ iv.from \in Nat /\ iv.to \in Nat
        /\ 1 <= iv.from /\ iv.from <= t /\ t <= iv.to
    BY <2>1, NormalElements DEF Covers
  <2>4. /\ hi \in Interval /\ hi.from = t + 1 /\ hi.to = iv.to
        /\ up \in Interval /\ up.from = t + 1 /\ up.to = iv.to
    BY <2>3 DEF Interval
  <2>5. iv.from # t => lo \in Interval /\ lo.from = iv.from /\ lo.to = t - 1
    BY <2>3 DEF Interval
  <2> HIDE DEF iv, lo, hi, up
  <2>6. ASSUME NEW k \in 1 .. Len(s), k # i PROVE ~Covers(s[k], t)
    <3>1. k < i \/ i < k
      BY <2>1, <2>6
    <3>2. (k < i => s[k].to + 1 < iv.from) /\ (i < k => iv.to + 1 < s[k].from)
      BY <2>1, NormalElements DEF iv
    <3>3. s[k].from \in Nat /\ s[k].to \in Nat
      BY NormalElements
    <3> QED BY <3>1, <3>2, <3>3, <2>3 DEF Covers
  <2> DEFINE Rest == \E k \in 1 .. Len(s) : k # i /\ Covers(s[k], u)
  <2>7. Marked(s, u) /\ u # t <=> Rest \/ (Covers(iv, u) /\ u # t)
    BY <1>0, <2>1, <2>6 DEF Marked, iv
  <2>8. CASE iv.from = iv.to
    <3>1. Marked(MarkAsUnread(s, t), u) <=> Rest
      BY <1>0, <2>1, <2>2, <2>8, RemoveMarks
    <3>2. ~(Covers(iv, u) /\ u # t)
      BY <2>3, <2>8 DEF Covers
    <3> QED BY <3>1, <3>2, <2>7
  <2>9. CASE iv.from # iv.to /\ iv.from = t
    <3>1. Marked(MarkAsUnread(s, t), u) <=> Rest \/ Covers(hi, u)
      <4>1. Marked([s EXCEPT ![i] = hi], u) <=> Rest \/ Covers(hi, u)
        BY <1>0, <2>1, <2>4, ReplaceMarks
      <4>2. MarkAsUnread(s, t) = [s EXCEPT ![i] = hi]
        BY <2>2, <2>9
      <4> QED BY <4>1, <4>2
    <3>2. Covers(hi, u) <=> Covers(iv, u) /\ u # t
      BY <2>3, <2>4, <2>9 DEF Covers
    <3> QED BY <3>1, <3>2, <2>7
  <2>10. CASE iv.from # iv.to /\ iv.from # t /\ iv.to = t
    <3>1. Marked(MarkAsUnread(s, t), u) <=> Rest \/ Covers(lo, u)
      <4>1. Marked([s EXCEPT ![i] = lo], u) <=> Rest \/ Covers(lo, u)
        BY <1>0, <2>1, <2>5, <2>10, ReplaceMarks
      <4>2. MarkAsUnread(s, t) = [s EXCEPT ![i] = lo]
        BY <2>2, <2>10
      <4> QED BY <4>1, <4>2
    <3>2. Covers(lo, u) <=> Covers(iv, u) /\ u # t
      BY <2>3, <2>5, <2>10 DEF Covers
    <3> QED BY <3>1, <3>2, <2>7
  <2>11. CASE iv.from # iv.to /\ iv.from # t /\ iv.to # t
    <3> DEFINE r == [s EXCEPT ![i] = lo]
    <3>1. r \in Seq(Interval) /\ Len(r) = Len(s)
      BY <1>0, <2>1, <2>5, <2>11
    <3>2. Marked(r, u) <=> Rest \/ Covers(lo, u)
      BY <1>0, <2>1, <2>5, <2>11, ReplaceMarks
    <3>3. MarkAsUnread(s, t) = InsertAt(r, i + 1, up)
      BY <2>2, <2>11
    <3> HIDE DEF r
    <3>4. i + 1 \in 1 .. Len(r) + 1
      BY <1>0, <2>1, <3>1
    <3>5. Marked(MarkAsUnread(s, t), u) <=> Rest \/ Covers(lo, u) \/ Covers(up, u)
      BY <2>4, <3>1, <3>2, <3>3, <3>4, InsertMarks
    <3>6. Covers(lo, u) \/ Covers(up, u) <=> Covers(iv, u) /\ u # t
      BY <2>3, <2>4, <2>5, <2>11 DEF Covers
    <3> QED BY <3>5, <3>6, <2>7
  <2> QED BY <2>8, <2>9, <2>10, <2>11
<1> QED BY <1>1, <1>2

(* What subscribing, "only" and the skip write.                            *)
LEMMA UpToMarks ==
  ASSUME NEW n \in Int, NEW u \in Nat \ {0}
  PROVE  Marked(UpTo(n), u) <=> u < n
<1>1. CASE n > 1
  <2>1. UpTo(n) = << [from |-> 1, to |-> n - 1] >>
    BY <1>1 DEF UpTo
  <2>2. DOMAIN UpTo(n) = {1} /\ UpTo(n)[1] = [from |-> 1, to |-> n - 1]
    BY <2>1
  <2> QED BY <2>2, <1>1 DEF Marked, Covers
<1>2. CASE ~ (n > 1)
  <2>1. UpTo(n) = <<>>
    BY <1>2 DEF UpTo
  <2> QED BY <2>1, <1>2 DEF Marked
<1> QED BY <1>1, <1>2

(* A list with nothing above its first unread text marks what is below.    *)
LEMMA NothingAboveMarks ==
  ASSUME NEW s, Normal(s), NothingAbove(s), NEW u \in Nat \ {0}
  PROVE  Marked(s, u) <=> u < FirstUnread(s)
<1>0. s \in Seq(Interval) /\ Len(s) \in Nat /\ DOMAIN s = 1 .. Len(s)
  BY DEF Normal
<1>1. CASE s = <<>>
  BY <1>1, <1>0 DEF FirstUnread, Marked
<1>2. CASE s # <<>>
  <2>1. s[1].from <= 1 /\ Len(s) = 1
    BY <1>2 DEF NothingAbove
  <2>2. s[1].from = 1 /\ s[1].to \in Nat
    <3>1. 1 \in 1 .. Len(s)
      BY <2>1
    <3>2. s[1].from \in Nat /\ 1 <= s[1].from /\ s[1].to \in Nat
      BY <3>1, NormalElements
    <3> QED BY <2>1, <3>2
  <2>3. FirstUnread(s) = s[1].to + 1
    BY <1>2, <2>2 DEF FirstUnread
  <2>4. DOMAIN s = {1}
    BY <1>0, <2>1
  <2> QED BY <2>2, <2>3, <2>4 DEF Marked, Covers
<1> QED BY <1>1, <1>2

-----------------------------------------------------------------------------
(* The texts up to last of the intervals in s.                             *)
TextsOf(lst, last, s) == {u \in 1 .. last : \E i \in s : Covers(lst[i], u)}

(* The highest of some intervals, and what is left without it.             *)
LEMMA HighestOf ==
  ASSUME NEW n \in Nat, NEW s \in SUBSET (1 .. n), s # {}
  PROVE  Max(s) \in s
<1> DEFINE B == {n - i : i \in s}
<1>1. B \subseteq Nat /\ B # {}
  <2>1. \A i \in s : i \in Int /\ i <= n /\ n - i \in Nat
    OBVIOUS
  <2> QED BY <2>1
<1>2. PICK m \in B : \A k \in B : m <= k
  BY <1>1, LeastElement
<1>3. PICK i \in s : m = n - i
  BY <1>2
<1>4. \A k \in s : i >= k
  <2> TAKE k \in s
  <2>1. n - k \in B
    OBVIOUS
  <2>2. m <= n - k
    BY <1>2, <2>1
  <2>3. i \in Int /\ k \in Int
    OBVIOUS
  <2> QED BY <1>3, <2>2, <2>3
<1> QED BY <1>4 DEF Max

(* One interval more is as many texts more as it is long.                  *)
LEMMA OneIntervalMore ==
  ASSUME NEW lst, Normal(lst), NEW last \in Nat, \A u \in Nat : Marked(lst, u) => u <= last,
         NEW s \in SUBSET DOMAIN lst, NEW x \in s
  PROVE  /\ Cardinality(TextsOf(lst, last, s)) \in Nat
         /\ Cardinality(TextsOf(lst, last, s)) =
              Cardinality(TextsOf(lst, last, s \ {x})) + (lst[x].to - lst[x].from + 1)
<1> DEFINE A == TextsOf(lst, last, s)
           B == TextsOf(lst, last, s \ {x})
           C == lst[x].from .. lst[x].to
<1>1. DOMAIN lst = 1 .. Len(lst) /\ x \in 1 .. Len(lst)
  BY DEF Normal
<1>2. lst[x].from \in Nat /\ lst[x].to \in Nat /\ 1 <= lst[x].from /\ lst[x].from <= lst[x].to
  BY <1>1, NormalElements
<1>3. C \subseteq 1 .. last
  <2> SUFFICES ASSUME NEW u \in C PROVE u \in 1 .. last
    OBVIOUS
  <2>1. u \in Nat /\ 1 <= u /\ Covers(lst[x], u)
    BY <1>2 DEF Covers
  <2>2. Marked(lst, u)
    BY <2>1 DEF Marked
  <2> QED BY <2>1, <2>2
<1>4. \A u \in 1 .. last : u \in C <=> Covers(lst[x], u)
  BY <1>2 DEF Covers
<1>5. A = B \cup C
  BY <1>3, <1>4 DEF TextsOf
<1>6. B \cap C = {}
  <2> SUFFICES ASSUME NEW u \in 1 .. last, NEW i \in s \ {x}, Covers(lst[i], u), Covers(lst[x], u) PROVE FALSE
    BY <1>3, <1>4 DEF TextsOf
  <2>1. i \in 1 .. Len(lst) /\ i # x
    BY <1>1
  <2>2. lst[i].from \in Nat /\ lst[i].to \in Nat /\ u \in Int
    BY <2>1, NormalElements
  <2>3. CASE i < x
    BY <1>1, <1>2, <2>1, <2>2, <2>3, NormalElements DEF Covers
  <2>4. CASE x < i
    BY <1>1, <1>2, <2>1, <2>2, <2>4, NormalElements DEF Covers
  <2> QED BY <1>1, <2>1, <2>3, <2>4
<1>7. IsFiniteSet(1 .. last) /\ A \subseteq 1 .. last /\ B \subseteq 1 .. last
  BY FS_Interval DEF TextsOf
<1>8. IsFiniteSet(A) /\ IsFiniteSet(B) /\ IsFiniteSet(C)
  BY <1>3, <1>7, FS_Subset
<1>9. Cardinality(C) = lst[x].to - lst[x].from + 1
  BY <1>2, FS_Interval
<1>10. Cardinality(B \cup C) = Cardinality(B) + Cardinality(C) - Cardinality(B \cap C)
  BY <1>8, FS_Union
<1>11. Cardinality(A) \in Nat /\ Cardinality(B) \in Nat /\ Cardinality(B \cap C) = 0
  BY <1>6, <1>8, FS_CardinalityType, FS_EmptySet
<1> HIDE DEF A, B, C
<1>12. Cardinality(A) = Cardinality(B) + (lst[x].to - lst[x].from + 1)
  BY <1>2, <1>5, <1>9, <1>10, <1>11
<1> QED BY <1>11, <1>12 DEF A, B

(* num_unread takes the intervals off last_text one by one; when they are  *)
(* in normal form and none is above last_text, what is left is the number  *)
(* of texts no interval covers.                                            *)
LEMMA NumUnreadIs ==
  ASSUME NEW lst, Normal(lst), NEW last \in Nat, \A u \in Nat : Marked(lst, u) => u <= last
  PROVE  NumUnread(lst, last) = Cardinality((1 .. last) \ MarkedTexts(lst))
<1> DEFINE D == DOMAIN lst
           Left(it, s) == IF s = {} THEN last ELSE it[s \ {Max(s)}] - (lst[Max(s)].to - lst[Max(s)].from + 1)
           Folds(it) == it = [s \in SUBSET D |-> Left(it, s)]
           w == [s \in SUBSET D |-> last - Cardinality(TextsOf(lst, last, s))]
           f == CHOOSE it : Folds(it)
<1>0. D = 1 .. Len(lst) /\ Len(lst) \in Nat
  BY DEF Normal
<1>1. NumUnread(lst, last) = f[D]
  BY DEF NumUnread, FoldLeft, MapThenFoldSet
<1>2. ASSUME NEW s \in SUBSET D PROVE w[s] = Left(w, s)
  <2>1. CASE s = {}
    <3>1. TextsOf(lst, last, s) = {}
      BY <2>1 DEF TextsOf
    <3> QED BY <2>1, <3>1, FS_EmptySet
  <2>2. CASE s # {}
    <3> DEFINE x == Max(s)
    <3>1. x \in s
      BY <1>0, <2>2, HighestOf
    <3> HIDE DEF x
    <3>2. /\ Cardinality(TextsOf(lst, last, s)) \in Nat
          /\ Cardinality(TextsOf(lst, last, s)) =
               Cardinality(TextsOf(lst, last, s \ {x})) + (lst[x].to - lst[x].from + 1)
      BY <3>1, OneIntervalMore
    <3>3. x \in 1 .. Len(lst)
      BY <1>0, <3>1
    <3>4. lst[x].from \in Nat /\ lst[x].to \in Nat
      BY <3>3, NormalElements
    <3>5. Cardinality(TextsOf(lst, last, s \ {x})) \in Nat
      <4>1. IsFiniteSet(1 .. last) /\ TextsOf(lst, last, s \ {x}) \subseteq 1 .. last
        BY FS_Interval DEF TextsOf
      <4> QED BY <4>1, FS_Subset, FS_CardinalityType
    <3>6. w[s \ {x}] = last - Cardinality(TextsOf(lst, last, s \ {x}))
      OBVIOUS
    <3>7. w[s] = last - Cardinality(TextsOf(lst, last, s))
      OBVIOUS
    <3> HIDE DEF w
    <3>8. w[s] = w[s \ {x}] - (lst[x].to - lst[x].from + 1)
      BY <3>2, <3>4, <3>5, <3>6, <3>7
    <3> QED BY <2>2, <3>8 DEF x
  <2> QED BY <2>1, <2>2
<1>3. Folds(w)
  <2>1. w = [s \in SUBSET D |-> w[s]]
    OBVIOUS
  <2> HIDE DEF w
  <2> QED BY <1>2, <2>1
<1>4. Folds(f)
  <2> HIDE DEF w, Folds
  <2> QED BY <1>3
<1> HIDE DEF f
<1>5. ASSUME NEW s \in SUBSET D PROVE f[s] = Left(f, s)
  <2>1. f = [t \in SUBSET D |-> Left(f, t)]
    BY <1>4
  <2> HIDE DEF Left
  <2> QED BY <2>1, Zenon
<1> DEFINE Wrong == {n \in 0 .. Len(lst) : f[1 .. n] # w[1 .. n]}
<1>6. Wrong = {}
  <2> SUFFICES ASSUME Wrong # {} PROVE FALSE
    OBVIOUS
  <2>1. PICK n \in Wrong : \A k \in Wrong : n <= k
    <3>1. Wrong \subseteq Nat
      OBVIOUS
    <3> HIDE DEF Wrong
    <3> QED BY <3>1, LeastElement
  <2>2. n \in 0 .. Len(lst) /\ 1 .. n \in SUBSET D /\ f[1 .. n] # w[1 .. n]
    BY <1>0, <2>1
  <2>3. f[1 .. n] = Left(f, 1 .. n) /\ w[1 .. n] = Left(w, 1 .. n)
    BY <1>2, <1>5, <2>2
  <2> HIDE DEF w, D
  <2>4. n # 0
    <3>1. 1 .. 0 = {}
      OBVIOUS
    <3> QED BY <2>2, <2>3, <3>1
  <2>5. n \in 1 .. Len(lst) /\ n - 1 \in 0 .. Len(lst) /\ n - 1 \notin Wrong
    BY <1>0, <2>1, <2>2, <2>4
  <2>6. f[1 .. n - 1] = w[1 .. n - 1]
    BY <2>5
  <2>7. 1 .. n # {} /\ Max(1 .. n) = n /\ (1 .. n) \ {n} = 1 .. n - 1
    <3>0. n \in Nat /\ 1 <= n
      BY <1>0, <2>5
    <3>a. n \in 1 .. n /\ \A k : k \in (1 .. n) \ {n} <=> k \in 1 .. n - 1
      BY <3>0
    <3>1. n \in Nat /\ 1 .. n # {} /\ (1 .. n) \ {n} = 1 .. n - 1
      BY <3>0, <3>a
    <3>2. n \in 1 .. n /\ \A k \in 1 .. n : n >= k
      BY <3>1, <2>5
    <3>3. \A k \in 1 .. n : (\A m \in 1 .. n : k >= m) => k = n
      BY <3>1, <3>2
    <3> QED BY <3>1, <3>2, <3>3 DEF Max
  <2> QED BY <2>2, <2>3, <2>6, <2>7
<1>7. f[D] = last - Cardinality(TextsOf(lst, last, D))
  <2>1. Len(lst) \in 0 .. Len(lst)
    BY <1>0
  <2>2. ~(Len(lst) \in Wrong)
    <3> HIDE DEF Wrong
    <3> QED BY <1>6
  <2>3. f[1 .. Len(lst)] = w[1 .. Len(lst)]
    BY <2>1, <2>2
  <2> QED BY <1>0, <2>3
<1>8. (1 .. last) \ MarkedTexts(lst) = (1 .. last) \ TextsOf(lst, last, D)
  <2>1. \A u \in 1 .. last : u \in Nat \ {0} /\ (u \in TextsOf(lst, last, D) <=> Marked(lst, u))
    BY DEF TextsOf, Marked
  <2> QED BY <2>1, MarkedTextsAre
<1>9. Cardinality((1 .. last) \ TextsOf(lst, last, D)) = last - Cardinality(TextsOf(lst, last, D))
  <2>1. IsFiniteSet(1 .. last) /\ Cardinality(1 .. last) = last
    BY FS_Interval
  <2>2. (1 .. last) \cap TextsOf(lst, last, D) = TextsOf(lst, last, D)
    BY DEF TextsOf
  <2> DEFINE I == 1 .. last
             T == TextsOf(lst, last, D)
  <2> HIDE DEF I, T
  <2>3. Cardinality(I \ T) = Cardinality(I) - Cardinality(I \cap T)
    BY <2>1, FS_Difference DEF I
  <2> QED BY <2>1, <2>2, <2>3 DEF I, T
<1> QED BY <1>1, <1>7, <1>8, <1>9

-----------------------------------------------------------------------------
(* The session.                                                            *)

(* A list is normal only because the texts that are marked are numbers     *)
(* from 1 up, which Nexttext and first must be.                            *)
TypedNormal == TypeOK /\ ListsNormal

(* more_conf answers a subscribed conference only because nothing else is  *)
(* ever in its queue, which is gone when commands change the subscription. *)
QueueKnown ==
  /\ pc \in {"prompt", "input"} => queue = <<>> /\ job = "None"
  /\ job # "Subscribe" => Range(queue) \subseteq Subscribed

(* The inductive invariant.                                                *)
IInv == TypedNormal /\ QueueKnown

(* The lists, typed and in normal form.                                    *)
LEMMA ListsAreNormal ==
  ASSUME TypeOK, ListsNormal
  PROVE  \A c \in Confs : Normal(il[c])
BY DEF TypeOK, ListsNormal, Normal

(* One list replaced by a normal one.                                      *)
LEMMA OneListChanged ==
  ASSUME TypeOK, ListsNormal, NEW c \in Confs, NEW s, Normal(s), il' = [il EXCEPT ![c] = s]
  PROVE  il' \in [Confs -> Seq(Interval)] /\ ListsNormal'
<1>1. s \in Seq(Interval) /\ NormalForm(s)
  BY DEF Normal
<1>2. il \in [Confs -> Seq(Interval)]
  BY DEF TypeOK
<1>3. \A d \in Confs : il'[d] = IF d = c THEN s ELSE il[d]
  BY <1>2
<1>4. ListsNormal'
  BY <1>1, <1>3 DEF ListsNormal
<1> QED BY <1>1, <1>2, <1>4

(* The conferences a session can be in.                                    *)
LEMMA SubscribedAreConfs ==
  ASSUME TypeOK
  PROVE  Subscribed \subseteq Confs /\ Current_conf \in Confs
BY ConfsAssumption DEF TypeOK, Subscribed, Range

(* What FirstUnread answers can be marked as read.                         *)
LEMMA ProbedIsText ==
  ASSUME TypedNormal, queue # <<>>
  PROVE  Scanned \in Confs /\ Probed \in Nat \ {0}
<1>1. Scanned \in Confs
  BY DEF TypedNormal, TypeOK, Scanned
<1>2. Normal(il[Scanned])
  BY <1>1, ListsAreNormal DEF TypedNormal
<1> QED BY <1>1, <1>2, FirstUnreadIs DEF Probed

(* The greatest of at most four numbers.                                   *)
LEMMA MaxBackIsNumber ==
  ASSUME NEW B, NEW m \in Int, B \subseteq m - 3 .. m, B # {}
  PROVE  Max(B) \in B /\ Max(B) \in Int
<1>1. \E x \in B : \A y \in B : x >= y
  <2>1. \A x \in B : x \in Int /\ (x = m \/ x = m - 1 \/ x = m - 2 \/ x = m - 3)
    OBVIOUS
  <2>2. CASE m \in B
    BY <2>1, <2>2
  <2>3. CASE m \notin B /\ m - 1 \in B
    BY <2>1, <2>3
  <2>4. CASE m \notin B /\ m - 1 \notin B /\ m - 2 \in B
    BY <2>1, <2>4
  <2>5. CASE m \notin B /\ m - 1 \notin B /\ m - 2 \notin B
    <3>1. PICK x \in B : TRUE
      OBVIOUS
    <3>2. \A y \in B : y = m - 3
      BY <2>1, <2>5
    <3>3. x >= x
      BY <2>1
    <3> QED BY <3>1, <3>2, <3>3
  <2> QED BY <2>2, <2>3, <2>4, <2>5
<1>2. Max(B) \in B
  BY <1>1 DEF Max
<1>3. \A x \in B : x \in Int
  OBVIOUS
<1> QED BY <1>2, <1>3

(* The initial state.                                                      *)
LEMMA InitTypedNormal == Init => TypedNormal
<1> SUFFICES ASSUME Init PROVE TypedNormal
  OBVIOUS
<1>1. il \in [Confs -> Seq(Interval)] /\ ListsNormal
  BY DEF Init, ListsNormal, NormalForm
<1>2. confs \in Seq(Confs) /\ queue \in Seq(Confs) /\ Current_conf \in Subscribed
  BY DEF Init, Subscribed
<1>3. lastText \in [Confs -> Nat] /\ files \in [Confs -> SUBSET Nat] /\ limit \in [Confs -> Nat]
  BY DEF Init, NoLimit
<1>4. Change_prompt \in BOOLEAN /\ flag \in BOOLEAN
  BY Zenon DEF Init
<1>5. /\ Nexttext \in Nat \cup {Unknown}
      /\ pc \in Labels /\ job \in Jobs /\ pc \notin {"skip", "search", "store"}
      /\ first \in Nat \ {0} /\ high \in Int
  BY DEF Init, Labels, Jobs
<1>6. TypeOK
  BY <1>1, <1>2, <1>3, <1>4, <1>5 DEF TypeOK
<1> QED BY <1>1, <1>6 DEF TypedNormal

-----------------------------------------------------------------------------
(* What most steps leave alone, and what they have to keep of the rest.    *)
LEMMA UserUntouched ==
  ASSUME TypedNormal, UNCHANGED << confs, il >>, Current_conf' \in Subscribed
  PROVE  /\ confs' \in Seq(Confs) /\ il' \in [Confs -> Seq(Interval)]
         /\ Current_conf' \in Subscribed' /\ ListsNormal'
BY DEF TypedNormal, TypeOK, Subscribed, ListsNormal

(* The steps of the other processes.                                       *)
LEMMA OthersTypedNormal == TypedNormal /\ Others => TypedNormal'
<1> SUFFICES ASSUME TypedNormal, Others PROVE TypedNormal'
  OBVIOUS
<1>0. TypeOK /\ ListsNormal
  BY DEF TypedNormal
<1>1. ASSUME NEW c \in Confs, PostFile(c) PROVE TypedNormal'
  <2>1. lastText[c] + 1 \in Nat /\ files[c] \subseteq Nat
    BY <1>0 DEF TypeOK
  <2>2. files' \in [Confs -> SUBSET Nat]
    BY <1>0, <1>1, <2>1 DEF PostFile, TypeOK
  <2> QED BY <1>0, <1>1, <2>2
       DEF PostFile, TypedNormal, TypeOK, ListsNormal, Subscribed, user, session, scan
<1>2. ASSUME NEW c \in Confs, PostPublish(c) PROVE TypedNormal'
  <2>1. lastText' \in [Confs -> Nat]
    BY <1>0, <1>2 DEF PostPublish, TypeOK
  <2> QED BY <1>0, <1>2, <2>1
       DEF PostPublish, TypedNormal, TypeOK, ListsNormal, Subscribed, user, session, scan
<1>3. ASSUME NEW c \in Confs, NEW t \in files[c], Delete(c, t) PROVE TypedNormal'
  <2>1. files' \in [Confs -> SUBSET Nat]
    BY <1>0, <1>3 DEF Delete, TypeOK
  <2> QED BY <1>0, <1>3, <2>1
       DEF Delete, TypedNormal, TypeOK, ListsNormal, Subscribed, user, session, scan
<1>4. ASSUME Signal PROVE TypedNormal'
  <2>1. pc' \in Labels /\ (pc' \in {"skip", "search", "store"} => pc' = pc)
    BY <1>0, <1>4 DEF Signal, TypeOK, Labels
  <2> QED BY <1>0, <1>4, <2>1
       DEF Signal, TypedNormal, TypeOK, ListsNormal, Subscribed, board, user, scan
<1> QED BY <1>1, <1>2, <1>3, <1>4 DEF Others

(* A return clears the local variables.                                    *)
LEMMA ReturnTypes ==
  ASSUME NEW label \in Labels \ {"skip", "search", "store"}, Return(label)
  PROVE  /\ pc' \in Labels /\ pc' \notin {"skip", "search", "store"} /\ job' \in Jobs
         /\ queue' \in Seq(Confs) /\ limit' \in [Confs -> Nat] /\ flag' \in BOOLEAN
         /\ first' \in Nat \ {0} /\ high' \in Int
<1>1. pc' \in Labels /\ pc' \notin {"skip", "search", "store"} /\ job' \in Jobs
  BY DEF Return, Labels, Jobs
<1>2. flag' \in BOOLEAN
  BY Zenon DEF Return
<1>3. limit' \in [Confs -> Nat]
  BY DEF Return, NoLimit
<1>4. queue' \in Seq(Confs) /\ first' \in Nat \ {0} /\ high' \in Int
  BY DEF Return
<1> QED BY <1>1, <1>2, <1>3, <1>4

-----------------------------------------------------------------------------
(* The answers of next_text and more_conf.                                 *)
LEMMA TextAnswerTypedNormal ==
  ASSUME TypedNormal, NEW t \in Nat, TextAnswer(t)
  PROVE  TypedNormal'
<1>0. TypeOK /\ ListsNormal /\ Current_conf \in Confs
  BY SubscribedAreConfs DEF TypedNormal
<1>1. UNCHANGED << board, confs, Current_conf, Change_prompt >> /\ Current_conf' \in Subscribed'
  BY <1>0 DEF TextAnswer, TypeOK, Subscribed
<1>2. CASE job = "PromptText" /\ UNCHANGED il /\ Nexttext' = t
            /\ (\/ pc' = "conf" /\ job' = "PromptConf" /\ UNCHANGED << queue, limit, flag, first, high >>
                \/ Return("input"))
  <2>1. /\ pc' \in Labels /\ pc' \notin {"skip", "search", "store"} /\ job' \in Jobs
        /\ queue' \in Seq(Confs) /\ limit' \in [Confs -> Nat]
        /\ flag' \in BOOLEAN /\ first' \in Nat \ {0} /\ high' \in Int
    <3>1. CASE Return("input")
      BY <3>1, ReturnTypes DEF Labels
    <3>2. CASE pc' = "conf" /\ job' = "PromptConf" /\ UNCHANGED << queue, limit, flag, first, high >>
      BY <1>0, <3>2 DEF TypeOK, Labels, Jobs
    <3> QED BY <1>2, <3>1, <3>2
  <2> QED BY <1>0, <1>1, <1>2, <2>1 DEF TypedNormal, TypeOK, ListsNormal, board
<1>3. CASE Return("prompt") /\ Nexttext' = Unknown
            /\ il' = IF t = NoText THEN il ELSE [il EXCEPT ![Current_conf] = MarkAsRead(@, t)]
  <2>1. il' \in [Confs -> Seq(Interval)] /\ ListsNormal'
    <3>1. CASE t = NoText
      BY <1>0, <1>3, <3>1 DEF TypeOK, ListsNormal
    <3>2. CASE t # NoText
      <4>1. t \in Nat \ {0} /\ Normal(il[Current_conf])
        BY <1>0, <3>2, ListsAreNormal DEF NoText
      <4>2. Normal(MarkAsRead(il[Current_conf], t))
        BY <4>1, MarkAsReadNormal
      <4>3. il' = [il EXCEPT ![Current_conf] = MarkAsRead(il[Current_conf], t)]
        BY <1>3, <3>2
      <4> QED BY <1>0, <4>2, <4>3, OneListChanged
    <3> QED BY <3>1, <3>2
  <2>2. /\ pc' \in Labels /\ pc' \notin {"skip", "search", "store"} /\ job' \in Jobs
        /\ queue' \in Seq(Confs) /\ limit' \in [Confs -> Nat]
        /\ flag' \in BOOLEAN /\ first' \in Nat \ {0} /\ high' \in Int
    BY <1>3, ReturnTypes DEF Labels
  <2> QED BY <1>0, <1>1, <1>3, <2>1, <2>2 DEF TypedNormal, TypeOK, board
<1> QED BY <1>2, <1>3 DEF TextAnswer

(* more_conf answers a conference: nothing of the user is touched but      *)
(* where he is.                                                            *)
LEMMA ConfFoundTypedNormal ==
  ASSUME TypedNormal, NEW c \in Subscribed, ConfFound(c)
  PROVE  TypedNormal'
<1>0. TypeOK /\ ListsNormal
  BY DEF TypedNormal
<1>1. UNCHANGED << board, user, Change_prompt, Nexttext >> /\ Current_conf' \in Subscribed'
  BY <1>0 DEF ConfFound, TypeOK, Subscribed, user
<1>2. /\ pc' \in Labels /\ pc' \notin {"skip", "search", "store"} /\ job' \in Jobs
      /\ queue' \in Seq(Confs) /\ limit' \in [Confs -> Nat]
      /\ flag' \in BOOLEAN /\ first' \in Nat \ {0} /\ high' \in Int
  BY ReturnTypes DEF ConfFound, Labels
<1> QED BY <1>0, <1>1, <1>2 DEF TypedNormal, TypeOK, ListsNormal, board, user

(* more_conf answers -1.                                                   *)
LEMMA ConfNoneTypedNormal ==
  ASSUME TypedNormal, ConfNone
  PROVE  TypedNormal'
<1>0. TypeOK /\ ListsNormal
  BY DEF TypedNormal
<1>1. UNCHANGED << board, user, Current_conf, Nexttext >> /\ Current_conf' \in Subscribed'
  BY <1>0 DEF ConfNone, TypeOK, Subscribed, user
<1>2. /\ pc' \in Labels /\ pc' \notin {"skip", "search", "store"} /\ job' \in Jobs
      /\ queue' \in Seq(Confs) /\ limit' \in [Confs -> Nat]
      /\ flag' \in BOOLEAN /\ first' \in Nat \ {0} /\ high' \in Int
  BY ReturnTypes DEF ConfNone, Labels
<1>3. Change_prompt' \in BOOLEAN
  <2>1. Change_prompt \in BOOLEAN
    BY <1>0 DEF TypeOK
  <2> QED BY <2>1, Zenon DEF ConfNone
<1> QED BY <1>0, <1>1, <1>2, <1>3 DEF TypedNormal, TypeOK, ListsNormal, board, user

(* What more_conf looks at is subscribed to.                               *)
LEMMA AheadBehind ==
  ASSUME TypeOK
  PROVE  Ahead \o Behind \in Seq(Confs)
<1>0. confs \in Seq(Confs) /\ Len(confs) \in Nat
  BY DEF TypeOK
<1>1. CASE Current_conf = Mailbox
  BY <1>0, <1>1 DEF Ahead, Behind
<1>2. CASE Current_conf # Mailbox
  <2>1. \E i \in DOMAIN confs : confs[i] = Current_conf
    BY <1>2 DEF TypeOK, Subscribed, Range
  <2>2. Here \in 1 .. Len(confs) /\ Here \in Int
    BY <1>0, <2>1 DEF Here
  <2>3. SubSeq(confs, Here + 1, Len(confs)) \in Seq(Confs)
    BY <1>0, <2>2, SubSeqProperties
  <2>4. SubSeq(confs, 1, Here - 1) \in Seq(Confs)
    BY <1>0, <2>2, SubSeqProperties
  <2> QED BY <1>2, <2>3, <2>4 DEF Ahead, Behind
<1> QED BY <1>1, <1>2

-----------------------------------------------------------------------------
(* The steps of a scan.                                                    *)
LEMMA ScanTypedNormal == IInv /\ Scan => TypedNormal'
<1> SUFFICES ASSUME IInv, Scan PROVE TypedNormal'
  OBVIOUS
<1>0. TypeOK /\ ListsNormal /\ TypedNormal /\ QueueKnown
  BY DEF IInv, TypedNormal
<1>1. CASE ConfBegin
  <2>1. CASE ConfFound(Mailbox)
    <3>1. Mailbox \in Subscribed
      BY DEF Subscribed
    <3> QED BY <1>0, <2>1, <3>1, ConfFoundTypedNormal
  <2>2. CASE /\ queue' = Ahead \o Behind /\ limit' = lastText /\ flag' = FALSE
             /\ pc' = "scan" /\ UNCHANGED << board, user, session, job, first, high >>
    <3>1. flag' \in BOOLEAN
      BY <2>2, Zenon
    <3>2. queue' \in Seq(Confs)
      BY <1>0, <2>2, AheadBehind
    <3> QED BY <1>0, <2>2, <3>1, <3>2
         DEF TypedNormal, TypeOK, ListsNormal, Subscribed, Labels, board, user, session
  <2> QED BY <1>1, <2>1, <2>2 DEF ConfBegin
<1>2. CASE ScanFound
  <2>1. queue # <<>> /\ Probed \in Nat
    BY <1>0, <1>2, ProbedIsText DEF ScanFound, Scanning
  <2>2. CASE TextJob
    BY <1>0, <1>2, <2>1, <2>2, TextAnswerTypedNormal DEF ScanFound
  <2>3. CASE ~TextJob
    <3>1. ConfFound(Scanned) /\ job # "Subscribe"
      BY <1>2, <2>3 DEF ScanFound, ConfFound
    <3>2. Scanned \in Subscribed
      BY <1>0, <2>1, <3>1 DEF QueueKnown, Scanned, Range, TypeOK
    <3> QED BY <1>0, <3>1, <3>2, ConfFoundTypedNormal
  <2> QED BY <2>2, <2>3
<1>3. CASE ScanMissing
  <2>1. queue # <<>> /\ Scanned \in Confs
    BY <1>0, <1>3, ProbedIsText DEF ScanMissing, Scanning
  <2>2. UNCHANGED << board, user, session, job, queue, limit >>
    BY <1>3 DEF ScanMissing
  <2>3. pc' \in Labels /\ first' \in Nat \ {0} /\ high' \in Int
    BY <1>0, <1>3, <2>1 DEF ScanMissing, TypeOK, Labels
  <2>4. flag' \in BOOLEAN
    <3>1. flag \in BOOLEAN
      BY <1>0 DEF TypeOK
    <3> QED BY <1>3, <3>1, Zenon DEF ScanMissing
  <2> QED BY <1>0, <2>1, <2>2, <2>3, <2>4
       DEF TypedNormal, TypeOK, ListsNormal, Subscribed, board, user, session
<1>4. CASE ScanPast
  <2>1. CASE TextJob
    BY <1>0, <1>4, <2>1, TextAnswerTypedNormal DEF ScanPast, NoText
  <2>2. CASE ~TextJob
    <3>1. queue \in Seq(Confs) /\ queue # <<>> /\ pc = "scan"
      BY <1>0, <1>4 DEF ScanPast, Scanning, TypeOK
    <3>2. queue' = Tail(queue) /\ pc' = pc
      BY <1>4, <2>2 DEF ScanPast
    <3>3. queue' \in Seq(Confs) /\ pc' = "scan"
      BY <3>1, <3>2, HeadTailProperties
    <3>4. UNCHANGED << board, user, session, job, limit, flag, first, high >>
      BY <1>4, <2>2 DEF ScanPast
    <3> QED BY <1>0, <3>3, <3>4
         DEF TypedNormal, TypeOK, ListsNormal, Subscribed, Labels, board, user, session
  <2> QED BY <2>1, <2>2
<1>5. CASE ScanEnd
  BY <1>0, <1>5, ConfNoneTypedNormal DEF ScanEnd
<1>6. CASE Skip
  <2>1. Scanned \in Confs /\ Probed \in Nat \ {0}
    BY <1>0, <1>6, ProbedIsText DEF Skip, TypeOK
  <2> DEFINE s == IF NothingAbove(il[Scanned]) /\ first > Probed
                  THEN UpTo(first) ELSE MarkAsRead(il[Scanned], Probed)
  <2>2. Normal(s)
    <3>1. Normal(UpTo(first))
      BY <1>0, UpToNormal DEF TypeOK
    <3>2. Normal(MarkAsRead(il[Scanned], Probed))
      BY <1>0, <2>1, ListsAreNormal, MarkAsReadNormal
    <3> QED BY <3>1, <3>2
  <2>3. il' = [il EXCEPT ![Scanned] = s]
    BY <1>6 DEF Skip
  <2> HIDE DEF s
  <2>4. il' \in [Confs -> Seq(Interval)] /\ ListsNormal'
    BY <1>0, <2>1, <2>2, <2>3, OneListChanged
  <2>5. pc' = "scan" /\ UNCHANGED << board, confs, session, scan >>
    BY <1>6 DEF Skip
  <2> QED BY <1>0, <2>4, <2>5
       DEF TypedNormal, TypeOK, Subscribed, Labels, board, session, scan
<1>7. CASE SearchStep
  <2>1. first \in Int /\ high \in Int /\ first < high /\ first \in Nat \ {0}
    BY <1>0, <1>7 DEF SearchStep, TypeOK
  <2>2. Middle \in Int /\ Middle >= first
    BY <2>1 DEF Middle
  <2>3. first' \in Nat \ {0} /\ high' \in Int
    <3>1. CASE Back = {}
      BY <1>7, <2>1, <2>2, <3>1 DEF SearchStep
    <3>2. CASE Back # {}
      <4>1. Back \subseteq Middle - 3 .. Middle
        BY DEF Back
      <4>2. Max(Back) \in Int
        BY <2>2, <3>2, <4>1, MaxBackIsNumber
      <4> QED BY <1>7, <2>1, <3>2, <4>2 DEF SearchStep
    <3> QED BY <3>1, <3>2
  <2>4. UNCHANGED << board, user, session, pc, job, queue, limit, flag >>
    BY <1>7 DEF SearchStep
  <2> QED BY <1>0, <2>3, <2>4
       DEF TypedNormal, TypeOK, ListsNormal, Subscribed, board, user, session
<1>8. CASE SearchEnd
  <2>1. first' \in Nat \ {0} /\ high' \in Int /\ pc' \in Labels /\ queue # <<>>
    BY <1>0, <1>8 DEF SearchEnd, SearchResult, TypeOK, Labels
  <2>2. UNCHANGED << board, user, session, job, queue, limit, flag >>
    BY <1>8 DEF SearchEnd
  <2> QED BY <1>0, <2>1, <2>2
       DEF TypedNormal, TypeOK, ListsNormal, Subscribed, board, user, session
<1> QED BY <1>1, <1>2, <1>3, <1>4, <1>5, <1>6, <1>7, <1>8 DEF Scan

(* The prompt, and the beginning of next_text.                             *)
LEMMA PromptTypedNormal == TypedNormal /\ (DisplayPrompt \/ OtherPrompt \/ SamePrompt) => TypedNormal'
<1> SUFFICES ASSUME TypedNormal, DisplayPrompt \/ OtherPrompt \/ SamePrompt PROVE TypedNormal'
  OBVIOUS
<1>0. TypeOK /\ ListsNormal /\ Current_conf \in Confs
  BY SubscribedAreConfs DEF TypedNormal
<1>1. CASE DisplayPrompt
  <2>1. /\ pc' = "scan" /\ job' = "PromptText" /\ queue' \in Seq(Confs)
        /\ limit' = lastText /\ UNCHANGED << first, high >>
    BY <1>0, <1>1 DEF DisplayPrompt, BeginText
  <2>2. flag' \in BOOLEAN
    BY <1>1, Zenon DEF DisplayPrompt, BeginText
  <2>3. Nexttext' = Unknown /\ UNCHANGED << board, user, Current_conf, Change_prompt >>
    BY <1>1 DEF DisplayPrompt
  <2> QED BY <1>0, <2>1, <2>2, <2>3
       DEF TypedNormal, TypeOK, ListsNormal, Subscribed, Labels, Jobs, board, user
<1>2. CASE OtherPrompt \/ SamePrompt
  BY <1>0, <1>2 DEF OtherPrompt, SamePrompt, TypedNormal, TypeOK, ListsNormal, Subscribed, Labels, Jobs,
                    board, user, session, scan
<1> QED BY <1>1, <1>2

(* The commands.                                                           *)
LEMMA CommandsTypedNormal == TypedNormal /\ Commands => TypedNormal'
<1> SUFFICES ASSUME TypedNormal, Commands PROVE TypedNormal'
  OBVIOUS
<1>0. TypeOK /\ ListsNormal /\ Current_conf \in Confs
  BY SubscribedAreConfs DEF TypedNormal
<1>a. Change_prompt \in BOOLEAN
  BY <1>0 DEF TypeOK
<1>1. CASE ReadNexttext
  <2>1. il' \in [Confs -> Seq(Interval)] /\ ListsNormal'
    <3>1. CASE Nexttext = NoText
      BY <1>0, <1>1, <3>1 DEF ReadNexttext, TypeOK, ListsNormal
    <3>2. CASE Nexttext # NoText
      <4>1. Nexttext \in Nat \ {0}
        BY <1>0, <1>1, <3>2 DEF ReadNexttext, TypeOK, NoText
      <4>2. Normal(MarkAsRead(il[Current_conf], Nexttext))
        BY <1>0, <4>1, ListsAreNormal, MarkAsReadNormal
      <4>3. il' = [il EXCEPT ![Current_conf] = MarkAsRead(il[Current_conf], Nexttext)]
        BY <1>1, <3>2 DEF ReadNexttext
      <4> QED BY <1>0, <4>2, <4>3, OneListChanged
    <3> QED BY <3>1, <3>2
  <2>2. /\ Nexttext' = Unknown /\ pc' = "prompt"
        /\ UNCHANGED << board, confs, Current_conf, Change_prompt, scan >>
    BY <1>1 DEF ReadNexttext
  <2> QED BY <1>0, <2>1, <2>2 DEF TypedNormal, TypeOK, Subscribed, Labels, board, scan
<1>2. CASE SearchNexttext
  <2>1. /\ pc' = "scan" /\ job' = "NextText" /\ queue' \in Seq(Confs)
        /\ limit' = lastText /\ UNCHANGED << first, high >>
    BY <1>0, <1>2 DEF SearchNexttext, BeginText
  <2>2. flag' \in BOOLEAN
    BY <1>2, Zenon DEF SearchNexttext, BeginText
  <2>3. UNCHANGED << board, user, session >>
    BY <1>2 DEF SearchNexttext
  <2> QED BY <1>0, <2>1, <2>2, <2>3
       DEF TypedNormal, TypeOK, ListsNormal, Subscribed, Labels, Jobs, board, user, session
<1>3. CASE NextConf
  BY <1>0, <1>3 DEF NextConf, TypedNormal, TypeOK, ListsNormal, Subscribed, Labels, Jobs,
                    board, user, session
<1>4. ASSUME NEW c \in Confs, BeginSearch(job', c) \/ ChangeConf(c), job' \in Jobs
      PROVE TypedNormal'
  <2>1. CASE ChangeConf(c)
    BY <1>0, <2>1 DEF ChangeConf, TypedNormal, TypeOK, ListsNormal, Subscribed, Labels,
                      board, user, scan
  <2>2. CASE BeginSearch(job', c)
    <3>1. Change_prompt' \in BOOLEAN
      BY <2>2, Zenon DEF BeginSearch
    <3>2. /\ pc' = "search" /\ queue' \in Seq(Confs) /\ queue' # <<>>
          /\ first' \in Nat \ {0} /\ high' \in Int
      BY <1>0, <2>2 DEF BeginSearch, TypeOK
    <3>3. UNCHANGED << board, user, Current_conf, Nexttext, limit, flag >>
      BY <2>2 DEF BeginSearch
    <3> QED BY <1>0, <1>4, <3>1, <3>2, <3>3
         DEF TypedNormal, TypeOK, ListsNormal, Subscribed, Labels, board, user
  <2> QED BY <1>4, <2>1, <2>2
<1>5. ASSUME NEW t \in 1 .. lastText[Current_conf], ReadText(t) \/ GotoText(t)
      PROVE TypedNormal'
  <2>0. t \in Nat \ {0}
    BY <1>0 DEF TypeOK
  <2>1. il' \in [Confs -> Seq(Interval)] /\ ListsNormal'
    <3>1. Normal(MarkAsRead(il[Current_conf], t)) /\ Normal(MarkAsUnread(il[Current_conf], t))
      BY <1>0, <2>0, ListsAreNormal, MarkAsReadNormal, MarkAsUnreadNormal
    <3>2. \/ il' = [il EXCEPT ![Current_conf] = MarkAsRead(il[Current_conf], t)]
          \/ il' = [il EXCEPT ![Current_conf] = MarkAsUnread(il[Current_conf], t)]
      BY <1>5 DEF ReadText, GotoText
    <3> QED BY <1>0, <3>1, <3>2, OneListChanged
  <2>2. pc' = "prompt" /\ UNCHANGED << board, confs, Current_conf, Nexttext, scan >>
    BY <1>5 DEF ReadText, GotoText, session
  <2>3. Change_prompt' \in BOOLEAN
    BY <1>5, <1>a, Zenon DEF ReadText, GotoText, session
  <2> QED BY <1>0, <2>1, <2>2, <2>3 DEF TypedNormal, TypeOK, Subscribed, Labels, board, scan
<1>6. ASSUME Return("prompt")
      PROVE  /\ pc' \in Labels /\ pc' \notin {"skip", "search", "store"} /\ job' \in Jobs
             /\ queue' \in Seq(Confs) /\ limit' \in [Confs -> Nat]
             /\ flag' \in BOOLEAN /\ first' \in Nat \ {0} /\ high' \in Int
  BY <1>6, ReturnTypes DEF Labels
<1>7. CASE SubscribeStore
  <2>1. Scanned \in Confs
    BY <1>0, <1>7 DEF SubscribeStore, TypeOK, Scanned
  <2>2. il' \in [Confs -> Seq(Interval)] /\ ListsNormal'
    <3>1. Normal(UpTo(first))
      BY <1>0, UpToNormal DEF TypeOK
    <3>2. il' = [il EXCEPT ![Scanned] = UpTo(first)]
      BY <1>7 DEF SubscribeStore
    <3> QED BY <1>0, <2>1, <3>1, <3>2, OneListChanged
  <2>3. confs' \in Seq(Confs) /\ Range(confs) \subseteq Range(confs')
    <3>1. confs' = Append(confs, Scanned) /\ confs \in Seq(Confs)
      BY <1>0, <1>7 DEF SubscribeStore, TypeOK
    <3>2. /\ confs' \in Seq(Confs) /\ Len(confs') = Len(confs) + 1
          /\ \A i \in 1 .. Len(confs) : confs'[i] = confs[i]
      BY <2>1, <3>1, AppendProperties
    <3> QED BY <3>1, <3>2 DEF Range
  <2>4. Return("prompt") /\ UNCHANGED << board, session >>
    BY <1>7 DEF SubscribeStore
  <2> QED BY <1>0, <1>6, <2>2, <2>3, <2>4 DEF TypedNormal, TypeOK, Subscribed, board, session
<1>8. ASSUME NEW n \in 0 .. lastText[Current_conf], OnlyStore(n) PROVE TypedNormal'
  <2>1. il' \in [Confs -> Seq(Interval)] /\ ListsNormal'
    <3>1. lastText[Current_conf] - n + 1 \in Int
      BY <1>0 DEF TypeOK
    <3>2. il' = [il EXCEPT ![Current_conf] = UpTo(lastText[Current_conf] - n + 1)]
      BY <1>8 DEF OnlyStore
    <3>3. Normal(UpTo(lastText[Current_conf] - n + 1))
      BY <3>1, UpToNormal
    <3> QED BY <1>0, <3>2, <3>3, OneListChanged
  <2>2. Return("prompt") /\ UNCHANGED << board, confs, session >>
    BY <1>8 DEF OnlyStore
  <2> QED BY <1>0, <1>6, <2>1, <2>2 DEF TypedNormal, TypeOK, Subscribed, board, session
<1>9. ASSUME NEW i \in DOMAIN confs, Unsubscribe(i) PROVE TypedNormal'
  <2>1. confs \in Seq(Confs) /\ Len(confs) \in Nat /\ i \in 1 .. Len(confs) /\ confs[i] \in Confs
    <3>1. confs \in Seq(Confs)
      BY <1>0 DEF TypeOK
    <3> QED BY <3>1
  <2>2. /\ confs' \in Seq(Confs) /\ Len(confs') = Len(confs) - 1
        /\ \A k \in 1 .. Len(confs) - 1 : confs'[k] = IF k < i THEN confs[k] ELSE confs[k + 1]
    BY <1>9, <2>1, RemoveAtIs DEF Unsubscribe
  <2>3. il' \in [Confs -> Seq(Interval)] /\ ListsNormal'
    <3>1. Normal(<<>>)
      BY DEF Normal, NormalForm
    <3>2. il' = [il EXCEPT ![confs[i]] = <<>>]
      BY <1>9 DEF Unsubscribe
    <3> QED BY <1>0, <2>1, <3>1, <3>2, OneListChanged
  <2>4. Current_conf' \in Subscribed'
    <3>1. CASE confs[i] = Current_conf
      BY <1>9, <3>1 DEF Unsubscribe, Subscribed
    <3>2. CASE confs[i] # Current_conf /\ Current_conf = Mailbox
      BY <1>9, <3>2 DEF Unsubscribe, Subscribed
    <3>3. CASE confs[i] # Current_conf /\ Current_conf # Mailbox
      <4>1. PICK k \in 1 .. Len(confs) : confs[k] = Current_conf
        BY <1>0, <2>1, <3>3 DEF TypeOK, Subscribed, Range
      <4>2. k \in Int /\ i \in Int /\ k # i
        BY <2>1, <3>3, <4>1
      <4>3. \E m \in 1 .. Len(confs) - 1 : confs'[m] = Current_conf
        <5>1. CASE k < i
          <6>1. k \in 1 .. Len(confs) - 1
            BY <2>1, <4>2, <5>1
          <6> QED BY <2>2, <4>1, <5>1, <6>1
        <5>2. CASE i < k
          <6>1. k - 1 \in 1 .. Len(confs) - 1 /\ ~ (k - 1 < i) /\ (k - 1) + 1 = k
            BY <2>1, <4>2, <5>2
          <6> QED BY <2>2, <4>1, <6>1
        <5> QED BY <4>2, <5>1, <5>2
      <4>4. Current_conf' = Current_conf
        BY <1>9, <3>3 DEF Unsubscribe
      <4> QED BY <2>2, <4>3, <4>4 DEF Subscribed, Range
    <3> QED BY <3>1, <3>2, <3>3
  <2>5. pc' = "prompt" /\ UNCHANGED << board, Change_prompt, Nexttext, scan >>
    BY <1>9 DEF Unsubscribe
  <2> QED BY <1>0, <2>2, <2>3, <2>4, <2>5 DEF TypedNormal, TypeOK, Labels, board, scan
<1>10. ASSUME NEW c \in Confs, Subscribe(c) PROVE TypedNormal'
  <2>1. BeginSearch(job', c) /\ job' \in Jobs
    BY <1>10 DEF Subscribe, BeginSearch, Jobs
  <2> QED BY <1>4, <2>1
<1>11. CASE Only
  <2>1. BeginSearch(job', Current_conf) /\ job' \in Jobs
    BY <1>11 DEF Only, BeginSearch, Jobs
  <2> QED BY <1>0, <1>4, <2>1
<1>12. ASSUME NEW c \in Confs, ChangeConf(c) PROVE TypedNormal'
  <2>1. job' \in Jobs
    BY <1>0, <1>12 DEF ChangeConf, scan, TypeOK
  <2> QED BY <1>4, <1>12, <2>1
<1> QED BY <1>1, <1>2, <1>3, <1>5, <1>7, <1>8, <1>9, <1>10, <1>11, <1>12 DEF Commands

-----------------------------------------------------------------------------
(* The queue holds subscribed conferences, and no command runs while there *)
(* is one.                                                                 *)
LEMMA QueueStep == IInv /\ [Next]_vars => QueueKnown'
<1> SUFFICES ASSUME IInv, [Next]_vars PROVE QueueKnown'
  OBVIOUS
<1>0. TypeOK /\ QueueKnown /\ Current_conf \in Subscribed
  BY DEF IInv, TypedNormal, TypeOK
<1>1. ASSUME NEW l, Return(l) PROVE QueueKnown'
  <2>1. queue' = <<>> /\ job' = "None"
    BY <1>1 DEF Return
  <2> QED BY <2>1 DEF QueueKnown, Range
<1>2. ASSUME UNCHANGED << confs, job, queue >>,
             pc' \in {"prompt", "input"} => pc \in {"prompt", "input"}
      PROVE  QueueKnown'
  BY <1>0, <1>2 DEF QueueKnown, Subscribed
<1>3. ASSUME Others \/ OtherPrompt \/ SamePrompt PROVE QueueKnown'
  <2>1. /\ UNCHANGED << confs, job, queue >>
        /\ pc' \in {"prompt", "input"} => pc \in {"prompt", "input"}
    BY <1>3 DEF Others, PostFile, PostPublish, Delete, Signal, OtherPrompt, SamePrompt, user, session, scan
  <2> QED BY <1>2, <2>1
<1>4. ASSUME BeginText("PromptText") \/ BeginText("NextText"), UNCHANGED confs
      PROVE  QueueKnown'
  <2>1. pc' = "scan" /\ queue' = << Current_conf >>
    BY <1>4 DEF BeginText
  <2>2. Range(queue') \subseteq Subscribed'
    BY <1>0, <1>4, <2>1 DEF Range, Subscribed
  <2> QED BY <2>1, <2>2 DEF QueueKnown
<1>5. ASSUME DisplayPrompt PROVE QueueKnown'
  BY <1>4, <1>5 DEF DisplayPrompt, user
<1>6. ASSUME NEW t, TextAnswer(t) PROVE QueueKnown'
  <2>1. CASE Return("input") \/ Return("prompt")
    BY <1>1, <2>1
  <2>2. CASE /\ job = "PromptText" /\ pc' = "conf" /\ job' = "PromptConf"
             /\ UNCHANGED << queue, confs >>
    BY <1>0, <2>2 DEF QueueKnown, Subscribed
  <2> QED BY <1>6, <2>1, <2>2 DEF TextAnswer
<1>7. ASSUME NEW c, ConfFound(c) PROVE QueueKnown'
  BY <1>1, <1>7 DEF ConfFound
<1>8. ASSUME Scan PROVE QueueKnown'
  <2>1. CASE ConfBegin
    <3>1. CASE ConfFound(Mailbox)
      BY <1>7, <3>1
    <3>2. CASE queue' = Ahead \o Behind /\ pc' = "scan" /\ UNCHANGED << user, session, job >>
      <4>1. Range(Ahead \o Behind) \subseteq Range(confs)
        <5>1. confs \in Seq(Confs) /\ Len(confs) \in Nat
          BY <1>0 DEF TypeOK
        <5>2. /\ Ahead \in Seq(Range(confs)) /\ Behind \in Seq(Range(confs))
          <6>1. confs \in Seq(Range(confs))
            BY <5>1 DEF Range
          <6>2. CASE Current_conf = Mailbox
            BY <6>1, <6>2 DEF Ahead, Behind
          <6>3. CASE Current_conf # Mailbox
            <7>1. \E i \in DOMAIN confs : confs[i] = Current_conf
              BY <1>0, <6>3 DEF Subscribed, Range
            <7>2. Here \in 1 .. Len(confs) /\ Here \in Int
              BY <5>1, <7>1 DEF Here
            <7>3. SubSeq(confs, Here + 1, Len(confs)) \in Seq(Range(confs))
              BY <5>1, <6>1, <7>2, SubSeqProperties
            <7>4. SubSeq(confs, 1, Here - 1) \in Seq(Range(confs))
              BY <5>1, <6>1, <7>2, SubSeqProperties
            <7> QED BY <6>3, <7>3, <7>4 DEF Ahead, Behind
          <6> QED BY <6>2, <6>3
        <5>3. Ahead \o Behind \in Seq(Range(confs))
          BY <5>2, ConcatProperties
        <5> HIDE DEF Ahead, Behind
        <5>4. \A i \in DOMAIN (Ahead \o Behind) : (Ahead \o Behind)[i] \in Range(confs)
          BY <5>3
        <5>5. Range(Ahead \o Behind) = {(Ahead \o Behind)[i] : i \in DOMAIN (Ahead \o Behind)}
          BY DEF Range
        <5> QED BY <5>4, <5>5
      <4> QED BY <3>2, <4>1 DEF QueueKnown, Subscribed, user
    <3> QED BY <2>1, <3>1, <3>2 DEF ConfBegin
  <2>2. CASE ScanFound
    BY <1>6, <1>7, <2>2 DEF ScanFound
  <2>3. CASE ScanMissing \/ SearchStep \/ SearchEnd
    BY <1>2, <2>3 DEF ScanMissing, SearchStep, SearchEnd, user
  <2>4. CASE ScanPast
    <3>1. CASE TextJob
      BY <1>6, <2>4, <3>1 DEF ScanPast
    <3>2. CASE ~TextJob
      <4>1. queue \in Seq(Confs) /\ queue # <<>>
        BY <1>0, <2>4 DEF ScanPast, Scanning, TypeOK
      <4>2. queue' = Tail(queue) /\ UNCHANGED << user, job, pc >> /\ pc = "scan"
        BY <2>4, <3>2 DEF ScanPast, Scanning
      <4>3. Range(queue') \subseteq Range(queue)
        <5>1. /\ Tail(queue) \in Seq(Confs) /\ Len(Tail(queue)) = Len(queue) - 1
              /\ \A i \in 1 .. Len(Tail(queue)) : Tail(queue)[i] = queue[i + 1]
          BY <4>1, HeadTailProperties
        <5> QED BY <4>1, <4>2, <5>1 DEF Range
      <4> QED BY <1>0, <4>2, <4>3 DEF QueueKnown, Subscribed, user
    <3> QED BY <3>1, <3>2
  <2>5. CASE ScanEnd
    BY <1>1, <2>5 DEF ScanEnd, ConfNone
  <2>6. CASE Skip
    BY <1>2, <2>6 DEF Skip, scan
  <2> QED BY <1>8, <2>1, <2>2, <2>3, <2>4, <2>5, <2>6 DEF Scan
<1>9. ASSUME Commands PROVE QueueKnown'
  <2>1. CASE ReadNexttext \/ (\E c \in Confs : ChangeConf(c))
              \/ (\E t \in 1 .. lastText[Current_conf] : ReadText(t) \/ GotoText(t))
    BY <1>2, <2>1 DEF ReadNexttext, ChangeConf, ReadText, GotoText, Command, user, scan
  <2>2. CASE SearchNexttext
    BY <1>4, <2>2 DEF SearchNexttext, user
  <2>3. CASE NextConf \/ Only \/ (\E c \in Confs : Subscribe(c))
    <3>1. queue = <<>>
      BY <1>0, <2>3 DEF QueueKnown, NextConf, Only, Subscribe, BeginSearch, Command
    <3>2. CASE NextConf
      BY <3>1, <3>2 DEF NextConf, QueueKnown, Range
    <3>3. CASE Only
      <4>1. queue' = << Current_conf >> /\ pc' = "search" /\ UNCHANGED confs
        BY <3>3 DEF Only, BeginSearch, user
      <4> QED BY <1>0, <4>1 DEF QueueKnown, Range, Subscribed
    <3>4. CASE \E c \in Confs : Subscribe(c)
      BY <3>4 DEF Subscribe, BeginSearch, QueueKnown
    <3> QED BY <2>3, <3>2, <3>3, <3>4
  <2>4. CASE SubscribeStore \/ (\E n \in 0 .. lastText[Current_conf] : OnlyStore(n))
    BY <1>1, <2>4 DEF SubscribeStore, OnlyStore
  <2>5. CASE \E i \in DOMAIN confs : Unsubscribe(i)
    <3>1. queue = <<>> /\ job = "None" /\ UNCHANGED << queue, job >>
      BY <1>0, <2>5 DEF QueueKnown, Unsubscribe, Command, scan
    <3> QED BY <3>1 DEF QueueKnown, Range
  <2> QED BY <1>9, <2>1, <2>2, <2>3, <2>4, <2>5 DEF Commands
<1>10. ASSUME UNCHANGED vars PROVE QueueKnown'
  BY <1>2, <1>10 DEF vars, user, scan
<1> QED BY <1>3, <1>5, <1>8, <1>9, <1>10 DEF Next

-----------------------------------------------------------------------------
(* Every step keeps the inductive invariant.                               *)
LEMMA NextIInv == IInv /\ [Next]_vars => IInv'
<1> SUFFICES ASSUME IInv, [Next]_vars PROVE TypedNormal'
  BY QueueStep DEF IInv
<1>1. CASE Others
  BY <1>1, OthersTypedNormal DEF IInv
<1>2. CASE DisplayPrompt \/ OtherPrompt \/ SamePrompt
  BY <1>2, PromptTypedNormal DEF IInv
<1>3. CASE Scan
  BY <1>3, ScanTypedNormal
<1>4. CASE Commands
  BY <1>4, CommandsTypedNormal DEF IInv
<1>5. CASE UNCHANGED vars
  BY <1>5 DEF vars, IInv, TypedNormal, TypeOK, ListsNormal, Subscribed, board, user, session, scan
<1> QED BY <1>1, <1>2, <1>3, <1>4, <1>5 DEF Next

(* Whatever a session does and whatever is posted and deleted meanwhile,   *)
(* every variable keeps its type and every interval list its normal form.  *)
THEOREM ReadingSafe == Spec => [](TypeOK /\ ListsNormal)
<1>1. Init => IInv
  <2>1. Init => QueueKnown
    BY DEF Init, QueueKnown, Range
  <2> QED BY <2>1, InitTypedNormal DEF IInv
<1>2. IInv => TypeOK /\ ListsNormal
  BY DEF IInv, TypedNormal
<1> QED BY <1>1, <1>2, NextIInv, PTL DEF Spec


-----------------------------------------------------------------------------
(* A text is offered by the scan of the current conference that began at   *)
(* the prompt; a prompt that need not be worked out again offers none.     *)
Offered ==
  /\ OfferIsFresh
  /\ ~Change_prompt => Nexttext \in {NoText, Unknown}
  /\ job \in {"PromptText", "PromptConf"} => Change_prompt
  /\ job = "PromptConf" => Nexttext = NoText
  /\ TextJob => queue = << Current_conf >> /\ pc # "conf"

LEMMA OfferedAtRest ==
  ASSUME job' = "None", pc' # "input", ~Change_prompt' => Nexttext' \in {NoText, Unknown}
  PROVE  Offered'
BY DEF Offered, OfferIsFresh, TextJob

LEMMA OfferedScan ==
  ASSUME IInv, Offered, Scan
  PROVE  Offered'
<1>1. job # "None" \/ pc \notin {"prompt", "input"}
  BY DEF Scan, ConfBegin, ScanFound, ScanMissing, ScanPast, ScanEnd, Scanning, Skip, SearchStep, SearchEnd
<1>2. ASSUME NEW t, TextAnswer(t), TextJob, t = NoText \/ t = FirstUnread(il[Current_conf])
      PROVE  Offered'
  <2>1. CASE job = "PromptText" /\ t # NoText
    BY <1>2, <2>1 DEF TextAnswer, Offered, OfferIsFresh, Return, TextJob
  <2>2. CASE job = "PromptText" /\ t = NoText
    BY <1>2, <2>2 DEF TextAnswer, Offered, OfferIsFresh, TextJob
  <2>3. CASE job = "NextText"
    BY <1>2, <2>3, OfferedAtRest DEF TextAnswer, Return
  <2> QED BY <1>2, <2>1, <2>2, <2>3 DEF TextJob
<1>3. ASSUME NEW c, ConfFound(c) PROVE Offered'
  <2>1. CASE job = "PromptConf"
    BY <1>3, <2>1 DEF ConfFound, Return, Offered, OfferIsFresh, TextJob, NoText
  <2>2. CASE job = "NextConf"
    BY <1>3, <2>2, OfferedAtRest DEF ConfFound, Return, Offered
  <2> QED BY <1>3, <2>1, <2>2 DEF ConfFound
<1>4. ASSUME ConfNone PROVE Offered'
  <2>1. CASE job = "PromptConf"
    BY <1>4, <2>1 DEF ConfNone, Return, Offered, OfferIsFresh, TextJob, NoText
  <2>2. CASE job = "NextConf"
    BY <1>4, <2>2, OfferedAtRest DEF ConfNone, Return, Offered
  <2> QED BY <1>4, <2>1, <2>2 DEF ConfNone
<1>5. CASE ConfBegin
  <2>1. CASE MailUnread
    BY <1>3, <1>5, <2>1 DEF ConfBegin
  <2>2. CASE ~MailUnread
    BY <1>5, <2>2 DEF ConfBegin, Offered, OfferIsFresh, TextJob, session
  <2> QED BY <2>1, <2>2
<1>6. CASE ScanFound \/ ScanPast
  <2>1. TextJob => Probed = FirstUnread(il[Current_conf])
    BY DEF Offered, Probed, Scanned
  <2>2. CASE ScanFound
    BY <1>2, <1>3, <2>1, <2>2 DEF ScanFound
  <2>3. CASE ScanPast /\ TextJob
    BY <1>2, <2>3 DEF ScanPast
  <2>4. CASE ScanPast /\ ~TextJob
    BY <2>4 DEF ScanPast, Scanning, Offered, OfferIsFresh, TextJob, session
  <2> QED BY <1>6, <2>2, <2>3, <2>4
<1>7. CASE ScanEnd
  BY <1>4, <1>7 DEF ScanEnd
<1>8. CASE ScanMissing \/ SearchStep
  BY <1>8 DEF ScanMissing, SearchStep, Scanning, Offered, OfferIsFresh, TextJob, session
<1>9. CASE Skip \/ SearchEnd
  BY <1>9 DEF Skip, SearchEnd, Offered, OfferIsFresh, TextJob, session, scan
<1> QED BY <1>5, <1>6, <1>7, <1>8, <1>9 DEF Scan

LEMMA OfferedPrompt ==
  ASSUME IInv, Offered, DisplayPrompt \/ OtherPrompt \/ SamePrompt
  PROVE  Offered'
<1>1. job = "None"
  BY DEF IInv, QueueKnown, DisplayPrompt, OtherPrompt, SamePrompt
<1>2. CASE DisplayPrompt
  BY <1>2 DEF DisplayPrompt, BeginText, Offered, OfferIsFresh, TextJob
<1>3. CASE OtherPrompt
  BY <1>1, <1>3 DEF OtherPrompt, Offered, OfferIsFresh, TextJob, Unknown, scan
<1>4. CASE SamePrompt
  BY <1>1, <1>4 DEF SamePrompt, Offered, OfferIsFresh, TextJob, NoText, Unknown, scan, session
<1> QED BY <1>2, <1>3, <1>4

LEMMA OfferedCommands ==
  ASSUME IInv, Offered, Commands
  PROVE  Offered'
<1>1. Command => job = "None"
  BY DEF IInv, QueueKnown, Command
<1>2. CASE ReadNexttext \/ (\E c \in Confs : ChangeConf(c))
            \/ (\E t \in 1 .. lastText[Current_conf] : ReadText(t) \/ GotoText(t))
            \/ (\E i \in DOMAIN confs : Unsubscribe(i))
  BY <1>1, <1>2, OfferedAtRest DEF ReadNexttext, ChangeConf, ReadText, GotoText, Unsubscribe, scan, session, Offered
<1>3. CASE SubscribeStore \/ (\E n \in 0 .. lastText[Current_conf] : OnlyStore(n))
  BY <1>3, OfferedAtRest DEF SubscribeStore, OnlyStore, Return, session, Offered
<1>4. CASE SearchNexttext
  BY <1>4 DEF SearchNexttext, BeginText, Offered, OfferIsFresh, TextJob, session
<1>5. CASE NextConf \/ Only \/ (\E c \in Confs : Subscribe(c))
  BY <1>5 DEF NextConf, Only, Subscribe, BeginSearch, Offered, OfferIsFresh, TextJob, session
<1> QED BY <1>2, <1>3, <1>4, <1>5 DEF Commands

LEMMA OfferedKeeps == IInv /\ Offered /\ [Next]_vars => Offered'
<1> SUFFICES ASSUME IInv, Offered, [Next]_vars PROVE Offered'
  OBVIOUS
<1>1. CASE Others
  <2>1. CASE Signal
    BY <2>1 DEF Signal, Offered, OfferIsFresh, TextJob, scan, user
  <2>2. CASE UNCHANGED << user, session, pc, scan >>
    BY <2>2 DEF Offered, OfferIsFresh, TextJob, scan, user, session
  <2> QED BY <1>1, <2>1, <2>2 DEF Others, PostFile, PostPublish, Delete
<1>2. CASE UNCHANGED vars
  BY <1>2 DEF vars, Offered, OfferIsFresh, TextJob, scan, user, session
<1> QED BY <1>1, <1>2, OfferedScan, OfferedPrompt, OfferedCommands DEF Next

(* The text a prompt offers is the first unread one of the conference the  *)
(* user is in: Nexttext and Change_prompt (src/text.c, src/admin.c) never  *)
(* leave a stale offer, whatever signals arrive and whatever the user does.*)
THEOREM OfferStaysFresh == Spec => []OfferIsFresh
<1>1. Init => IInv /\ Offered
  <2>1. Init => QueueKnown /\ Offered
    BY DEF Init, QueueKnown, Range, Offered, OfferIsFresh, TextJob, Unknown
  <2> QED BY <2>1, InitTypedNormal DEF IInv
<1>2. Offered => OfferIsFresh
  BY DEF Offered
<1> QED BY <1>1, <1>2, NextIInv, OfferedKeeps, PTL DEF Spec

-----------------------------------------------------------------------------
(* more_conf is through with a conference when it is no longer in the      *)
(* queue, and every text that was there when it began is marked.           *)
ConfJob    == job \in {"PromptConf", "NextConf"}
Through(c) == \A t \in files[c] \cap 1 .. limit[c] : Marked(il[c], t)

Looked ==
  /\ pc \in {"scan", "skip"} => TextJob \/ ConfJob
  /\ pc = "search" => job # "None"
  /\ pc = "conf" => ConfJob
  /\ ConfJob /\ pc # "conf" =>
       /\ pc \in {"scan", "search", "skip"}
       /\ \A c \in Subscribed \ {Current_conf} : c \in Range(queue) \/ Through(c)
       /\ \A c \in Confs : limit[c] <= lastText[c]

(* Every conference but the current one and the mailbox is looked at.      *)
LEMMA AllAround ==
  ASSUME TypeOK, NEW c \in Subscribed \ {Current_conf, Mailbox}
  PROVE  c \in Range(Ahead \o Behind)
<1>0. confs \in Seq(Confs) /\ Len(confs) \in Nat /\ DOMAIN confs = 1 .. Len(confs)
  BY DEF TypeOK
<1>1. PICK i \in 1 .. Len(confs) : confs[i] = c
  BY <1>0 DEF Subscribed, Range
<1>2. \A s, t \in Seq(Confs) : /\ (\E k \in 1 .. Len(s) : s[k] = c) => c \in Range(s \o t)
                               /\ (\E k \in 1 .. Len(t) : t[k] = c) => c \in Range(s \o t)
  <2> SUFFICES ASSUME NEW s \in Seq(Confs), NEW t \in Seq(Confs)
               PROVE  /\ (\E k \in 1 .. Len(s) : s[k] = c) => c \in Range(s \o t)
                      /\ (\E k \in 1 .. Len(t) : t[k] = c) => c \in Range(s \o t)
    OBVIOUS
  <2>1. /\ DOMAIN (s \o t) = 1 .. Len(s) + Len(t) /\ Len(s) \in Nat /\ Len(t) \in Nat
        /\ \A k \in 1 .. Len(s) : (s \o t)[k] = s[k]
        /\ \A k \in 1 .. Len(t) : (s \o t)[Len(s) + k] = t[k]
    BY ConcatProperties, LenProperties
  <2>2. ASSUME NEW k \in 1 .. Len(s), s[k] = c PROVE c \in Range(s \o t)
    BY <2>1, <2>2 DEF Range
  <2>3. ASSUME NEW k \in 1 .. Len(t), t[k] = c PROVE c \in Range(s \o t)
    <3>1. Len(s) + k \in 1 .. Len(s) + Len(t)
      BY <2>1
    <3> QED BY <2>1, <2>3, <3>1 DEF Range
  <2> QED BY <2>2, <2>3
<1>3. CASE Current_conf = Mailbox
  BY <1>0, <1>1, <1>2, <1>3 DEF Ahead, Behind
<1>4. CASE Current_conf # Mailbox
  <2>1. \E k \in DOMAIN confs : confs[k] = Current_conf
    BY <1>4 DEF TypeOK, Subscribed, Range
  <2>2. Here \in 1 .. Len(confs) /\ confs[Here] = Current_conf
    BY <1>0, <2>1 DEF Here
  <2>3. Here \in Int /\ i \in Int /\ i # Here
    BY <1>1, <2>2
  <2> DEFINE a == SubSeq(confs, Here + 1, Len(confs))
             b == SubSeq(confs, 1, Here - 1)
  <2>4. /\ a \in Seq(Confs) /\ Len(a) = Len(confs) - Here
        /\ \A k \in 1 .. Len(confs) - Here : a[k] = confs[Here + k]
    <3>1. \A k \in Here + 1 .. Len(confs) : confs[k] \in Confs
      BY <1>0, <2>2
    <3>2. /\ a \in Seq(Confs)
          /\ Len(a) = IF Here + 1 <= Len(confs) THEN Len(confs) - (Here + 1) + 1 ELSE 0
          /\ \A k \in 1 .. Len(confs) - (Here + 1) + 1 : a[k] = confs[Here + 1 + k - 1]
      BY <1>0, <2>2, <2>3, <3>1, SubSeqProperties
    <3> HIDE DEF a
    <3>3. Here \in Int /\ Len(confs) \in Int /\ Here <= Len(confs)
      BY <1>0, <2>2
    <3>4. Len(a) = Len(confs) - Here
      BY <3>2, <3>3
    <3>5. ASSUME NEW k \in 1 .. Len(confs) - Here PROVE a[k] = confs[Here + k]
      <4>1. k \in 1 .. Len(confs) - (Here + 1) + 1 /\ Here + 1 + k - 1 = Here + k
        BY <3>3
      <4> QED BY <3>2, <4>1
    <3> QED BY <3>2, <3>4, <3>5
  <2>5. b \in Seq(Confs) /\ Len(b) = Here - 1 /\ \A k \in 1 .. Here - 1 : b[k] = confs[k]
    BY <1>0, <2>2, <2>3, SubSeqProperties
  <2> HIDE DEF a, b
  <2>6. CASE i > Here
    <3>1. i - Here \in 1 .. Len(confs) - Here /\ Here + (i - Here) = i
      BY <1>0, <1>1, <2>3, <2>6
    <3>2. a[i - Here] = c
      BY <1>1, <2>4, <3>1
    <3>3. c \in Range(a \o b)
      BY <1>2, <2>4, <2>5, <3>1, <3>2
    <3> QED BY <1>4, <3>3 DEF Ahead, Behind, a, b
  <2>7. CASE i < Here
    <3>1. i \in 1 .. Here - 1
      BY <1>1, <2>2, <2>3, <2>7
    <3>2. c \in Range(a \o b)
      BY <1>1, <1>2, <2>4, <2>5, <3>1
    <3> QED BY <1>4, <3>2 DEF Ahead, Behind, a, b
  <2> QED BY <2>3, <2>6, <2>7
<1> QED BY <1>3, <1>4

(* A list whose first unread text is above n marks every text up to n.     *)
LEMMA MarkedBelow ==
  ASSUME TypeOK, ListsNormal, NEW c \in Confs, NEW n \in Nat, FirstUnread(il[c]) > n
  PROVE  \A t \in 1 .. n : Marked(il[c], t)
<1>1. /\ FirstUnread(il[c]) \in Nat \ {0}
      /\ \A t \in 1 .. FirstUnread(il[c]) - 1 : Marked(il[c], t)
  BY ListsAreNormal, FirstUnreadIs
<1>2. \A t \in 1 .. n : t \in 1 .. FirstUnread(il[c]) - 1
  BY <1>1
<1> QED BY <1>1, <1>2

LEMMA LookedElse ==
  ASSUME pc' \notin {"scan", "search", "skip", "conf"}, ~ConfJob'
  PROVE  Looked'
BY DEF Looked

LEMMA LookedScan ==
  ASSUME IInv, Offered, Looked, Scan
  PROVE  Looked'
<1>0. TypeOK /\ ListsNormal /\ TypedNormal
  BY DEF IInv, TypedNormal
<1>1. ASSUME NEW t, TextAnswer(t) PROVE Looked'
  BY <1>1, LookedElse DEF TextAnswer, Return, Looked, ConfJob, TextJob
<1>2. ASSUME NEW c, ConfFound(c) PROVE Looked'
  BY <1>2, LookedElse DEF ConfFound, Return, ConfJob
<1>3. ASSUME ConfNone PROVE Looked'
  BY <1>3, LookedElse DEF ConfNone, Return, ConfJob
<1>4. CASE ConfBegin
  <2>1. CASE MailUnread
    BY <1>2, <1>4, <2>1 DEF ConfBegin
  <2>2. CASE ~MailUnread
    <3>1. /\ queue' = Ahead \o Behind /\ limit' = lastText /\ pc' = "scan"
          /\ UNCHANGED << lastText, files, confs, il, Current_conf, job >> /\ ConfJob
      BY <1>4, <2>2 DEF ConfBegin, board, user, session, Looked
    <3>2. lastText \in [Confs -> Nat] /\ Mailbox \in Confs
      BY <1>0, ConfsAssumption DEF TypeOK
    <3>3. FirstUnread(il[Mailbox]) > lastText[Mailbox]
      BY <1>0, <2>2, <3>2, ListsAreNormal, FirstUnreadIs DEF MailUnread
    <3>4. \A t \in 1 .. lastText[Mailbox] : Marked(il[Mailbox], t)
      BY <1>0, <3>2, <3>3, MarkedBelow
    <3>5. \A c \in Subscribed \ {Current_conf} : c = Mailbox \/ c \in Range(queue')
      BY <1>0, <3>1, AllAround
    <3> QED BY <3>1, <3>2, <3>4, <3>5 DEF Looked, ConfJob, Through, Subscribed
  <2> QED BY <2>1, <2>2
<1>5. CASE ScanFound
  BY <1>1, <1>2, <1>5 DEF ScanFound
<1>6. CASE ScanPast
  <2>1. CASE TextJob
    BY <1>1, <1>6, <2>1 DEF ScanPast
  <2>2. CASE ~TextJob
    <3>1. /\ queue # <<>> /\ pc = "scan" /\ queue' = Tail(queue) /\ Probed > limit[Scanned] /\ ConfJob
          /\ UNCHANGED << lastText, files, confs, il, Current_conf, job, pc, limit >>
      BY <1>6, <2>2 DEF ScanPast, Scanning, board, user, session, Looked
    <3>2. Scanned \in Confs /\ limit[Scanned] \in Nat /\ queue \in Seq(Confs) /\ Scanned = queue[1]
      BY <1>0, <3>1, ProbedIsText DEF TypeOK, Scanned
    <3>3. \A t \in 1 .. limit[Scanned] : Marked(il[Scanned], t)
      BY <1>0, <3>1, <3>2, MarkedBelow DEF Probed
    <3>4. ASSUME NEW c \in Range(queue), c # Scanned PROVE c \in Range(Tail(queue))
      <4>1. PICK i \in 1 .. Len(queue) : queue[i] = c
        BY <3>2, <3>4 DEF Range
      <4>2. /\ Tail(queue) \in Seq(Confs) /\ Len(Tail(queue)) = Len(queue) - 1 /\ Len(queue) \in Nat
            /\ \A k \in 1 .. Len(Tail(queue)) : Tail(queue)[k] = queue[k + 1]
        BY <3>1, <3>2, HeadTailProperties, LenProperties
      <4>3. i # 1 /\ i \in Int
        BY <3>2, <3>4, <4>1
      <4>4. i - 1 \in 1 .. Len(Tail(queue)) /\ (i - 1) + 1 = i
        BY <4>1, <4>2, <4>3
      <4>5. Tail(queue)[i - 1] = c /\ DOMAIN Tail(queue) = 1 .. Len(Tail(queue))
        BY <4>1, <4>2, <4>4
      <4> QED BY <4>4, <4>5 DEF Range
    <3>5. \A c \in Subscribed \ {Current_conf} : c \in Range(queue') \/ Through(c)
      BY <3>1, <3>3, <3>4 DEF Looked, Through
    <3> QED BY <3>1, <3>5 DEF Looked, ConfJob, TextJob, Through, Subscribed
  <2> QED BY <2>1, <2>2
<1>7. CASE ScanEnd
  BY <1>3, <1>7 DEF ScanEnd
<1>8. CASE ScanMissing \/ SearchStep
  BY <1>8 DEF ScanMissing, SearchStep, Scanning, Looked, ConfJob, TextJob, Through, Subscribed,
              board, user, session
<1>9. CASE Skip
  <2>1. /\ pc = "skip" /\ pc' = "scan" /\ UNCHANGED << lastText, files, confs, Current_conf, scan >>
        /\ queue # <<>> /\ \A c \in Confs : c # Scanned => il'[c] = il[c]
    BY <1>0, <1>9 DEF Skip, board, session, TypeOK
  <2>2. Scanned \in Range(queue) /\ Subscribed \subseteq Confs
    <3>1. queue \in Seq(Confs) /\ Scanned = queue[1]
      BY <1>0, <2>1 DEF Scanned, TypeOK
    <3>2. 1 \in DOMAIN queue
      BY <2>1, <3>1
    <3> QED BY <1>0, <3>1, <3>2, SubscribedAreConfs DEF Range
  <2> QED BY <2>1, <2>2 DEF Looked, ConfJob, TextJob, Through, Subscribed, scan
<1>10. CASE SearchEnd
  <2>1. job \in {"Subscribe", "Only"} => ~ConfJob
    BY DEF ConfJob
  <2>2. /\ pc = "search" /\ pc' = (IF job \in {"Subscribe", "Only"} THEN "store" ELSE "skip")
        /\ UNCHANGED << lastText, files, confs, il, Current_conf, job, queue, limit >>
    BY <1>10 DEF SearchEnd, board, user, session
  <2>3. pc = "search" /\ job \notin {"Subscribe", "Only"} => TextJob \/ ConfJob
    BY <1>0 DEF Looked, TypeOK, Jobs, TextJob, ConfJob
  <2> QED BY <2>1, <2>2, <2>3 DEF Looked, ConfJob, TextJob, Through, Subscribed
<1> QED BY <1>4, <1>5, <1>6, <1>7, <1>8, <1>9, <1>10 DEF Scan

LEMMA LookedPrompt ==
  ASSUME IInv, Looked, DisplayPrompt \/ OtherPrompt \/ SamePrompt
  PROVE  Looked'
<1>1. job = "None"
  BY DEF IInv, QueueKnown, DisplayPrompt, OtherPrompt, SamePrompt
<1>2. CASE DisplayPrompt
  BY <1>2 DEF DisplayPrompt, BeginText, Looked, ConfJob, TextJob
<1>3. CASE OtherPrompt \/ SamePrompt
  BY <1>1, <1>3, LookedElse DEF OtherPrompt, SamePrompt, scan, ConfJob
<1> QED BY <1>2, <1>3

LEMMA LookedCommands ==
  ASSUME IInv, Looked, Commands
  PROVE  Looked'
<1>1. Command => job = "None"
  BY DEF IInv, QueueKnown, Command
<1>2. CASE ReadNexttext \/ (\E c \in Confs : ChangeConf(c))
            \/ (\E t \in 1 .. lastText[Current_conf] : ReadText(t) \/ GotoText(t))
            \/ (\E i \in DOMAIN confs : Unsubscribe(i))
  BY <1>1, <1>2, LookedElse DEF ReadNexttext, ChangeConf, ReadText, GotoText, Unsubscribe, scan, ConfJob
<1>3. CASE SubscribeStore \/ (\E n \in 0 .. lastText[Current_conf] : OnlyStore(n))
  BY <1>3, LookedElse DEF SubscribeStore, OnlyStore, Return, ConfJob
<1>4. CASE SearchNexttext
  BY <1>4 DEF SearchNexttext, BeginText, Looked, TextJob, ConfJob
<1>5. CASE NextConf \/ Only \/ (\E c \in Confs : Subscribe(c))
  BY <1>5 DEF NextConf, Only, Subscribe, BeginSearch, Looked, TextJob, ConfJob
<1> QED BY <1>2, <1>3, <1>4, <1>5 DEF Commands

(* A text that is posted during the scan has a number above its limit.     *)
LEMMA LookedOthers ==
  ASSUME IInv, Looked, Others
  PROVE  Looked'
<1>0. /\ lastText \in [Confs -> Nat] /\ files \in [Confs -> SUBSET Nat] /\ limit \in [Confs -> Nat]
      /\ Subscribed \subseteq Confs
  BY SubscribedAreConfs DEF IInv, TypedNormal, TypeOK
<1>1. CASE Signal
  <2>1. /\ UNCHANGED << lastText, files, confs, il, Current_conf, job, queue, limit >>
        /\ pc' = pc \/ (pc = "input" /\ pc' = "prompt")
    BY <1>1 DEF Signal, board, user, scan
  <2> QED BY <2>1 DEF Looked, ConfJob, TextJob, Through, Subscribed
<1>2. ASSUME NEW c \in Confs, PostFile(c) \/ PostPublish(c) \/ \E t \in files[c] : Delete(c, t)
      PROVE  Looked'
  <2>1. UNCHANGED << confs, il, Current_conf, pc, job, queue, limit >>
    BY <1>2 DEF PostFile, PostPublish, Delete, user, session, scan
  <2>2. \A d \in Confs : lastText'[d] \in Nat /\ lastText[d] <= lastText'[d]
    <3>1. CASE UNCHANGED lastText
      BY <1>0, <3>1
    <3>2. CASE lastText' = [lastText EXCEPT ![c] = @ + 1]
      BY <1>0, <3>2
    <3> QED BY <1>2, <3>1, <3>2 DEF PostFile, PostPublish, Delete
  <2>3. \A d \in Confs : files'[d] \subseteq files[d] \cup {lastText[d] + 1}
    BY <1>0, <1>2 DEF PostFile, PostPublish, Delete
  <2>4. ASSUME NEW d \in Confs, limit[d] <= lastText[d]
        PROVE  /\ limit[d] <= lastText'[d]
               /\ files'[d] \cap 1 .. limit[d] \subseteq files[d] \cap 1 .. limit[d]
    <3>1. limit[d] \in Nat /\ lastText[d] \in Nat /\ lastText[d] + 1 \notin 1 .. limit[d]
      BY <1>0, <2>4
    <3> QED BY <2>2, <2>3, <2>4, <3>1
  <2> QED BY <1>0, <2>1, <2>4 DEF Looked, ConfJob, TextJob, Through, Subscribed
<1> QED BY <1>1, <1>2 DEF Others

LEMMA LookedKeeps == IInv /\ Offered /\ Looked /\ [Next]_vars => Looked'
<1> SUFFICES ASSUME IInv, Offered, Looked, [Next]_vars PROVE Looked'
  OBVIOUS
<1>1. CASE UNCHANGED vars
  BY <1>1 DEF vars, Looked, ConfJob, TextJob, Through, Subscribed, scan, user, session, board
<1> QED BY <1>1, LookedScan, LookedPrompt, LookedCommands, LookedOthers DEF Next

(* When more_conf (src/conf.c) answers that there is nothing left, there   *)
(* is not, whatever is posted, deleted and signalled while it looks.       *)
THEOREM MoreConfIsRight == Spec => NothingLeftBehind
<1>1. Init => IInv /\ Offered /\ Looked
  <2>1. Init => QueueKnown /\ Offered /\ Looked
    BY DEF Init, QueueKnown, Range, Offered, OfferIsFresh, Looked, ConfJob, TextJob, Unknown
  <2> QED BY <2>1, InitTypedNormal DEF IInv
<1>2. ASSUME IInv, Offered, Looked, pc = "scan", queue = <<>>
      PROVE  \A c \in Subscribed \ {Current_conf} :
               \A t \in files[c] \cap 1 .. limit[c] : Marked(il[c], t)
  <2>1. ~TextJob
    <3>1. << Current_conf >> # <<>>
      OBVIOUS
    <3> QED BY <1>2, <3>1 DEF Offered
  <2>2. Range(queue) = {}
    BY <1>2 DEF Range
  <2> QED BY <1>2, <2>1, <2>2 DEF Looked, Through
<1> QED BY <1>1, <1>2, NextIInv, OfferedKeeps, LookedKeeps, PTL DEF Spec, NothingLeftBehind

-----------------------------------------------------------------------------
(* The board: texts have numbers from 1 up, one at most is above           *)
(* last_text, and the gaps are as they were assumed to be.                 *)
Board ==
  \A c \in Confs : /\ files[c] \subseteq 1 .. lastText[c] + 1
                   /\ GapsBounded(files[c], lastText[c])

(* No text is below first; high is above it until the search ends.         *)
Searching ==
  pc = "search" =>
    /\ first <= high \/ (first = 1 /\ high = 0)
    /\ high <= lastText[Scanned]
    /\ \A t \in files[Scanned] : first <= t

(* When three texts or fewer are missing in a row above an existing one,   *)
(* four that are missing have no text below them.                          *)
LEMMA NoneBelowFour ==
  ASSUME NEW exist, NEW last \in Nat, exist \subseteq Nat, GapsBounded(exist, last), MaxGap \in 0 .. 3,
         NEW m \in Int, m <= last, exist \cap m - 3 .. m = {}
  PROVE  \A t \in exist : m < t
<1> SUFFICES ASSUME NEW t \in exist, ~(m < t) PROVE FALSE
  OBVIOUS
<1> DEFINE D == {d \in Nat : m - d \in exist}
<1>1. m \in Nat /\ t \in Nat /\ m - t \in Nat /\ m - (m - t) = t
  OBVIOUS
<1>2. m - t \in D
  BY <1>1
<1>3. PICK d \in D : \A k \in D : d <= k
  BY <1>2, LeastElement
<1> DEFINE g == m - d
<1>4. g \in exist /\ g \in Nat /\ d \in Nat /\ g <= m
  BY <1>1, <1>3
<1>5. g + 4 <= m
  <2>1. g \notin m - 3 .. m
    BY <1>4
  <2> QED BY <1>1, <1>4, <2>1
<1>6. g + 4 \in g + 1 .. last /\ (g + 4) - g > MaxGap
  BY <1>1, <1>4, <1>5
<1>7. PICK k \in exist : k \in g + 1 .. g + 4
  BY <1>4, <1>6 DEF GapsBounded
<1>8. m - k \in Nat /\ m - (m - k) = k /\ m - k < d
  BY <1>1, <1>3, <1>4, <1>5, <1>7
<1>9. m - k \in D
  BY <1>7, <1>8
<1> QED BY <1>3, <1>8, <1>9

LEMMA MiddleIs == \A a, b \in Int : a < b => a <= (a + b) \div 2 /\ (a + b) \div 2 < b /\ (a + b) \div 2 \in Int
OBVIOUS

LEMMA BoardKeeps ==
  ASSUME IInv, Board, [Next]_vars
  PROVE  Board'
<1>0. lastText \in [Confs -> Nat] /\ files \in [Confs -> SUBSET Nat]
  BY DEF IInv, TypedNormal, TypeOK
<1>1. CASE UNCHANGED board
  BY <1>1 DEF Board, board
<1>2. ASSUME NEW c \in Confs, PostFile(c) PROVE Board'
  <2> DEFINE n == lastText[c] + 1
  <2>1. /\ lastText' = lastText /\ files'[c] = files[c] \cup {n}
        /\ \A d \in Confs : d # c => files'[d] = files[d]
    BY <1>0, <1>2 DEF PostFile
  <2>2. lastText[c] \in Nat /\ n \in 1 .. n
    BY <1>0
  <2>3. GapsBounded(files[c] \cup {n}, lastText[c])
    <3> SUFFICES ASSUME NEW t \in files[c] \cup {n}, NEW u \in t + 1 .. lastText[c], u - t > MaxGap
                 PROVE  (t + 1 .. u) \cap (files[c] \cup {n}) # {}
      BY DEF GapsBounded
    <3>1. t # n
      BY <2>2
    <3> QED BY <3>1 DEF Board, GapsBounded
  <2> QED BY <2>1, <2>2, <2>3 DEF Board
<1>3. ASSUME NEW c \in Confs, PostPublish(c) PROVE Board'
  <2> DEFINE n == lastText[c] + 1
  <2>1. /\ files' = files /\ lastText'[c] = n /\ n \in files[c]
        /\ \A d \in Confs : d # c => lastText'[d] = lastText[d]
    BY <1>0, <1>3 DEF PostPublish
  <2>2. lastText[c] \in Nat /\ files[c] \subseteq 1 .. n + 1
    BY <1>0 DEF Board
  <2>3. GapsBounded(files[c], n)
    <3> SUFFICES ASSUME NEW t \in files[c], NEW u \in t + 1 .. n, u - t > MaxGap
                 PROVE  (t + 1 .. u) \cap files[c] # {}
      BY DEF GapsBounded
    <3>0. t \in Nat /\ u \in Int
      BY <1>0
    <3>1. CASE u = n
      BY <2>1, <2>2, <3>0, <3>1
    <3>2. CASE u # n
      <4>1. u \in t + 1 .. lastText[c]
        BY <2>2, <3>0, <3>2
      <4> QED BY <4>1 DEF Board, GapsBounded
    <3> QED BY <3>1, <3>2
  <2> QED BY <2>1, <2>2, <2>3 DEF Board
<1>4. ASSUME NEW c \in Confs, NEW t \in files[c], Delete(c, t) PROVE Board'
  <2>1. /\ lastText' = lastText /\ files'[c] = files[c] \ {t} /\ GapsBounded(files'[c], lastText[c])
        /\ \A d \in Confs : d # c => files'[d] = files[d]
    BY <1>0, <1>4 DEF Delete
  <2> QED BY <2>1 DEF Board
<1>5. Others => Board'
  BY <1>1, <1>2, <1>3, <1>4 DEF Others, Signal
<1>6. DisplayPrompt \/ OtherPrompt \/ SamePrompt \/ Commands => UNCHANGED board
  BY DEF DisplayPrompt, OtherPrompt, SamePrompt, Commands, ReadNexttext, SearchNexttext, NextConf, Only,
         ChangeConf, Subscribe, BeginSearch, Unsubscribe, ReadText, GotoText, SubscribeStore, OnlyStore
<1>7. Scan => UNCHANGED board
  BY DEF Scan, ConfBegin, ScanFound, ScanMissing, ScanPast, ScanEnd, Skip, SearchStep, SearchEnd,
         TextAnswer, ConfFound, ConfNone
<1> QED BY <1>1, <1>5, <1>6, <1>7 DEF Next, vars

(* Whoever begins a search begins it with every text from 1 to last_text.  *)
LEMMA SearchBegins ==
  ASSUME IInv, Board, UNCHANGED board, first' = 1, NEW c \in Confs, high' = lastText[c], Scanned' = c
  PROVE  Searching'
<1>1. lastText[c] \in Nat /\ \A t \in files[c] : 1 <= t
  BY DEF IInv, TypedNormal, TypeOK, Board
<1> QED BY <1>1 DEF Searching, board

LEMMA SearchingKeeps ==
  ASSUME IInv, Board, Searching, MaxGap \in 0 .. 3, [Next]_vars
  PROVE  Searching'
<1>0. /\ TypeOK /\ lastText \in [Confs -> Nat] /\ files \in [Confs -> SUBSET Nat]
      /\ first \in Nat \ {0} /\ high \in Int
  BY DEF IInv, TypedNormal, TypeOK
<1>1. CASE pc' # "search"
  BY <1>1 DEF Searching
<1>2. CASE pc' = "search" /\ pc = "search"
  <2>1. queue # <<>> /\ Scanned \in Confs /\ lastText[Scanned] \in Nat
    BY <1>0, <1>2 DEF TypeOK, Scanned
  <2>2. CASE SearchStep
    <3>1. first < high /\ UNCHANGED << lastText, files, queue >>
      BY <2>2 DEF SearchStep, board
    <3>2. Middle \in Int /\ first <= Middle /\ Middle < high
      BY <1>0, <3>1, MiddleIs DEF Middle
    <3>3. high <= lastText[Scanned] /\ \A t \in files[Scanned] : first <= t /\ t \in Nat
      BY <1>0, <1>2, <2>1 DEF Searching
    <3>4. CASE Back = {}
      <4>1. first' = Middle + 1 /\ high' = high
        BY <2>2, <3>4 DEF SearchStep
      <4>2. files[Scanned] \cap Middle - 3 .. Middle = {}
        BY <3>4 DEF Back
      <4>3. \A t \in files[Scanned] : Middle < t
        <5>1. Middle <= lastText[Scanned]
          BY <1>0, <2>1, <3>2, <3>3
        <5>2. files[Scanned] \subseteq Nat /\ GapsBounded(files[Scanned], lastText[Scanned])
          BY <2>1, <3>3 DEF Board
        <5> QED BY <2>1, <3>2, <4>2, <5>1, <5>2, NoneBelowFour
      <4>4. \A t \in files[Scanned] : Middle + 1 <= t
        BY <3>2, <3>3, <4>3
      <4> QED BY <1>0, <3>1, <3>2, <3>3, <4>1, <4>4 DEF Searching, Scanned
    <3>5. CASE Back # {}
      <4>1. high' = Max(Back) /\ first' = first
        BY <2>2, <3>5 DEF SearchStep
      <4>2. Back \subseteq Middle - 3 .. Middle /\ Back \subseteq files[Scanned]
        BY DEF Back
      <4>3. Max(Back) \in Back /\ Max(Back) \in Int
        BY <3>2, <3>5, <4>2, MaxBackIsNumber
      <4>4. first <= high' /\ high' <= Middle /\ high' \in Int
        BY <3>2, <3>3, <4>1, <4>2, <4>3
      <4>5. high' <= lastText[Scanned]
        BY <1>0, <2>1, <3>2, <3>3, <4>4
      <4> QED BY <3>1, <3>3, <4>1, <4>4, <4>5 DEF Searching, Scanned
    <3> QED BY <3>4, <3>5
  <2>3. ASSUME NEW c \in Confs, PostFile(c) \/ PostPublish(c) \/ \E t \in files[c] : Delete(c, t)
        PROVE  Searching'
    <3>1. UNCHANGED << pc, queue, first, high >>
      BY <2>3 DEF PostFile, PostPublish, Delete, scan
    <3>2. lastText'[Scanned] \in Nat /\ lastText[Scanned] <= lastText'[Scanned]
      <4>1. CASE UNCHANGED lastText
        BY <2>1, <4>1
      <4>2. CASE lastText' = [lastText EXCEPT ![c] = @ + 1]
        BY <1>0, <2>1, <4>2
      <4> QED BY <2>3, <4>1, <4>2 DEF PostFile, PostPublish, Delete
    <3>3. files'[Scanned] \subseteq files[Scanned] \cup {lastText[Scanned] + 1}
      BY <1>0, <2>1, <2>3 DEF PostFile, PostPublish, Delete
    <3>4. first <= lastText[Scanned] + 1
      BY <1>0, <1>2, <2>1 DEF Searching
    <3>5. \A t \in files'[Scanned] : first <= t
      BY <1>2, <3>3, <3>4 DEF Searching
    <3>6. high <= lastText'[Scanned]
      BY <1>0, <1>2, <2>1, <3>2 DEF Searching
    <3> QED BY <1>2, <3>1, <3>5, <3>6 DEF Searching, Scanned
  <2>4. CASE Signal \/ UNCHANGED vars
    <3>1. UNCHANGED << lastText, files, queue, first, high >>
      BY <2>4 DEF Signal, vars, board, scan
    <3> QED BY <1>2, <3>1 DEF Searching, Scanned
  <2> QED BY <1>2, <2>2, <2>3, <2>4 DEF Next, Others, DisplayPrompt, OtherPrompt, SamePrompt, Scan, ConfBegin,
        ScanFound, ScanMissing, ScanPast, ScanEnd, Scanning, Skip, SearchEnd, Commands, ReadNexttext,
        SearchNexttext, NextConf, Only, ChangeConf, Subscribe, BeginSearch, Command, Unsubscribe,
        ReadText, GotoText, SubscribeStore, OnlyStore
<1>3. CASE pc' = "search" /\ pc # "search"
  <2>1. CASE ScanMissing
    <3>1. /\ queue # <<>> /\ first' = 1 /\ high' = lastText[Scanned]
          /\ UNCHANGED << board, queue >>
      BY <1>3, <2>1 DEF ScanMissing, Scanning
    <3>2. Scanned \in Confs /\ Scanned' = Scanned
      BY <1>0, <3>1 DEF TypeOK, Scanned
    <3> QED BY <3>1, <3>2, SearchBegins
  <2>2. ASSUME NEW c \in Confs, NEW j, BeginSearch(j, c) PROVE Searching'
    <3>1. queue' = << c >> /\ first' = 1 /\ high' = lastText[c] /\ UNCHANGED board
      BY <2>2 DEF BeginSearch
    <3> QED BY <3>1, SearchBegins DEF Scanned
  <2>3. CASE Only \/ \E c \in Confs : Subscribe(c)
    BY <1>0, <2>2, <2>3, SubscribedAreConfs DEF Only, Subscribe
  <2> QED BY <1>3, <2>1, <2>3 DEF Next, Others, PostFile, PostPublish, Delete, Signal, DisplayPrompt, BeginText,
        OtherPrompt, SamePrompt, Scan, ConfBegin, ScanFound, ScanPast, ScanEnd, Scanning, TextAnswer,
        ConfFound, ConfNone, Return, Skip, SearchStep, SearchEnd, Commands, ReadNexttext, SearchNexttext,
        NextConf, ChangeConf, Command, Unsubscribe, ReadText, GotoText, SubscribeStore, OnlyStore, vars
<1> QED BY <1>1, <1>2, <1>3

(* first_text (src/text.c) answers no text above one that exists, provided *)
(* that no more than three texts are missing in a row above an existing    *)
(* one.                                                                    *)
THEOREM FirstTextIsLowest == ASSUME MaxGap \in 0 .. 3 PROVE Spec => FirstIsLowest
<1>1. Init => IInv /\ Board /\ Searching
  <2>1. Init => QueueKnown /\ Searching
    BY DEF Init, QueueKnown, Range, Searching
  <2>2. Init => Board
    BY DEF Init, Board, GapsBounded
  <2> QED BY <2>1, <2>2, InitTypedNormal DEF IInv
<1>2. IInv /\ Board /\ Searching /\ [Next]_vars => NoTextBelow
  <2> SUFFICES ASSUME IInv, Board, Searching, [Next]_vars, pc = "search", pc' # "search"
               PROVE  \A t \in files[Scanned] : first' <= t
    BY DEF NoTextBelow
  <2>1. SearchEnd
    BY DEF Next, Others, PostFile, PostPublish, Delete, Signal, DisplayPrompt, OtherPrompt, SamePrompt, Scan,
       ConfBegin, ScanFound, ScanMissing, ScanPast, ScanEnd, Scanning, Skip, SearchStep, Commands,
       ReadNexttext, SearchNexttext, NextConf, Only, ChangeConf, Subscribe, BeginSearch, Command,
       Unsubscribe, ReadText, GotoText, SubscribeStore, OnlyStore, vars
  <2>2. first >= high /\ first' = (IF high < 1 THEN 1 ELSE high)
    BY <2>1 DEF SearchEnd, SearchResult
  <2>3. first \in Nat \ {0} /\ high \in Int /\ Scanned \in Confs
    BY DEF IInv, TypedNormal, TypeOK, Scanned
  <2>4. \A t \in files[Scanned] : first <= t /\ t \in Nat
    BY <2>3 DEF Searching, IInv, TypedNormal, TypeOK
  <2>5. first' = first
    BY <2>2, <2>3 DEF Searching
  <2> QED BY <2>4, <2>5
<1>3. IInv /\ Board /\ Searching /\ [Next]_vars => Board'
  BY BoardKeeps
<1>4. IInv /\ Board /\ Searching /\ [Next]_vars => Searching'
  BY SearchingKeeps
<1> QED BY <1>1, <1>2, <1>3, <1>4, NextIInv, PTL DEF Spec, FirstIsLowest

-----------------------------------------------------------------------------
(* The session as a set of read texts.  A search that ran for one          *)
(* conference is used for another one, whose texts it says nothing about:  *)
(* what is proved is about a user of one conference besides the mailbox.   *)
OneConference == \A c, d \in Confs \ {Mailbox} : c = d

Limits   == \A c \in Confs : limit[c] <= lastText[c]
Lists    == \A c \in Confs \ Subscribed : il[c] = <<>>
Newcomer == job = "Subscribe" => Scanned \notin Subscribed

(* The text that next_text or more_conf missed is missing until it is      *)
(* passed over.                                                            *)
AtMissing == pc = "skip" \/ (pc = "search" /\ job \notin {"Subscribe", "Only"})
Missed    == AtMissing => /\ Scanned # Mailbox
                          /\ Probed <= lastText[Scanned] /\ Probed \notin files[Scanned]

(* No text is below first, before, during and after a search.              *)
FirstLow ==
  job # "Only" => \A c \in Confs \ {Mailbox} :
                    first <= lastText[c] + 1 /\ \A t \in files[c] : first <= t

Passing == Limits /\ Lists /\ Newcomer /\ Missed /\ FirstLow

(* Texts come and go: last_text grows, and what is new is above it.        *)
LEMMA BoardMoves ==
  ASSUME TypeOK, NEW c \in Confs, PostFile(c) \/ PostPublish(c) \/ \E t \in files[c] : Delete(c, t)
  PROVE  /\ UNCHANGED << confs, il, Current_conf, pc, job, queue, limit, first, high >>
         /\ \A d \in Confs : /\ lastText[d] \in Nat /\ lastText'[d] \in Nat /\ lastText[d] <= lastText'[d]
                             /\ files'[d] \subseteq files[d] \cup {lastText[d] + 1}
<1>0. lastText \in [Confs -> Nat] /\ files \in [Confs -> SUBSET Nat]
  BY DEF TypeOK
<1>1. UNCHANGED << confs, il, Current_conf, pc, job, queue, limit, first, high >>
  BY DEF PostFile, PostPublish, Delete, user, session, scan
<1>2. \A d \in Confs : lastText'[d] \in Nat /\ lastText[d] <= lastText'[d]
  <2>1. CASE UNCHANGED lastText
    BY <1>0, <2>1
  <2>2. CASE lastText' = [lastText EXCEPT ![c] = @ + 1]
    BY <1>0, <2>2
  <2> QED BY <2>1, <2>2 DEF PostFile, PostPublish, Delete
<1>3. \A d \in Confs : files'[d] \subseteq files[d] \cup {lastText[d] + 1}
  BY <1>0 DEF PostFile, PostPublish, Delete
<1> QED BY <1>0, <1>1, <1>2, <1>3

LEMMA LimitsKeep == TypeOK /\ Limits /\ [Next]_vars => Limits'
<1> SUFFICES ASSUME TypeOK, Limits, [Next]_vars PROVE Limits'
  OBVIOUS
<1>0. lastText \in [Confs -> Nat] /\ limit \in [Confs -> Nat]
  BY DEF TypeOK
<1>1. CASE UNCHANGED << lastText, limit >>
  BY <1>1 DEF Limits
<1>2. CASE lastText' = lastText /\ (limit' = lastText \/ limit' = NoLimit)
  BY <1>0, <1>2 DEF Limits, NoLimit
<1>3. ASSUME NEW c \in Confs, PostFile(c) \/ PostPublish(c) \/ \E t \in files[c] : Delete(c, t)
      PROVE  Limits'
  <2>1. limit' = limit /\ \A d \in Confs : lastText[d] \in Nat /\ lastText'[d] \in Nat /\ lastText[d] <= lastText'[d]
    BY <1>3, BoardMoves
  <2>2. ASSUME NEW d \in Confs PROVE limit'[d] <= lastText'[d]
    <3>1. limit[d] <= lastText[d] /\ limit[d] \in Nat
      BY <1>0 DEF Limits
    <3> QED BY <2>1, <3>1
  <2> QED BY <2>2 DEF Limits
<1>4. DisplayPrompt \/ OtherPrompt \/ SamePrompt \/ Signal \/ UNCHANGED vars => Limits'
  BY <1>1, <1>2 DEF DisplayPrompt, BeginText, OtherPrompt, SamePrompt, Signal, vars, board, scan
<1>5. Commands => Limits'
  BY <1>1, <1>2 DEF Commands, ReadNexttext, SearchNexttext, BeginText, NextConf, Only, ChangeConf, Subscribe,
     BeginSearch, Unsubscribe, ReadText, GotoText, SubscribeStore, OnlyStore, Return, board, scan
<1>6. Scan => Limits'
  BY <1>1, <1>2 DEF Scan, ConfBegin, ScanFound, ScanMissing, ScanPast, ScanEnd, TextAnswer, ConfFound,
     ConfNone, Return, Skip, SearchStep, SearchEnd, board, scan
<1> QED BY <1>3, <1>4, <1>5, <1>6 DEF Next, Others

(* A list that is written is that of a subscribed conference.              *)
LEMMA ListsKeep == IInv /\ Looked /\ Lists /\ [Next]_vars => Lists'
<1> SUFFICES ASSUME IInv, Looked, Lists, [Next]_vars PROVE Lists'
  OBVIOUS
<1>0. /\ TypeOK /\ QueueKnown /\ il \in [Confs -> Seq(Interval)] /\ confs \in Seq(Confs)
      /\ Current_conf \in Subscribed /\ Subscribed \subseteq Confs
  BY SubscribedAreConfs DEF IInv, TypedNormal, TypeOK
<1>1. CASE UNCHANGED << confs, il >>
  BY <1>1 DEF Lists, Subscribed
<1>2. ASSUME NEW c \in Subscribed, NEW s, il' = [il EXCEPT ![c] = s], confs' = confs
      PROVE  Lists'
  <2>1. \A d \in Confs : d # c => il'[d] = il[d]
    BY <1>0, <1>2
  <2> QED BY <1>2, <2>1 DEF Lists, Subscribed
<1>3. CASE SubscribeStore
  <2>1. /\ confs' = Append(confs, Scanned) /\ il' = [il EXCEPT ![Scanned] = UpTo(first)]
        /\ Scanned \in Confs
    BY <1>0, <1>3 DEF SubscribeStore, TypeOK, Scanned
  <2>2. \A d \in Confs : d # Scanned => il'[d] = il[d]
    BY <1>0, <2>1
  <2>3. Range(confs') = Range(confs) \cup {Scanned}
    <3>1. /\ Len(confs') = Len(confs) + 1 /\ Len(confs) \in Nat
          /\ DOMAIN confs' = 1 .. Len(confs) + 1 /\ DOMAIN confs = 1 .. Len(confs)
          /\ \A k \in 1 .. Len(confs) : confs'[k] = confs[k]
          /\ confs'[Len(confs) + 1] = Scanned
      BY <1>0, <2>1
    <3>2. DOMAIN confs' = DOMAIN confs \cup {Len(confs) + 1}
      BY <3>1
    <3> QED BY <3>1, <3>2 DEF Range
  <2> QED BY <2>2, <2>3 DEF Lists, Subscribed
<1>4. ASSUME NEW i \in DOMAIN confs, Unsubscribe(i) PROVE Lists'
  <2>1. /\ confs' = RemoveAt(confs, i) /\ il' = [il EXCEPT ![confs[i]] = <<>>]
        /\ i \in 1 .. Len(confs) /\ confs[i] \in Confs
    BY <1>0, <1>4 DEF Unsubscribe
  <2>2. ASSUME NEW d \in Confs PROVE il'[d] = IF d = confs[i] THEN <<>> ELSE il[d]
    BY <1>0, <2>1
  <2>3. ASSUME NEW d \in Range(confs), d # confs[i] PROVE d \in Range(confs')
    <3>1. PICK k \in 1 .. Len(confs) : confs[k] = d
      BY <1>0 DEF Range
    <3>2. /\ confs' \in Seq(Confs) /\ Len(confs') = Len(confs) - 1 /\ Len(confs) \in Nat
          /\ \A m \in 1 .. Len(confs) - 1 : confs'[m] = IF m < i THEN confs[m] ELSE confs[m + 1]
      <4>1. confs \in Seq(Confs) /\ i \in 1 .. Len(confs) /\ Len(confs) \in Nat
        BY <1>0, <2>1
      <4>2. /\ RemoveAt(confs, i) \in Seq(Confs)
            /\ Len(RemoveAt(confs, i)) = Len(confs) - 1
            /\ \A m \in 1 .. Len(confs) - 1 : RemoveAt(confs, i)[m] =
                 IF m < i THEN confs[m] ELSE confs[m + 1]
        BY <4>1, RemoveAtIs
      <4> QED BY <2>1, <4>1, <4>2
    <3>3. DOMAIN confs' = 1 .. Len(confs) - 1
      BY <3>2
    <3>4. CASE k < i
      <4>1. k \in 1 .. Len(confs) - 1 /\ confs'[k] = d
        BY <2>1, <3>1, <3>2, <3>4
      <4> QED BY <3>3, <4>1 DEF Range
    <3>5. CASE k > i
      <4>1. k - 1 \in 1 .. Len(confs) - 1 /\ ~(k - 1 < i) /\ (k - 1) + 1 = k
        BY <2>1, <3>1, <3>2, <3>5
      <4>2. confs'[k - 1] = d
        BY <3>1, <3>2, <4>1
      <4> QED BY <3>3, <4>1, <4>2 DEF Range
    <3>6. k # i /\ k \in Int /\ i \in Int
      BY <2>1, <2>3, <3>1
    <3> QED BY <3>4, <3>5, <3>6
  <2> QED BY <2>2, <2>3 DEF Lists, Subscribed
<1>5. CASE Skip
  <2>1. Scanned \in Subscribed /\ confs' = confs
    <3>1. queue # <<>> /\ queue \in Seq(Confs) /\ job # "Subscribe"
      BY <1>0, <1>5 DEF Skip, TypeOK, Looked, TextJob, ConfJob
    <3>2. Scanned \in Range(queue)
      BY <3>1 DEF Scanned, Range
    <3> QED BY <1>0, <1>5, <3>1, <3>2 DEF QueueKnown, Skip
  <2> QED BY <1>2, <1>5, <2>1 DEF Skip
<1>6. ASSUME NEW t, TextAnswer(t) PROVE Lists'
  BY <1>0, <1>1, <1>2, <1>6 DEF TextAnswer
<1>7. Scan => Lists'
  BY <1>1, <1>5, <1>6 DEF Scan, ConfBegin, ScanFound, ScanMissing, ScanPast, ScanEnd, ConfFound,
     ConfNone, SearchStep, SearchEnd, user
<1>8. Others \/ DisplayPrompt \/ OtherPrompt \/ SamePrompt \/ UNCHANGED vars => Lists'
  BY <1>1 DEF Others, PostFile, PostPublish, Delete, Signal, DisplayPrompt, OtherPrompt, SamePrompt, vars, user
<1>9. ASSUME NEW t, ReadText(t) \/ GotoText(t) \/ OnlyStore(t) PROVE Lists'
  BY <1>0, <1>2, <1>9 DEF ReadText, GotoText, OnlyStore
<1>10. CASE ReadNexttext
  BY <1>0, <1>1, <1>2, <1>10 DEF ReadNexttext
<1>11. Commands => Lists'
  BY <1>1, <1>3, <1>4, <1>9, <1>10 DEF Commands, SearchNexttext, NextConf, Only, ChangeConf, Subscribe,
     BeginSearch, user
<1> QED BY <1>7, <1>8, <1>11 DEF Next

LEMMA NewcomerKeeps == IInv /\ Looked /\ Newcomer /\ [Next]_vars => Newcomer'
<1> SUFFICES ASSUME IInv, Looked, Newcomer, [Next]_vars, job' = "Subscribe" PROVE Scanned' \notin Subscribed'
  BY DEF Newcomer
<1>1. CASE UNCHANGED << confs, queue, job >>
  BY <1>1 DEF Newcomer, Scanned, Subscribed
<1>2. ASSUME NEW c \in Confs, Subscribe(c) PROVE Scanned' \notin Subscribed'
  BY <1>2 DEF Subscribe, BeginSearch, Scanned, Subscribed, user
<1>3. Others \/ DisplayPrompt \/ OtherPrompt \/ SamePrompt \/ UNCHANGED vars => UNCHANGED << confs, queue, job >>
  BY DEF Others, PostFile, PostPublish, Delete, Signal, DisplayPrompt, BeginText, OtherPrompt, SamePrompt,
     vars, user, scan
<1>4. Scan => UNCHANGED << confs, queue, job >>
  BY DEF Scan, ConfBegin, ScanFound, ScanMissing, ScanPast, ScanEnd, Scanning, TextAnswer, ConfFound,
     ConfNone, Return, Skip, SearchStep, SearchEnd, user, scan, Looked, TextJob, ConfJob
<1>5. CASE Commands
  <2>1. Command => job = "None"
    BY DEF IInv, QueueKnown, Command
  <2> QED BY <1>2, <1>5, <2>1 DEF Commands, ReadNexttext, SearchNexttext, BeginText, NextConf, Only, ChangeConf,
       BeginSearch, Unsubscribe, ReadText, GotoText, SubscribeStore, OnlyStore, Return, scan
<1> QED BY <1>1, <1>3, <1>4, <1>5 DEF Next

(* What a text is missed for stays true until it is passed over: whatever  *)
(* is posted meanwhile has a greater number.                               *)
LEMMA MissedKeeps ==
  ASSUME IInv, Looked, Limits, Missed, [Next]_vars
  PROVE  Missed'
<1> SUFFICES ASSUME AtMissing' PROVE (/\ Scanned # Mailbox
                                      /\ Probed <= lastText[Scanned] /\ Probed \notin files[Scanned])'
  BY DEF Missed
<1>0. TypeOK /\ TypedNormal /\ QueueKnown
  BY DEF IInv, TypedNormal
<1>1. CASE AtMissing /\ UNCHANGED << il, queue, board >>
  BY <1>1 DEF Missed, Probed, Scanned, board
<1>2. CASE ScanMissing
  <2>1. /\ queue # <<>> /\ Probed <= limit[Scanned] /\ Scanned # Mailbox /\ Probed \notin files[Scanned]
        /\ UNCHANGED << il, queue, board >>
    BY <1>2 DEF ScanMissing, Scanning, user
  <2>2. Scanned \in Confs /\ Probed \in Nat /\ limit[Scanned] \in Nat /\ lastText[Scanned] \in Nat
    BY <1>0, <2>1, ProbedIsText DEF TypeOK
  <2>3. Probed <= lastText[Scanned]
    BY <2>1, <2>2 DEF Limits
  <2> QED BY <2>1, <2>3 DEF Probed, Scanned, board
<1>3. ASSUME NEW c \in Confs, PostFile(c) \/ PostPublish(c) \/ \E t \in files[c] : Delete(c, t)
      PROVE  (/\ Scanned # Mailbox
              /\ Probed <= lastText[Scanned] /\ Probed \notin files[Scanned])'
  <2>1. UNCHANGED << il, pc, job, queue >> /\ AtMissing
    BY <1>0, <1>3, BoardMoves DEF AtMissing
  <2>2. queue # <<>> /\ Scanned \in Confs /\ Probed \in Nat
    BY <1>0, <2>1, ProbedIsText DEF TypeOK, AtMissing
  <2>3. Scanned' = Scanned /\ Probed' = Probed
    BY <2>1 DEF Scanned, Probed
  <2>4. /\ lastText[Scanned] \in Nat /\ lastText'[Scanned] \in Nat /\ lastText[Scanned] <= lastText'[Scanned]
        /\ files'[Scanned] \subseteq files[Scanned] \cup {lastText[Scanned] + 1}
    BY <1>0, <1>3, <2>2, BoardMoves
  <2>5. Scanned # Mailbox /\ Probed <= lastText[Scanned] /\ Probed \notin files[Scanned]
    BY <2>1 DEF Missed
  <2>6. Probed <= lastText'[Scanned] /\ Probed \notin files'[Scanned]
    BY <2>2, <2>4, <2>5
  <2> QED BY <2>3, <2>5, <2>6
<1>4. Signal \/ UNCHANGED vars => AtMissing /\ UNCHANGED << il, queue, board >>
  BY DEF Signal, vars, user, scan, AtMissing
<1>5. DisplayPrompt \/ OtherPrompt \/ SamePrompt => FALSE
  BY DEF DisplayPrompt, BeginText, OtherPrompt, SamePrompt, AtMissing
<1>6. Commands => FALSE
  BY DEF Commands, ReadNexttext, SearchNexttext, BeginText, NextConf, Only, ChangeConf, Subscribe,
     BeginSearch, Unsubscribe, ReadText, GotoText, SubscribeStore, OnlyStore, Return, AtMissing
<1>7. SearchStep \/ SearchEnd => AtMissing /\ UNCHANGED << il, queue, board >>
  BY DEF SearchStep, SearchEnd, user, AtMissing
<1>8. ConfBegin \/ ScanFound \/ ScanPast \/ ScanEnd \/ Skip => FALSE
  BY DEF ConfBegin, ScanFound, ScanPast, ScanEnd, Scanning, Skip, TextAnswer, ConfFound, ConfNone, Return, AtMissing
<1> QED BY <1>1, <1>2, <1>3, <1>4, <1>5, <1>6, <1>7, <1>8 DEF Next, Others, Scan

(* first is 1, or what the search for the one conference made of it.       *)
LEMMA FirstLowKeeps ==
  ASSUME OneConference, IInv, Looked, Board, Searching, Newcomer, Missed, FirstLow, Searching', [Next]_vars
  PROVE  FirstLow'
<1>0. /\ TypeOK /\ QueueKnown /\ lastText \in [Confs -> Nat] /\ files \in [Confs -> SUBSET Nat]
      /\ first \in Nat \ {0} /\ high \in Int
  BY DEF IInv, TypedNormal, TypeOK
<1>1. CASE first' = 1 /\ UNCHANGED board
  <2>1. ASSUME NEW c \in Confs PROVE 1 <= lastText[c] + 1 /\ \A t \in files[c] : 1 <= t
    BY <1>0 DEF Board
  <2> QED BY <1>1, <2>1 DEF FirstLow, board
<1>2. CASE first' = first /\ UNCHANGED board /\ (job = "Only" => job' = "Only")
  BY <1>2 DEF FirstLow, board
<1>3. ASSUME NEW c \in Confs, PostFile(c) \/ PostPublish(c) \/ \E t \in files[c] : Delete(c, t)
      PROVE  FirstLow'
  <2>1. /\ UNCHANGED << job, first >>
        /\ \A d \in Confs : /\ lastText[d] \in Nat /\ lastText'[d] \in Nat /\ lastText[d] <= lastText'[d]
                            /\ files'[d] \subseteq files[d] \cup {lastText[d] + 1}
    BY <1>0, <1>3, BoardMoves
  <2>2. ASSUME NEW d \in Confs, first <= lastText[d] + 1, \A t \in files[d] : first <= t
        PROVE  first <= lastText'[d] + 1 /\ \A t \in files'[d] : first <= t
    BY <1>0, <2>1, <2>2
  <2> QED BY <2>1, <2>2 DEF FirstLow
<1>4. CASE SearchStep
  <2> SUFFICES ASSUME job # "Only", NEW c \in Confs \ {Mailbox}
               PROVE  first' <= lastText'[c] + 1 /\ \A t \in files'[c] : first' <= t
    BY <1>4 DEF FirstLow, SearchStep
  <2>1. pc' = "search" /\ UNCHANGED << lastText, files, queue >> /\ pc = "search" /\ queue # <<>>
    BY <1>0, <1>4 DEF SearchStep, board, TypeOK
  <2>2. Scanned \in Confs \ {Mailbox}
    <3>1. Scanned \in Confs
      BY <1>0, <2>1 DEF TypeOK, Scanned
    <3>2. CASE job = "Subscribe"
      BY <3>1, <3>2 DEF Newcomer, Subscribed
    <3>3. CASE job # "Subscribe"
      BY <2>1, <3>1, <3>3 DEF Missed, AtMissing
    <3> QED BY <3>2, <3>3
  <2>3. c = Scanned
    BY <2>2 DEF OneConference
  <2>4. first' \in Nat /\ high' \in Int
    <3>1. TypeOK'
      BY NextIInv DEF IInv, TypedNormal
    <3> QED BY <3>1 DEF TypeOK
  <2>5. /\ first' <= high' \/ (first' = 1 /\ high' = 0)
        /\ high' <= lastText[Scanned]
        /\ \A t \in files[Scanned] : first' <= t
    BY <2>1 DEF Searching, Scanned
  <2>6. lastText[Scanned] \in Nat
    BY <1>0, <2>2
  <2>7. first' <= lastText[Scanned] + 1
    BY <2>4, <2>5, <2>6
  <2> QED BY <2>1, <2>3, <2>5, <2>7
<1>5. CASE SearchEnd
  <2>1. first >= high /\ first' = (IF high < 1 THEN 1 ELSE high) /\ pc = "search"
    BY <1>5 DEF SearchEnd, SearchResult
  <2>2. first' = first
    BY <1>0, <2>1 DEF Searching
  <2>3. UNCHANGED board /\ job' = job
    BY <1>5 DEF SearchEnd
  <2> QED BY <1>2, <2>2, <2>3
<1>6. CASE DisplayPrompt \/ OtherPrompt \/ SamePrompt \/ Signal \/ UNCHANGED vars
  <2>1. UNCHANGED << board, first >>
    BY <1>6 DEF DisplayPrompt, BeginText, OtherPrompt, SamePrompt, Signal, vars, scan
  <2>2. job = "Only" => job' = "Only"
    BY <1>0, <1>6 DEF QueueKnown, DisplayPrompt, OtherPrompt, SamePrompt, Signal, vars, scan
  <2> QED BY <1>2, <2>1, <2>2
<1>7. CASE ConfBegin \/ ScanFound \/ ScanMissing \/ ScanPast \/ ScanEnd \/ Skip
  <2>1. job # "Only"
    BY <1>7 DEF ConfBegin, ScanFound, ScanMissing, ScanPast, ScanEnd, Scanning, Skip, Looked, TextJob, ConfJob
  <2>2. UNCHANGED board /\ (first' = first \/ first' = 1)
    BY <1>7 DEF ConfBegin, ScanFound, ScanMissing, ScanPast, ScanEnd, Skip, TextAnswer, ConfFound, ConfNone,
                Return, scan
  <2> QED BY <1>1, <1>2, <2>1, <2>2
<1>8. CASE Commands
  <2>1. Command => job = "None"
    BY <1>0 DEF QueueKnown, Command
  <2>2. UNCHANGED board
    BY <1>8 DEF Commands, ReadNexttext, SearchNexttext, NextConf, Only, ChangeConf, Subscribe, BeginSearch,
                Unsubscribe, ReadText, GotoText, SubscribeStore, OnlyStore
  <2>3. first' = 1 \/ (first' = first /\ job = "None")
    BY <1>8, <2>1 DEF Commands, ReadNexttext, SearchNexttext, BeginText, NextConf, Only, ChangeConf, Subscribe,
       BeginSearch, Unsubscribe, ReadText, GotoText, SubscribeStore, OnlyStore, Return, scan
  <2> QED BY <1>1, <1>2, <2>2, <2>3
<1> QED BY <1>3, <1>4, <1>5, <1>6, <1>7, <1>8 DEF Next, Others, Scan

(* The abstract state.                                                     *)
ReadTexts == [c \in Confs |-> MarkedTexts(il[c])]
Marking   == pc = "skip" \/ (pc = "store" /\ job = "Subscribe")

(* Steps that write no list.                                               *)
LEMMA RefinesElsewhere ==
  ASSUME TypeOK', UNCHANGED il
  PROVE  Abstract!Next
<1>1. ReadTexts' = ReadTexts
  BY DEF ReadTexts
<1>2. files' \in [Confs -> SUBSET Nat]
  BY DEF TypeOK
<1>3. Marking' \in BOOLEAN
  BY DEF Marking
<1> QED BY <1>1, <1>2, <1>3 DEF Abstract!Next, Abstract!Elsewhere, ReadTexts, Marking

(* Steps that write one.                                                   *)
LEMMA OneSetChanged ==
  ASSUME TypedNormal, NEW c \in Confs, NEW s, Normal(s), il' = [il EXCEPT ![c] = s]
  PROVE  /\ ReadTexts' = [ReadTexts EXCEPT ![c] = {u \in Nat \ {0} : Marked(s, u)}]
         /\ ReadTexts[c] = {u \in Nat \ {0} : Marked(il[c], u)}
         /\ ReadTexts'[c] = {u \in Nat \ {0} : Marked(s, u)}
<1>1. Normal(il[c]) /\ il \in [Confs -> Seq(Interval)]
  BY ListsAreNormal DEF TypedNormal, TypeOK
<1>2. \A d \in Confs : il'[d] = IF d = c THEN s ELSE il[d]
  BY <1>1
<1>3. MarkedTexts(s) = {u \in Nat \ {0} : Marked(s, u)}
  BY MarkedTextsAre
<1>4. MarkedTexts(il[c]) = {u \in Nat \ {0} : Marked(il[c], u)}
  BY <1>1, MarkedTextsAre
<1>5. ReadTexts' = [d \in Confs |-> MarkedTexts(il'[d])]
  BY DEF ReadTexts
<1>6. ReadTexts' = [ReadTexts EXCEPT ![c] = MarkedTexts(s)]
  <2>1. \A d \in Confs : MarkedTexts(il'[d]) = IF d = c THEN MarkedTexts(s) ELSE MarkedTexts(il[d])
    BY <1>2
  <2>2. ReadTexts' = [d \in Confs |-> IF d = c THEN MarkedTexts(s) ELSE MarkedTexts(il[d])]
    BY <1>5, <2>1
  <2> QED BY <2>2 DEF ReadTexts
<1>7. ReadTexts[c] = MarkedTexts(il[c]) /\ ReadTexts'[c] = MarkedTexts(s)
  BY <1>2, <1>5 DEF ReadTexts
<1> QED BY <1>3, <1>4, <1>6, <1>7

(* The user reads a text.                                                  *)
LEMMA RefinesRead ==
  ASSUME TypedNormal, NEW c \in Confs, NEW t \in Nat \ {0}, il' = [il EXCEPT ![c] = MarkAsRead(il[c], t)],
         files' = files, ~Marking, ~Marking'
  PROVE  Abstract!Next
<1> DEFINE s == MarkAsRead(il[c], t)
<1>1. Normal(il[c])
  BY ListsAreNormal DEF TypedNormal
<1>2. Normal(s) /\ \A u \in Nat : Marked(s, u) <=> Marked(il[c], u) \/ u = t
  BY <1>1, MarkAsReadNormal, MarkAsReadMarks
<1>3. il' = [il EXCEPT ![c] = s]
  OBVIOUS
<1> HIDE DEF s
<1>4. /\ ReadTexts' = [ReadTexts EXCEPT ![c] = {u \in Nat \ {0} : Marked(s, u)}]
      /\ ReadTexts[c] = {u \in Nat \ {0} : Marked(il[c], u)}
      /\ ReadTexts'[c] = {u \in Nat \ {0} : Marked(s, u)}
  BY <1>2, <1>3, OneSetChanged
<1>5. {u \in Nat \ {0} : Marked(s, u)} = ReadTexts[c] \cup {t}
  BY <1>2, <1>4
<1>6. t \in ReadTexts'[c] /\ ReadTexts' = [ReadTexts EXCEPT ![c] = @ \cup {t}]
  BY <1>4, <1>5
<1>7. Abstract!Read(c)
  BY <1>6 DEF Abstract!Read, ReadTexts, Marking
<1> QED BY <1>7 DEF Abstract!Next, Marking

(* The user wants a text back.                                             *)
LEMMA RefinesUnread ==
  ASSUME TypedNormal, TypeOK', NEW c \in Confs, NEW t \in Nat \ {0},
         il' = [il EXCEPT ![c] = MarkAsUnread(il[c], t)],
         files' = files, ~Marking, ~Marking'
  PROVE  Abstract!Next
<1> DEFINE s == MarkAsUnread(il[c], t)
<1>1. Normal(il[c]) /\ il \in [Confs -> Seq(Interval)]
  BY ListsAreNormal DEF TypedNormal, TypeOK
<1>2. CASE ~Marked(il[c], t)
  <2>1. il' = il
    BY <1>1, <1>2 DEF MarkAsUnread
  <2> QED BY <2>1, RefinesElsewhere
<1>3. CASE Marked(il[c], t)
  <2>2. Normal(s) /\ \A u \in Nat : Marked(s, u) <=> Marked(il[c], u) /\ u # t
    BY <1>1, MarkAsUnreadNormal, MarkAsUnreadMarks
  <2>3. il' = [il EXCEPT ![c] = s]
    OBVIOUS
  <2> HIDE DEF s
  <2>4. /\ ReadTexts' = [ReadTexts EXCEPT ![c] = {u \in Nat \ {0} : Marked(s, u)}]
        /\ ReadTexts[c] = {u \in Nat \ {0} : Marked(il[c], u)}
    BY <2>2, <2>3, OneSetChanged
  <2>5. {u \in Nat \ {0} : Marked(s, u)} = ReadTexts[c] \ {t}
    BY <2>2, <2>4
  <2>6. t \in ReadTexts[c] /\ ReadTexts' = [ReadTexts EXCEPT ![c] = @ \ {t}]
    BY <1>3, <2>4, <2>5
  <2>7. Abstract!Unread(c)
    BY <2>6 DEF Abstract!Unread, ReadTexts, Marking
  <2> QED BY <2>7 DEF Abstract!Next, Marking
<1> QED BY <1>2, <1>3

(* The user keeps only the last texts, or none.                            *)
LEMMA RefinesKeepLast ==
  ASSUME TypedNormal, NEW c \in Confs, NEW n \in Int, il' = [il EXCEPT ![c] = UpTo(n)],
         files' = files, ~Marking, ~Marking'
  PROVE  Abstract!Next
<1>1. Normal(UpTo(n)) /\ \A u \in Nat \ {0} : Marked(UpTo(n), u) <=> u < n
  BY UpToNormal, UpToMarks
<1>2. /\ ReadTexts' = [ReadTexts EXCEPT ![c] = {u \in Nat \ {0} : Marked(UpTo(n), u)}]
      /\ ReadTexts'[c] = {u \in Nat \ {0} : Marked(UpTo(n), u)}
  BY <1>1, OneSetChanged
<1>3. \A t \in ReadTexts'[c] : 1 .. t \subseteq ReadTexts'[c]
  BY <1>1, <1>2
<1>4. ReadTexts' = [ReadTexts EXCEPT ![c] = ReadTexts'[c]]
  BY <1>2
<1>5. Abstract!KeepLast(c)
  BY <1>3, <1>4 DEF Abstract!KeepLast, ReadTexts, Marking
<1> QED BY <1>5 DEF Abstract!Next, Marking

(* The program passes over texts: those that it adds are missing.          *)
LEMMA RefinesPassOver ==
  ASSUME TypedNormal, NEW c \in Confs, NEW s, Normal(s), il' = [il EXCEPT ![c] = s],
         \A u \in Nat \ {0} : Marked(il[c], u) => Marked(s, u),
         \A u \in Nat \ {0} : Marked(s, u) /\ u \in files[c] => Marked(il[c], u),
         files' = files, Marking, ~Marking'
  PROVE  Abstract!Next
<1> DEFINE missing == {u \in Nat \ {0} : Marked(s, u) /\ ~Marked(il[c], u)}
<1>1. /\ ReadTexts' = [ReadTexts EXCEPT ![c] = {u \in Nat \ {0} : Marked(s, u)}]
      /\ ReadTexts[c] = {u \in Nat \ {0} : Marked(il[c], u)}
      /\ ReadTexts'[c] = {u \in Nat \ {0} : Marked(s, u)}
  BY OneSetChanged
<1>2. missing \in SUBSET (ReadTexts'[c] \ files[c])
  BY <1>1
<1>3. {u \in Nat \ {0} : Marked(s, u)} = ReadTexts[c] \cup missing
  BY <1>1
<1>4. ReadTexts' = [ReadTexts EXCEPT ![c] = @ \cup missing]
  BY <1>1, <1>3
<1> HIDE DEF missing
<1>5. Abstract!PassOver(c)
  BY <1>2, <1>4 DEF Abstract!PassOver, ReadTexts, Marking
<1> QED BY <1>5 DEF Abstract!Next, Marking

LEMMA ScanRefines ==
  ASSUME OneConference, IInv, Looked, Board, Passing, TypeOK', Scan
  PROVE  Abstract!Next
<1>0. TypedNormal /\ TypeOK /\ QueueKnown /\ il \in [Confs -> Seq(Interval)] /\ Current_conf \in Confs
  BY SubscribedAreConfs DEF IInv, TypedNormal, TypeOK
<1>1. ASSUME NEW t \in Nat, TextAnswer(t), pc = "scan" PROVE Abstract!Next
  <2>1. CASE UNCHANGED il
    BY <2>1, RefinesElsewhere
  <2>2. CASE ~UNCHANGED il
    <3>1. t \in Nat \ {0} /\ il' = [il EXCEPT ![Current_conf] = MarkAsRead(@, t)] /\ pc' = "prompt"
          /\ files' = files
      BY <1>1, <2>2 DEF TextAnswer, Return, NoText, board
    <3> QED BY <1>0, <1>1, <3>1, RefinesRead DEF Marking
  <2> QED BY <2>1, <2>2
<1>2. CASE ScanFound /\ TextJob
  <2>1. Probed \in Nat /\ pc = "scan" /\ TextAnswer(Probed)
    BY <1>0, <1>2, ProbedIsText DEF ScanFound, Scanning
  <2> QED BY <1>1, <2>1
<1>3. CASE ScanPast /\ TextJob
  BY <1>1, <1>3 DEF ScanPast, Scanning, NoText
<1>4. CASE Skip
  <2>1. pc = "skip" /\ pc' = "scan" /\ files' = files /\ queue # <<>>
    BY <1>0, <1>4 DEF Skip, TypeOK, board
  <2>2. Scanned \in Confs /\ Probed \in Nat \ {0}
    BY <1>0, <2>1, ProbedIsText
  <2>3. Scanned # Mailbox /\ Probed \notin files[Scanned] /\ \A t \in files[Scanned] : first <= t
    <3>1. Scanned # Mailbox /\ Probed \notin files[Scanned]
      BY <2>1 DEF Passing, Missed, AtMissing
    <3>2. job # "Only"
      BY <2>1 DEF Looked, TextJob, ConfJob
    <3> QED BY <2>2, <3>1, <3>2 DEF Passing, FirstLow
  <2>4. first \in Int /\ files[Scanned] \subseteq Nat
    BY <1>0, <2>2 DEF TypeOK
  <2>5. Normal(il[Scanned])
    BY <1>0, <2>2, ListsAreNormal DEF TypedNormal
  <2>6. Marking /\ ~Marking'
    BY <2>1 DEF Marking
  <2>7. CASE NothingAbove(il[Scanned]) /\ first > Probed
    <3>1. il' = [il EXCEPT ![Scanned] = UpTo(first)]
      BY <1>4, <2>7 DEF Skip
    <3>2. Normal(UpTo(first)) /\ \A u \in Nat \ {0} : Marked(UpTo(first), u) <=> u < first
      BY <2>4, UpToNormal, UpToMarks
    <3>3. \A u \in Nat \ {0} : Marked(il[Scanned], u) <=> u < Probed
      BY <2>5, <2>7, NothingAboveMarks DEF Probed
    <3>4. \A u \in Nat \ {0} : Marked(il[Scanned], u) => Marked(UpTo(first), u)
      BY <2>2, <2>4, <2>7, <3>2, <3>3
    <3>5. \A u \in Nat \ {0} : Marked(UpTo(first), u) /\ u \in files[Scanned] => Marked(il[Scanned], u)
      BY <2>3, <2>4, <3>2
    <3> QED BY <1>0, <2>1, <2>2, <2>6, <3>1, <3>2, <3>4, <3>5, RefinesPassOver
  <2>8. CASE ~(NothingAbove(il[Scanned]) /\ first > Probed)
    <3> DEFINE s == MarkAsRead(il[Scanned], Probed)
    <3>1. il' = [il EXCEPT ![Scanned] = s]
      BY <1>4, <2>8 DEF Skip
    <3>2. Normal(s) /\ \A u \in Nat : Marked(s, u) <=> Marked(il[Scanned], u) \/ u = Probed
      BY <2>2, <2>5, MarkAsReadNormal, MarkAsReadMarks
    <3> HIDE DEF s
    <3>3. \A u \in Nat \ {0} : Marked(il[Scanned], u) => Marked(s, u)
      BY <3>2
    <3>4. \A u \in Nat \ {0} : Marked(s, u) /\ u \in files[Scanned] => Marked(il[Scanned], u)
      BY <2>3, <3>2
    <3> QED BY <1>0, <2>1, <2>2, <2>6, <3>1, <3>2, <3>3, <3>4, RefinesPassOver
  <2> QED BY <2>7, <2>8
<1>5. CASE ConfBegin \/ (ScanFound /\ ~TextJob) \/ ScanMissing \/ (ScanPast /\ ~TextJob) \/ ScanEnd
            \/ SearchStep \/ SearchEnd
  <2>1. UNCHANGED il
    BY <1>5 DEF ConfBegin, ScanFound, ScanMissing, ScanPast, ScanEnd, SearchStep, SearchEnd, ConfFound, ConfNone,
                user
  <2> QED BY <2>1, RefinesElsewhere
<1> QED BY <1>2, <1>3, <1>4, <1>5 DEF Scan

LEMMA CommandsRefine ==
  ASSUME OneConference, IInv, Looked, Board, Passing, TypeOK', Commands
  PROVE  Abstract!Next
<1>0. /\ TypedNormal /\ TypeOK /\ QueueKnown /\ il \in [Confs -> Seq(Interval)] /\ Current_conf \in Confs
      /\ lastText[Current_conf] \in Nat
  BY SubscribedAreConfs DEF IInv, TypedNormal, TypeOK
<1>1. CASE UNCHANGED il
  BY <1>1, RefinesElsewhere
<1>2. CASE ReadNexttext
  <2>1. CASE Nexttext = NoText
    BY <1>1, <1>2, <2>1 DEF ReadNexttext
  <2>2. CASE Nexttext # NoText
    <3>1. /\ il' = [il EXCEPT ![Current_conf] = MarkAsRead(@, Nexttext)] /\ Nexttext \in Nat \ {0}
          /\ pc = "input" /\ pc' = "prompt" /\ files' = files
      BY <1>0, <1>2, <2>2 DEF ReadNexttext, Command, TypeOK, NoText, board
    <3> QED BY <1>0, <3>1, RefinesRead DEF Marking
  <2> QED BY <2>1, <2>2
<1>3. ASSUME NEW t \in 1 .. lastText[Current_conf], ReadText(t) PROVE Abstract!Next
  <2>1. /\ il' = [il EXCEPT ![Current_conf] = MarkAsRead(@, t)] /\ t \in Nat \ {0}
        /\ pc = "input" /\ pc' = "prompt" /\ files' = files
    BY <1>0, <1>3 DEF ReadText, Command, board
  <2> QED BY <1>0, <2>1, RefinesRead DEF Marking
<1>4. ASSUME NEW t \in 1 .. lastText[Current_conf], GotoText(t) PROVE Abstract!Next
  <2>1. /\ il' = [il EXCEPT ![Current_conf] = MarkAsUnread(@, t)] /\ t \in Nat \ {0}
        /\ pc = "input" /\ pc' = "prompt" /\ files' = files
    BY <1>0, <1>4 DEF GotoText, Command, board
  <2> QED BY <1>0, <2>1, RefinesUnread DEF Marking
<1>5. CASE SubscribeStore
  <2>1. /\ pc = "store" /\ job = "Subscribe" /\ pc' = "prompt" /\ files' = files /\ queue # <<>>
        /\ il' = [il EXCEPT ![Scanned] = UpTo(first)]
    BY <1>0, <1>5 DEF SubscribeStore, Return, TypeOK, board
  <2>2. Scanned \in Confs \ Subscribed
    BY <1>0, <2>1, ProbedIsText DEF Passing, Newcomer
  <2>3. il[Scanned] = <<>> /\ \A t \in files[Scanned] : first <= t
    BY <2>1, <2>2 DEF Passing, Lists, FirstLow, Subscribed
  <2>4. first \in Int /\ files[Scanned] \subseteq Nat
    BY <1>0, <2>2 DEF TypeOK
  <2>5. Normal(UpTo(first)) /\ \A u \in Nat \ {0} : Marked(UpTo(first), u) <=> u < first
    BY <2>4, UpToNormal, UpToMarks
  <2>6. \A u \in Nat \ {0} : Marked(il[Scanned], u) => Marked(UpTo(first), u)
    BY <2>3 DEF Marked
  <2>7. \A u \in Nat \ {0} : Marked(UpTo(first), u) /\ u \in files[Scanned] => Marked(il[Scanned], u)
    BY <2>3, <2>4, <2>5
  <2>8. Marking /\ ~Marking'
    BY <2>1 DEF Marking
  <2> QED BY <1>0, <2>1, <2>2, <2>5, <2>6, <2>7, <2>8, RefinesPassOver
<1>6. ASSUME NEW n \in 0 .. lastText[Current_conf], OnlyStore(n) PROVE Abstract!Next
  <2>1. /\ il' = [il EXCEPT ![Current_conf] = UpTo(lastText[Current_conf] - n + 1)]
        /\ lastText[Current_conf] - n + 1 \in Int
        /\ job = "Only" /\ pc' = "prompt" /\ files' = files /\ pc = "store"
    BY <1>0, <1>6 DEF OnlyStore, Return, board
  <2> QED BY <1>0, <2>1, RefinesKeepLast DEF Marking
<1>7. ASSUME NEW i \in DOMAIN confs, Unsubscribe(i) PROVE Abstract!Next
  <2>1. /\ il' = [il EXCEPT ![confs[i]] = UpTo(1)] /\ confs[i] \in Confs
        /\ pc = "input" /\ pc' = "prompt" /\ files' = files
    BY <1>0, <1>7 DEF Unsubscribe, Command, UpTo, TypeOK, board
  <2>2. ~Marking /\ ~Marking' /\ 1 \in Int
    BY <2>1 DEF Marking
  <2> QED BY <1>0, <2>1, <2>2, RefinesKeepLast
<1>8. CASE SearchNexttext \/ NextConf \/ Only \/ \E c \in Confs : ChangeConf(c) \/ Subscribe(c)
  <2>1. UNCHANGED il
    BY <1>8 DEF SearchNexttext, NextConf, Only, ChangeConf, Subscribe, BeginSearch, user
  <2> QED BY <1>1, <2>1
<1> QED BY <1>2, <1>3, <1>4, <1>5, <1>6, <1>7, <1>8 DEF Commands

LEMMA ReadingRefines ==
  ASSUME OneConference, IInv, Looked, Board, Passing, TypeOK', [Next]_vars
  PROVE  Abstract!Next
<1>1. Others \/ DisplayPrompt \/ OtherPrompt \/ SamePrompt \/ UNCHANGED vars => UNCHANGED il
  BY DEF Others, PostFile, PostPublish, Delete, Signal, DisplayPrompt, OtherPrompt, SamePrompt, vars, user
<1> QED BY <1>1, RefinesElsewhere, ScanRefines, CommandsRefine DEF Next

LEMMA InitRefines == Init => Abstract!Init
<1> SUFFICES ASSUME Init PROVE Abstract!Init
  OBVIOUS
<1>1. \A c \in Confs : MarkedTexts(il[c]) = {}
  BY DEF Init, MarkedTexts
<1>2. files \in [Confs -> SUBSET Nat] /\ ~Marking
  BY DEF Init, Marking
<1> QED BY <1>1, <1>2 DEF Abstract!Init, Marking

(* Reading, searching and the commands (src/text.c, src/conf.c) do to the  *)
(* set of read texts what they promise: they mark the text that was read,  *)
(* pass over missing texts only, and only the user takes texts back.  A    *)
(* user of several conferences is not promised as much: first_text's       *)
(* answer for one of them is used for the next.                            *)
THEOREM ReadingIsSet ==
  ASSUME MaxGap \in 0 .. 3, OneConference
  PROVE  Spec => ImplementsReadSet
<1> DEFINE Inv == IInv /\ Offered /\ Looked /\ Board /\ Searching /\ Passing
<1>1. Init => Inv
  <2> SUFFICES ASSUME Init PROVE Inv
    OBVIOUS
  <2>1. QueueKnown /\ Offered /\ Looked /\ Searching
    BY DEF Init, QueueKnown, Range, Offered, OfferIsFresh, Looked, ConfJob, TextJob, Unknown, Searching
  <2>2. Board
    BY DEF Init, Board, GapsBounded
  <2>3. Passing
    BY DEF Init, Passing, Limits, Lists, Newcomer, Missed, AtMissing, FirstLow, NoLimit
  <2> QED BY <2>1, <2>2, <2>3, InitTypedNormal DEF IInv
<1>2. Inv /\ [Next]_vars => Inv' /\ Abstract!Next
  <2> SUFFICES ASSUME Inv, [Next]_vars PROVE Inv' /\ Abstract!Next
    OBVIOUS
  <2>1. IInv' /\ Offered' /\ Looked' /\ Board' /\ TypeOK' /\ TypeOK
    BY NextIInv, OfferedKeeps, LookedKeeps, BoardKeeps DEF IInv, TypedNormal
  <2>2. Searching'
    BY SearchingKeeps
  <2>3. Passing'
    BY <2>1, <2>2, LimitsKeep, ListsKeep, NewcomerKeeps, MissedKeeps, FirstLowKeeps DEF Passing
  <2>4. Abstract!Next
    BY <2>1, ReadingRefines
  <2> QED BY <2>1, <2>2, <2>3, <2>4
<1> QED BY <1>1, <1>2, InitRefines, PTL DEF Spec, ImplementsReadSet, Abstract!Spec

-----------------------------------------------------------------------------
(* What num_unread counts.                                                 *)

(* No text above last_text is marked, nor about to be: not by what the     *)
(* prompt offers, not by what a search answers.                            *)
NoneAhead    == \A c \in Confs : \A u \in Nat : Marked(il[c], u) => u <= lastText[c]
OfferBelow   == pc = "input" /\ Nexttext > 0 => Nexttext <= lastText[Current_conf]
SearchBelow  == pc = "search" => first <= lastText[Scanned] + 1 /\ high <= lastText[Scanned]
FirstBelow   == job # "Only" => \A c \in Confs \ {Mailbox} : first <= lastText[c] + 1

Below == Limits /\ Newcomer /\ Missed /\ NoneAhead /\ OfferBelow /\ SearchBelow /\ FirstBelow

(* What others do to the board takes nothing back.                         *)
LEMMA BelowOthers ==
  ASSUME TypeOK, NoneAhead, OfferBelow, SearchBelow, FirstBelow, NEW c \in Confs,
         PostFile(c) \/ PostPublish(c) \/ \E t \in files[c] : Delete(c, t)
  PROVE  NoneAhead' /\ OfferBelow' /\ SearchBelow' /\ FirstBelow'
<1>1. /\ UNCHANGED << confs, il, Current_conf, pc, job, queue, limit, first, high >>
      /\ \A d \in Confs : lastText[d] \in Nat /\ lastText'[d] \in Nat /\ lastText[d] <= lastText'[d]
  BY BoardMoves
<1>2. Nexttext' = Nexttext
  BY DEF PostFile, PostPublish, Delete, session
<1>3. NoneAhead'
  <2> SUFFICES ASSUME NEW d \in Confs, NEW u \in Nat, Marked(il[d], u) PROVE u <= lastText'[d]
    BY <1>1 DEF NoneAhead
  <2>1. u <= lastText[d]
    BY DEF NoneAhead
  <2> QED BY <1>1, <2>1
<1>4. OfferBelow'
  <2> SUFFICES ASSUME pc = "input", Nexttext > 0 PROVE Nexttext <= lastText'[Current_conf]
    BY <1>1, <1>2 DEF OfferBelow
  <2>1. Current_conf \in Confs /\ Nexttext \in Int
    BY SubscribedAreConfs DEF TypeOK, Unknown
  <2>2. Nexttext <= lastText[Current_conf]
    BY DEF OfferBelow
  <2> QED BY <1>1, <2>1, <2>2
<1>5. SearchBelow'
  <2> SUFFICES ASSUME pc = "search" PROVE first <= lastText'[Scanned] + 1 /\ high <= lastText'[Scanned]
    BY <1>1 DEF SearchBelow, Scanned
  <2>1. Scanned \in Confs /\ first \in Int /\ high \in Int
    BY DEF TypeOK, Scanned
  <2>2. first <= lastText[Scanned] + 1 /\ high <= lastText[Scanned]
    BY DEF SearchBelow
  <2> QED BY <1>1, <2>1, <2>2
<1>6. FirstBelow'
  <2> SUFFICES ASSUME job # "Only", NEW d \in Confs \ {Mailbox} PROVE first <= lastText'[d] + 1
    BY <1>1 DEF FirstBelow
  <2>1. first \in Int /\ first <= lastText[d] + 1
    BY DEF TypeOK, FirstBelow
  <2> QED BY <1>1, <2>1
<1> QED BY <1>3, <1>4, <1>5, <1>6

(* first_text searches from 1 to last_text, and never leaves that range.   *)
LEMMA SearchBelowKeeps ==
  ASSUME IInv, SearchBelow, Scan \/ DisplayPrompt \/ OtherPrompt \/ SamePrompt \/ Commands
  PROVE  SearchBelow'
<1>0. /\ TypeOK /\ QueueKnown /\ lastText \in [Confs -> Nat]
      /\ first \in Nat \ {0} /\ high \in Int
  BY DEF IInv, TypedNormal, TypeOK
<1>1. CASE pc' # "search"
  BY <1>1 DEF SearchBelow
<1>2. ASSUME NEW c \in Confs, first' = 1, high' = lastText[c], Scanned' = c, UNCHANGED lastText
      PROVE  SearchBelow'
  BY <1>0, <1>2 DEF SearchBelow
<1>3. CASE SearchStep
  <2>1. pc = "search" /\ first < high /\ UNCHANGED << lastText, queue >> /\ queue # <<>>
    BY <1>0, <1>3 DEF SearchStep, board, TypeOK
  <2>2. Scanned \in Confs /\ lastText[Scanned] \in Nat /\ Scanned' = Scanned
    BY <1>0, <2>1 DEF TypeOK, Scanned
  <2>3. Middle \in Int /\ first <= Middle /\ Middle < high
    BY <1>0, <2>1, MiddleIs DEF Middle
  <2>4. first <= lastText[Scanned] + 1 /\ high <= lastText[Scanned]
    BY <2>1 DEF SearchBelow
  <2>5. CASE Back = {}
    <3>1. first' = Middle + 1 /\ high' = high
      BY <1>3, <2>5 DEF SearchStep
    <3>2. Middle + 1 <= lastText[Scanned] + 1
      BY <1>0, <2>2, <2>3, <2>4
    <3> QED BY <2>1, <2>2, <2>4, <3>1, <3>2 DEF SearchBelow
  <2>6. CASE Back # {}
    <3>1. high' = Max(Back) /\ first' = first
      BY <1>3, <2>6 DEF SearchStep
    <3>2. Back \subseteq Middle - 3 .. Middle
      BY DEF Back
    <3>3. Max(Back) \in Back /\ Max(Back) \in Int
      BY <2>3, <2>6, <3>2, MaxBackIsNumber
    <3>4. Max(Back) <= lastText[Scanned]
      BY <1>0, <2>2, <2>3, <2>4, <3>2, <3>3
    <3> QED BY <2>1, <2>2, <2>4, <3>1, <3>4 DEF SearchBelow
  <2> QED BY <2>5, <2>6
<1>4. CASE pc' = "search" /\ ScanMissing
  <2>1. queue # <<>> /\ first' = 1 /\ high' = lastText[Scanned] /\ UNCHANGED << board, queue >>
    BY <1>4 DEF ScanMissing, Scanning
  <2>2. Scanned \in Confs /\ Scanned' = Scanned /\ UNCHANGED lastText
    BY <1>0, <2>1 DEF TypeOK, Scanned, board
  <2> QED BY <1>2, <2>1, <2>2
<1>5. ASSUME NEW c \in Confs, NEW j, BeginSearch(j, c) PROVE SearchBelow'
  <2>1. queue' = << c >> /\ first' = 1 /\ high' = lastText[c] /\ UNCHANGED lastText
    BY <1>5 DEF BeginSearch, board
  <2> QED BY <1>2, <2>1 DEF Scanned
<1>6. CASE Only \/ \E c \in Confs : Subscribe(c)
  BY <1>0, <1>5, <1>6, SubscribedAreConfs DEF Only, Subscribe, TypeOK
<1>7. DisplayPrompt \/ OtherPrompt \/ SamePrompt => pc' # "search"
  BY DEF DisplayPrompt, BeginText, OtherPrompt, SamePrompt
<1>8. Scan => pc' # "search" \/ SearchStep \/ ScanMissing
  BY DEF Scan, ConfBegin, ScanFound, ScanPast, ScanEnd, Scanning, TextAnswer, ConfFound, ConfNone, Return,
         Skip, SearchEnd
<1>9. Commands => pc' # "search" \/ Only \/ \E c \in Confs : Subscribe(c)
  BY DEF Commands, ReadNexttext, SearchNexttext, BeginText, NextConf, ChangeConf, Command, Unsubscribe,
         ReadText, GotoText, SubscribeStore, OnlyStore, Return
<1> QED BY <1>1, <1>3, <1>4, <1>6, <1>7, <1>8, <1>9

(* first is 1, or what the search in the one conference came to.           *)
LEMMA FirstBelowKeeps ==
  ASSUME OneConference, IInv, Looked, Newcomer, Missed, SearchBelow, FirstBelow, SearchBelow',
         Scan \/ DisplayPrompt \/ OtherPrompt \/ SamePrompt \/ Commands
  PROVE  FirstBelow'
<1>0. /\ TypeOK /\ QueueKnown /\ lastText \in [Confs -> Nat] /\ first \in Nat \ {0} /\ high \in Int
  BY DEF IInv, TypedNormal, TypeOK
<1>1. CASE first' = 1 /\ UNCHANGED board
  BY <1>0, <1>1 DEF FirstBelow, board
<1>2. CASE first' = first /\ UNCHANGED board /\ (job = "Only" => job' = "Only")
  BY <1>2 DEF FirstBelow, board
<1>3. ASSUME pc = "search", job # "Only" PROVE Scanned \in Confs \ {Mailbox}
  <2>1. Scanned \in Confs
    BY <1>0, <1>3 DEF TypeOK, Scanned
  <2>2. CASE job = "Subscribe"
    BY <2>1, <2>2 DEF Newcomer, Subscribed
  <2>3. CASE job # "Subscribe"
    BY <1>3, <2>1, <2>3 DEF Missed, AtMissing
  <2> QED BY <2>2, <2>3
<1>4. CASE SearchStep
  <2> SUFFICES ASSUME job # "Only", NEW c \in Confs \ {Mailbox} PROVE first' <= lastText'[c] + 1
    BY <1>4 DEF FirstBelow, SearchStep
  <2>1. pc = "search" /\ pc' = "search" /\ UNCHANGED << lastText, queue >>
    BY <1>4 DEF SearchStep, board
  <2>2. c = Scanned
    BY <1>3, <2>1 DEF OneConference
  <2> QED BY <2>1, <2>2 DEF SearchBelow, Scanned
<1>5. CASE SearchEnd
  <2> SUFFICES ASSUME job # "Only", NEW c \in Confs \ {Mailbox} PROVE first' <= lastText[c] + 1
    BY <1>5 DEF FirstBelow, SearchEnd, board
  <2>1. pc = "search" /\ first' = (IF high < 1 THEN 1 ELSE high)
    BY <1>5 DEF SearchEnd, SearchResult
  <2>2. c = Scanned /\ lastText[c] \in Nat
    BY <1>0, <1>3, <2>1 DEF OneConference
  <2>3. high <= lastText[c]
    BY <2>1, <2>2 DEF SearchBelow
  <2> QED BY <1>0, <2>1, <2>2, <2>3
<1>6. CASE DisplayPrompt \/ OtherPrompt \/ SamePrompt
  <2>1. UNCHANGED << board, first >>
    BY <1>6 DEF DisplayPrompt, BeginText, OtherPrompt, SamePrompt, scan
  <2>2. job = "Only" => job' = "Only"
    BY <1>0, <1>6 DEF QueueKnown, DisplayPrompt, OtherPrompt, SamePrompt, scan
  <2> QED BY <1>2, <2>1, <2>2
<1>7. CASE ConfBegin \/ ScanFound \/ ScanMissing \/ ScanPast \/ ScanEnd \/ Skip
  <2>1. job # "Only"
    BY <1>7 DEF ConfBegin, ScanFound, ScanMissing, ScanPast, ScanEnd, Scanning, Skip, Looked, TextJob, ConfJob
  <2>2. UNCHANGED board /\ (first' = first \/ first' = 1)
    BY <1>7 DEF ConfBegin, ScanFound, ScanMissing, ScanPast, ScanEnd, Skip, TextAnswer, ConfFound, ConfNone,
                Return, scan
  <2> QED BY <1>1, <1>2, <2>1, <2>2
<1>8. CASE Commands
  <2>1. Command => job = "None"
    BY <1>0 DEF QueueKnown, Command
  <2>2. UNCHANGED board
    BY <1>8 DEF Commands, ReadNexttext, SearchNexttext, NextConf, Only, ChangeConf, Subscribe, BeginSearch,
                Unsubscribe, ReadText, GotoText, SubscribeStore, OnlyStore
  <2>3. first' = 1 \/ (first' = first /\ job = "None")
    BY <1>8, <2>1 DEF Commands, ReadNexttext, SearchNexttext, BeginText, NextConf, Only, ChangeConf, Subscribe,
       BeginSearch, Unsubscribe, ReadText, GotoText, SubscribeStore, OnlyStore, Return, scan
  <2> QED BY <1>1, <1>2, <2>2, <2>3
<1> QED BY <1>4, <1>5, <1>6, <1>7, <1>8 DEF Scan

(* The prompt offers a text up to the last_text it has read.               *)
LEMMA OfferBelowKeeps ==
  ASSUME IInv, Offered, Limits, OfferBelow, Scan \/ DisplayPrompt \/ OtherPrompt \/ SamePrompt \/ Commands
  PROVE  OfferBelow'
<1>0. /\ TypeOK /\ QueueKnown /\ lastText \in [Confs -> Nat] /\ limit \in [Confs -> Nat]
      /\ Current_conf \in Confs
  BY SubscribedAreConfs DEF IInv, TypedNormal, TypeOK
<1>1. CASE pc' # "input" \/ Nexttext' \in {NoText, Unknown}
  BY <1>1 DEF OfferBelow, NoText, Unknown
<1>2. CASE ScanFound /\ TextJob
  <2>1. TextAnswer(Probed) /\ UNCHANGED << lastText, Current_conf >> /\ Scanning /\ Probed <= limit[Scanned]
    BY <1>2 DEF ScanFound, TextAnswer, board
  <2>2. Scanned = Current_conf /\ Probed \in Nat
    BY <1>0, <1>2, <2>1, ProbedIsText DEF Offered, Scanned, Scanning, IInv, TypedNormal
  <2>3. Probed <= lastText[Current_conf]
    BY <1>0, <2>1, <2>2 DEF Limits
  <2>4. Nexttext' \in {Probed, Unknown}
    BY <2>1 DEF TextAnswer
  <2> QED BY <1>1, <2>1, <2>3, <2>4 DEF OfferBelow
<1>3. ASSUME NEW c, ConfFound(c) PROVE pc' # "input" \/ Nexttext' \in {NoText, Unknown}
  BY <1>3 DEF ConfFound, Return, Offered
<1>4. ConfNone => pc' # "input" \/ Nexttext' \in {NoText, Unknown}
  BY DEF ConfNone, Return, Offered
<1>5. CASE Scan /\ ~(ScanFound /\ TextJob)
  <2>1. ConfBegin => pc' # "input" \/ Nexttext' \in {NoText, Unknown}
    BY <1>3 DEF ConfBegin
  <2>2. ScanFound => pc' # "input" \/ Nexttext' \in {NoText, Unknown}
    BY <1>3, <1>5 DEF ScanFound
  <2>3. ScanPast => pc' # "input" \/ Nexttext' \in {NoText, Unknown}
    BY DEF ScanPast, Scanning, TextAnswer, Return
  <2>4. ScanEnd => pc' # "input" \/ Nexttext' \in {NoText, Unknown}
    BY <1>4 DEF ScanEnd
  <2>5. ScanMissing \/ Skip \/ SearchStep \/ SearchEnd => pc' # "input"
    BY DEF ScanMissing, Scanning, Skip, SearchStep, SearchEnd
  <2> QED BY <1>1, <1>5, <2>1, <2>2, <2>3, <2>4, <2>5 DEF Scan
<1>6. DisplayPrompt \/ OtherPrompt \/ SamePrompt => pc' # "input" \/ Nexttext' \in {NoText, Unknown}
  BY DEF DisplayPrompt, BeginText, OtherPrompt, SamePrompt, Offered, session
<1>7. Commands => pc' # "input"
  BY DEF Commands, ReadNexttext, SearchNexttext, BeginText, NextConf, Only, ChangeConf, Subscribe, BeginSearch,
         Unsubscribe, ReadText, GotoText, SubscribeStore, OnlyStore, Return
<1> QED BY <1>1, <1>2, <1>5, <1>6, <1>7

(* Whatever the session writes marks no text above last_text.              *)
LEMMA NoneAheadKeeps ==
  ASSUME IInv, Offered, Looked, Below, Scan \/ DisplayPrompt \/ OtherPrompt \/ SamePrompt \/ Commands
  PROVE  NoneAhead'
<1>0. /\ TypeOK /\ QueueKnown /\ lastText \in [Confs -> Nat] /\ limit \in [Confs -> Nat]
      /\ il \in [Confs -> Seq(Interval)] /\ confs \in Seq(Confs)
      /\ Current_conf \in Confs /\ first \in Nat \ {0} /\ first \in Int
      /\ \A c \in Confs : Normal(il[c])
  BY SubscribedAreConfs, ListsAreNormal DEF IInv, TypedNormal, TypeOK
<1>a. UNCHANGED lastText
  BY DEF Scan, ConfBegin, ScanFound, ScanMissing, ScanPast, ScanEnd, Skip, SearchStep, SearchEnd,
         TextAnswer, ConfFound, ConfNone, DisplayPrompt, OtherPrompt, SamePrompt, Commands, ReadNexttext,
         SearchNexttext, NextConf, Only, ChangeConf, Subscribe, BeginSearch, Unsubscribe, ReadText, GotoText,
         SubscribeStore, OnlyStore, board
<1>1. CASE UNCHANGED il
  BY <1>a, <1>1 DEF Below, NoneAhead
<1>2. ASSUME NEW c \in Confs, NEW s, il' = [il EXCEPT ![c] = s], \A u \in Nat : Marked(s, u) => u <= lastText[c]
      PROVE  NoneAhead'
  <2> SUFFICES ASSUME NEW d \in Confs, NEW u \in Nat, Marked(il'[d], u) PROVE u <= lastText[d]
    BY <1>a DEF NoneAhead
  <2>1. CASE d = c
    BY <1>0, <1>2, <2>1
  <2>2. CASE d # c
    BY <1>0, <1>2, <2>2 DEF Below, NoneAhead
  <2> QED BY <2>1, <2>2
<1>3. ASSUME NEW c \in Confs, NEW t \in Nat \ {0}, t <= lastText[c], il' = [il EXCEPT ![c] = MarkAsRead(@, t)]
      PROVE  NoneAhead'
  <2>1. ASSUME NEW u \in Nat, Marked(MarkAsRead(il[c], t), u) PROVE u <= lastText[c]
    BY <1>0, <1>3, <2>1, MarkAsReadMarks DEF Below, NoneAhead
  <2>2. il' = [il EXCEPT ![c] = MarkAsRead(il[c], t)]
    BY <1>0, <1>3
  <2> QED BY <1>2, <2>1, <2>2
<1>4. ASSUME NEW c \in Confs, NEW t \in Nat, il' = [il EXCEPT ![c] = MarkAsUnread(@, t)]
      PROVE  NoneAhead'
  <2>1. ASSUME NEW u \in Nat, Marked(MarkAsUnread(il[c], t), u) PROVE u <= lastText[c]
    BY <1>0, <1>4, <2>1, MarkAsUnreadMarks DEF Below, NoneAhead
  <2>2. il' = [il EXCEPT ![c] = MarkAsUnread(il[c], t)]
    BY <1>0, <1>4
  <2> QED BY <1>2, <2>1, <2>2
<1>5. ASSUME NEW c \in Confs, NEW n \in Int, n <= lastText[c] + 1, il' = [il EXCEPT ![c] = UpTo(n)]
      PROVE  NoneAhead'
  <2>1. ASSUME NEW u \in Nat, Marked(UpTo(n), u) PROVE u <= lastText[c]
    <3>1. CASE u = 0
      BY <1>0, <3>1
    <3>2. CASE u # 0
      <4>1. u < n
        BY <2>1, <3>2, UpToMarks
      <4> QED BY <1>0, <1>5, <4>1
    <3> QED BY <3>1, <3>2
  <2> QED BY <1>2, <1>5, <2>1
<1>6. CASE Skip
  <2>1. /\ queue # <<>> /\ Scanned \in Confs /\ Probed \in Nat \ {0}
        /\ il' = [il EXCEPT ![Scanned] = IF NothingAbove(@) /\ first > Probed THEN UpTo(first)
                                                                           ELSE MarkAsRead(@, Probed)]
    BY <1>0, <1>6, ProbedIsText DEF Skip, TypeOK, Scanned, IInv, TypedNormal
  <2>2. Scanned # Mailbox /\ Probed <= lastText[Scanned]
    BY <1>6 DEF Skip, Below, Missed, AtMissing
  <2>3. first <= lastText[Scanned] + 1
    <3>1. job # "Only"
      BY <1>6 DEF Skip, Looked, TextJob, ConfJob
    <3> QED BY <2>1, <2>2, <3>1 DEF Below, FirstBelow
  <2>4. CASE NothingAbove(il[Scanned]) /\ first > Probed
    <3>1. il' = [il EXCEPT ![Scanned] = UpTo(first)]
      BY <2>1, <2>4
    <3>2. first \in Int
      BY <1>0
    <3> QED BY <1>5, <2>1, <2>3, <3>1, <3>2
  <2>5. CASE ~(NothingAbove(il[Scanned]) /\ first > Probed)
    <3>1. il' = [il EXCEPT ![Scanned] = MarkAsRead(@, Probed)]
      BY <2>1, <2>5
    <3> QED BY <1>3, <2>1, <2>2, <3>1
  <2> QED BY <2>4, <2>5
<1>7. CASE ScanFound /\ TextJob
  <2>1. TextAnswer(Probed) /\ Scanning /\ Probed <= limit[Scanned]
    BY <1>7 DEF ScanFound
  <2>2. Scanned = Current_conf /\ Probed \in Nat \ {0}
    BY <1>0, <1>7, <2>1, ProbedIsText DEF Offered, Scanned, Scanning, IInv, TypedNormal
  <2>3. Probed <= lastText[Current_conf]
    BY <1>0, <2>1, <2>2 DEF Below, Limits
  <2>4. il' = il \/ il' = [il EXCEPT ![Current_conf] = MarkAsRead(@, Probed)]
    BY <2>1 DEF TextAnswer
  <2> QED BY <1>0, <1>1, <1>3, <2>2, <2>3, <2>4
<1>8. CASE Scan /\ ~Skip /\ ~(ScanFound /\ TextJob)
  <2>1. UNCHANGED il
    BY <1>8 DEF Scan, ConfBegin, ScanFound, ScanMissing, ScanPast, ScanEnd, TextAnswer, ConfFound, ConfNone,
       SearchStep, SearchEnd, user
  <2> QED BY <1>1, <2>1
<1>9. DisplayPrompt \/ OtherPrompt \/ SamePrompt => UNCHANGED il
  BY DEF DisplayPrompt, OtherPrompt, SamePrompt, user
<1>10. CASE ReadNexttext
  <2>1. CASE Nexttext = NoText
    BY <1>1, <1>10, <2>1 DEF ReadNexttext
  <2>2. CASE Nexttext # NoText
    <3>1. Nexttext \in Nat \ {0} /\ pc = "input"
      BY <1>0, <1>10, <2>2 DEF ReadNexttext, Command, NoText, Unknown, TypeOK
    <3>2. Nexttext <= lastText[Current_conf]
      BY <3>1 DEF Below, OfferBelow
    <3>3. il' = [il EXCEPT ![Current_conf] = MarkAsRead(@, Nexttext)]
      BY <1>10, <2>2 DEF ReadNexttext
    <3> QED BY <1>0, <1>3, <3>1, <3>2, <3>3
  <2> QED BY <2>1, <2>2
<1>11. ASSUME NEW t \in 1 .. lastText[Current_conf], ReadText(t) \/ GotoText(t) PROVE NoneAhead'
  <2>1. t \in Nat \ {0} /\ t <= lastText[Current_conf]
    BY <1>0
  <2>2. \/ il' = [il EXCEPT ![Current_conf] = MarkAsRead(@, t)]
        \/ il' = [il EXCEPT ![Current_conf] = MarkAsUnread(@, t)]
    BY <1>11 DEF ReadText, GotoText
  <2> QED BY <1>0, <1>3, <1>4, <2>1, <2>2
<1>12. CASE SubscribeStore
  <2>1. /\ Scanned \in Confs /\ Scanned # Mailbox /\ job = "Subscribe"
        /\ il' = [il EXCEPT ![Scanned] = UpTo(first)]
    BY <1>0, <1>12 DEF SubscribeStore, TypeOK, Scanned, Below, Newcomer, Subscribed
  <2>2. first <= lastText[Scanned] + 1
    BY <2>1 DEF Below, FirstBelow
  <2>3. first \in Int
    BY <1>0
  <2> QED BY <1>5, <2>1, <2>2, <2>3
<1>13. ASSUME NEW n \in 0 .. lastText[Current_conf], OnlyStore(n) PROVE NoneAhead'
  <2>1. il' = [il EXCEPT ![Current_conf] = UpTo(lastText[Current_conf] - n + 1)]
    BY <1>13 DEF OnlyStore
  <2>2. /\ lastText[Current_conf] - n + 1 \in Int
        /\ lastText[Current_conf] - n + 1 <= lastText[Current_conf] + 1
    BY <1>0
  <2> QED BY <1>0, <1>5, <2>1, <2>2
<1>14. ASSUME NEW i \in DOMAIN confs, Unsubscribe(i) PROVE NoneAhead'
  <2>1. confs[i] \in Confs /\ il' = [il EXCEPT ![confs[i]] = <<>>]
    BY <1>0, <1>14 DEF Unsubscribe
  <2>2. \A u \in Nat : ~Marked(<<>>, u)
    BY DEF Marked
  <2> QED BY <1>2, <2>1, <2>2
<1>15. CASE Commands
  <2>1. SearchNexttext \/ NextConf \/ Only \/ (\E c \in Confs : ChangeConf(c) \/ Subscribe(c)) => UNCHANGED il
    BY DEF SearchNexttext, NextConf, Only, ChangeConf, Subscribe, BeginSearch, user
  <2> QED BY <1>1, <1>10, <1>11, <1>12, <1>13, <1>14, <1>15, <2>1 DEF Commands
<1> QED BY <1>1, <1>6, <1>7, <1>8, <1>9, <1>15

LEMMA BelowKeeps ==
  ASSUME OneConference, IInv, Offered, Looked, Below, [Next]_vars
  PROVE  Below'
<1>1. Limits' /\ Newcomer' /\ Missed'
  BY LimitsKeep, NewcomerKeeps, MissedKeeps DEF Below, IInv, TypedNormal
<1>2. CASE Signal \/ UNCHANGED vars
  <2>1. UNCHANGED << lastText, il, Current_conf, Nexttext, job, queue, first, high >>
    BY <1>2 DEF Signal, vars, board, user, session, scan
  <2>2. pc' \in {"input", "search"} => pc' = pc
    BY <1>2 DEF Signal, vars
  <2>3. NoneAhead' /\ FirstBelow'
    BY <2>1 DEF Below, NoneAhead, FirstBelow
  <2>4. OfferBelow' /\ SearchBelow'
    BY <2>1, <2>2 DEF Below, OfferBelow, SearchBelow, Scanned
  <2> QED BY <1>1, <2>3, <2>4 DEF Below
<1>3. ASSUME NEW c \in Confs, PostFile(c) \/ PostPublish(c) \/ \E t \in files[c] : Delete(c, t)
      PROVE  Below'
  BY <1>1, <1>3, BelowOthers DEF Below, IInv, TypedNormal
<1>4. CASE Scan \/ DisplayPrompt \/ OtherPrompt \/ SamePrompt \/ Commands
  <2>1. NoneAhead'
    BY <1>4, NoneAheadKeeps
  <2>2. OfferBelow'
    BY <1>4, OfferBelowKeeps DEF Below
  <2>3. SearchBelow'
    BY <1>4, SearchBelowKeeps DEF Below
  <2>4. FirstBelow'
    BY <1>4, <2>3, FirstBelowKeeps DEF Below
  <2> QED BY <1>1, <2>1, <2>2, <2>3, <2>4 DEF Below
<1> QED BY <1>2, <1>3, <1>4 DEF Next, Others

(* "conf: n unread" is right for a user of one conference besides the      *)
(* mailbox, whatever is posted, deleted and read: num_unread (src/conf.c)  *)
(* subtracts the lengths of the intervals from last_text, and no interval  *)
(* ever reaches above it.  With two conferences the answer first_text gave *)
(* for one of them may be written to the other, which has fewer texts.     *)
THEOREM UnreadIsCounted == ASSUME OneConference PROVE Spec => []CountsAgree
<1> DEFINE Inv == IInv /\ Offered /\ Looked /\ Below
<1>1. Init => Inv
  <2> SUFFICES ASSUME Init PROVE Inv
    OBVIOUS
  <2>1. QueueKnown /\ Offered /\ Looked
    BY DEF Init, QueueKnown, Range, Offered, OfferIsFresh, Looked, ConfJob, TextJob, Unknown
  <2>2. Limits /\ Newcomer /\ Missed
    BY DEF Init, Limits, Newcomer, Missed, AtMissing, NoLimit
  <2>3. NoneAhead
    BY DEF Init, NoneAhead, Marked
  <2>4. OfferBelow /\ SearchBelow /\ FirstBelow
    BY DEF Init, OfferBelow, SearchBelow, FirstBelow
  <2> QED BY <2>1, <2>2, <2>3, <2>4, InitTypedNormal DEF IInv, Below
<1>2. Inv /\ [Next]_vars => Inv'
  BY NextIInv, OfferedKeeps, LookedKeeps, BelowKeeps
<1>3. Inv => CountsAgree
  <2> SUFFICES ASSUME Inv, NEW c \in Confs
               PROVE  NumUnread(il[c], lastText[c]) = Cardinality((1 .. lastText[c]) \ MarkedTexts(il[c]))
    BY DEF CountsAgree
  <2>1. Normal(il[c]) /\ lastText[c] \in Nat
    BY ListsAreNormal DEF IInv, TypedNormal, TypeOK
  <2>2. \A u \in Nat : Marked(il[c], u) => u <= lastText[c]
    BY DEF Below, NoneAhead
  <2> QED BY <2>1, <2>2, NumUnreadIs
<1> QED BY <1>1, <1>2, <1>3, PTL DEF Spec
=============================================================================
