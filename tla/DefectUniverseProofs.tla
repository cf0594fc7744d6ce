------------------------ MODULE DefectUniverseProofs ------------------------
(***************************************************************************)
(* Proofs about DefectUniverse, for every circuit and every manifest.      *)
(*                                                                         *)
(* First that identifiers are unique: for this, weights do not matter, and *)
(* a defect may have whatever weight.  Then what the other proofs rest on: *)
(* the names of the circuit and the order in which defects are listed.     *)
(*                                                                         *)
(* optimize_collapse searches the defects of a content for those of one    *)
(* component, and zeroes whatever stands between the first open it finds   *)
(* and the place where its search stops.  That this is right depends on    *)
(* how process_defects has listed them, which is what is proved last: the  *)
(* defects of a component stand together, and its shorts come first.  From *)
(* the same order follow the types and, of each component collapsed, that  *)
(* one open is left, of the weight of both.                                *)
(***************************************************************************)
EXTENDS DefectUniverse, SequenceTheorems, FiniteSetTheorems, WellFoundedInduction, TLAPS

(* A defect with fields from some set.                                     *)
Entry(V) == [id : Int, instance : V, category : V, kind : V, weight : V, subject : V]

Entries == \E V : details \in [DOMAIN circuit -> Seq(Entry(V))]

(* Every identifier was given by the counter; what has none is a source.   *)
Counted ==
  \A i \in DOMAIN circuit : \A k \in DOMAIN details[i] :
    \/ details[i][k].id \in 0 .. number - 1
    \/ details[i][k].id = -1 /\ details[i][k].kind = "none"

Parts == circuit \in Seq(Seq(Component)) /\ number \in Nat

IdInv == Parts /\ Entries /\ Counted /\ IdsAreDistinct

-----------------------------------------------------------------------------
(* Merging yields components.                                              *)
LEMMA MergedComponent ==
  ASSUME NEW s \in Seq(Component), NEW i \in DOMAIN s
  PROVE  Merged(s, i) \in Component /\ Merged(s, i).name = s[i].name
<1>. DEFINE n == Cardinality(Twins(s, i))
            c == s[i]
<1>1. c \in Component
  OBVIOUS
<1>2. n \in Nat \ {0}
  <2>1. Twins(s, i) \in SUBSET (1 .. Len(s)) /\ i \in Twins(s, i)
    BY DEF Twins
  <2>2. IsFiniteSet(1 .. Len(s))
    BY FS_Interval
  <2>3. IsFiniteSet(Twins(s, i))
    BY <2>1, <2>2, FS_Subset
  <2>. QED  BY <2>1, <2>3, FS_CardinalityType, FS_EmptySet
<1>. HIDE DEF n
<1>3. SetMultiplier(c, n) \in Component /\ SetMultiplier(c, n).name = c.name
  <2>. DEFINE P == [name : Name, value : Value]
  <2>1. c.params \in Seq(P) /\ n \in Value
    BY <1>1, <1>2 DEF Component, Value
  <2>2. [name |-> "m", value |-> n] \in P
    BY <2>1, DefectUniverseAssumption
  <2>3. Append(c.params, [name |-> "m", value |-> n]) \in Seq(P)
    BY <2>1, <2>2, AppendProperties
  <2>4. [j \in DOMAIN c.params |-> IF c.params[j].name = "m"
           THEN [c.params[j] EXCEPT !.value = n] ELSE c.params[j]] \in Seq(P)
    <3>1. \A p \in P : [p EXCEPT !.value = n] \in P
      BY <2>1
    <3>2. /\ Len(c.params) \in Nat /\ DOMAIN c.params = 1 .. Len(c.params)
          /\ \A j \in 1 .. Len(c.params) : c.params[j] \in P
      <4>. HIDE DEF c, P
      <4>. QED  BY <2>1
    <3>3. \A j \in 1 .. Len(c.params) :
             (IF c.params[j].name = "m" THEN [c.params[j] EXCEPT !.value = n] ELSE c.params[j]) \in P
      <4>. HIDE DEF c, P
      <4>. QED  BY <3>1, <3>2
    <3>. HIDE DEF c, P
    <3>. QED  BY <3>2, <3>3, IsASeq
  <2>. QED  BY <1>1, <2>1, <2>3, <2>4 DEF SetMultiplier, Component
<1>. QED  BY <1>1, <1>3 DEF Merged, n

LEMMA MergedContent ==
  ASSUME NEW s \in Seq(Component), NEW first \in InOrder(FirstTwins(s))
  PROVE  [k \in DOMAIN first |-> Merged(s, first[k])] \in Seq(Component)
<1>. DEFINE S == FirstTwins(s)
<1>1. S \subseteq 1 .. Len(s)
  BY DEF FirstTwins
<1>2. Cardinality(S) \in Nat
  <2>1. IsFiniteSet(1 .. Len(s))
    BY FS_Interval
  <2>. QED  BY <1>1, <2>1, FS_Subset, FS_CardinalityType
<1>3. first \in [1 .. Cardinality(S) -> S]
  BY DEF InOrder
<1>4. \A k \in 1 .. Cardinality(S) : Merged(s, first[k]) \in Component
  BY <1>1, <1>3, MergedComponent
<1>. QED  BY <1>2, <1>3, <1>4, IsASeq

-----------------------------------------------------------------------------
(* The defects of a component form a sequence.                             *)
IsSeq(d) == \E T : d \in Seq(T)

LEMMA Indexed ==
  ASSUME NEW n \in Nat, NEW f, f = [k \in 1 .. n |-> f[k]]
  PROVE  IsSeq(f)
<1>. DEFINE T == {f[k] : k \in 1 .. n}
<1>1. f \in [1 .. n -> T]
  OBVIOUS
<1>. HIDE DEF T
<1>2. f \in Seq(T)
  BY <1>1
<1>. QED  BY <1>2 DEF IsSeq

LEMMA Joined ==
  ASSUME NEW s, NEW t, IsSeq(s), IsSeq(t)
  PROVE  IsSeq(s \o t)
<1>1. PICK S : s \in Seq(S)
  BY DEF IsSeq
<1>2. PICK T : t \in Seq(T)
  BY DEF IsSeq
<1>3. s \in Seq(S \cup T) /\ t \in Seq(S \cup T)
  BY <1>1, <1>2, SeqMonotonic
<1>4. s \o t \in Seq(S \cup T)
  BY <1>3, ConcatProperties
<1>. QED  BY <1>4 DEF IsSeq

LEMMA Tuples ==
  /\ \A x, y, z : IsSeq(<<x, y, z>>)
  /\ \A v, w, x, y, z : IsSeq(<<v, w, x, y, z>>)
<1>1. \A x, y, z : <<x, y, z>> \in Seq({x, y, z})
  OBVIOUS
<1>2. \A v, w, x, y, z : <<v, w, x, y, z>> \in Seq({v, w, x, y, z})
  OBVIOUS
<1>. QED  BY <1>1, <1>2 DEF IsSeq

LEMMA Templates ==
  ASSUME NEW c \in Component
  PROVE  IsSeq(DipoleDefects(c)) /\ IsSeq(DiodeDefects(c)) /\ IsSeq(MosfetDefects(c))
<1>1. IsSeq(Parametric(c))
  <2>. DEFINE p == Parametric(c)
  <2>1. 2 * Len(c.params) \in Nat
    BY DEF Component
  <2>2. p = [k \in 1 .. 2 * Len(c.params) |-> p[k]]
    BY DEF Parametric
  <2>. HIDE DEF p
  <2>3. IsSeq(p)
    BY <2>1, <2>2, Indexed
  <2>. QED  BY <2>3 DEF p
<1>2. \A x, y, z : IsSeq(<<x, y, z>> \o Parametric(c))
  BY <1>1, Tuples, Joined
<1>3. IsSeq(DipoleDefects(c)) /\ IsSeq(DiodeDefects(c))
  BY <1>2 DEF DipoleDefects, DiodeDefects
<1>4. \A f, v, w, x, y, z :
         f = [k \in 1 .. 6 |-> f[k]] => IsSeq(f \o <<v, w, x, y, z>> \o Parametric(c))
  <2>. SUFFICES ASSUME NEW f, NEW v, NEW w, NEW x, NEW y, NEW z, f = [k \in 1 .. 6 |-> f[k]]
                PROVE  IsSeq(f \o <<v, w, x, y, z>> \o Parametric(c))
    OBVIOUS
  <2>1. IsSeq(f)
    BY Indexed
  <2>2. IsSeq(f \o <<v, w, x, y, z>>)
    BY <2>1, Tuples, Joined
  <2>. QED  BY <1>1, <2>2, Joined
<1>5. IsSeq(MosfetDefects(c))
  BY <1>4 DEF MosfetDefects
<1>. QED  BY <1>3, <1>5

-----------------------------------------------------------------------------
(* What is listed for a component is a sequence of entries, numbered from  *)
(* the counter on.                                                         *)
LEMMA ListedEntries ==
  ASSUME NEW c, NEW d, IsSeq(d), number \in Nat
  PROVE  /\ \E V : Listed(c, d) \in Seq(Entry(V))
         /\ Len(d) \in Nat /\ DOMAIN Listed(c, d) = 1 .. Len(d)
         /\ \A k \in 1 .. Len(d) : /\ Listed(c, d)[k].id = number + k - 1
                                   /\ Listed(c, d)[k].instance = c.name
                                   /\ Listed(c, d)[k].category = c.kind
                                   /\ Listed(c, d)[k].kind = d[k].kind
<1>1. PICK T : d \in Seq(T)
  BY DEF IsSeq
<1>2. Len(d) \in Nat /\ DOMAIN d = 1 .. Len(d)
  BY <1>1
<1>. DEFINE V == {c.name, c.kind} \cup {d[k].kind : k \in DOMAIN d}
                   \cup {d[k].weight : k \in DOMAIN d} \cup {d[k].subject : k \in DOMAIN d}
            n == Len(d)
            e(k) == [id |-> number + k - 1, instance |-> c.name, category |-> c.kind,
                     kind |-> d[k].kind, weight |-> d[k].weight, subject |-> d[k].subject]
<1>3. \A k \in 1 .. n : e(k) \in Entry(V)
  BY <1>2 DEF Entry
<1>4. Listed(c, d) = [k \in 1 .. n |-> e(k)]
  BY <1>2 DEF Listed
<1>5. \A k \in 1 .. n : /\ e(k).id = number + k - 1
                        /\ e(k).instance = c.name /\ e(k).category = c.kind /\ e(k).kind = d[k].kind
  OBVIOUS
<1>. HIDE DEF V, e, n
<1>6. n \in Nat
  BY <1>2 DEF n
<1>7. [k \in 1 .. n |-> e(k)] \in Seq(Entry(V))
  BY <1>3, <1>6, IsASeq
<1>. QED  BY <1>4, <1>5, <1>6, <1>7 DEF n

LEMMA EntryMonotonic ==
  ASSUME NEW V, NEW W, V \subseteq W
  PROVE  Seq(Entry(V)) \subseteq Seq(Entry(W))
<1>1. Entry(V) \subseteq Entry(W)
  BY DEF Entry
<1>. QED  BY <1>1, SeqMonotonic

(* One content's entries are replaced by a sequence of entries.            *)
LEMMA Replaced ==
  ASSUME Entries, NEW s, NEW V, s \in Seq(Entry(V)), circuit' = circuit,
         details' = [details EXCEPT ![content] = s]
  PROVE  Entries'
<1>1. PICK U : details \in [DOMAIN circuit -> Seq(Entry(U))]
  BY DEF Entries
<1>2. Seq(Entry(U)) \subseteq Seq(Entry(U \cup V)) /\ Seq(Entry(V)) \subseteq Seq(Entry(U \cup V))
  BY EntryMonotonic
<1>3. details \in [DOMAIN circuit -> Seq(Entry(U \cup V))]
  BY <1>1, <1>2
<1>4. details' \in [DOMAIN circuit' -> Seq(Entry(U \cup V))]
  BY <1>2, <1>3
<1>. QED  BY <1>4 DEF Entries

-----------------------------------------------------------------------------
(* Entries appended to a content that were numbered by the counter.        *)
LEMMA ListStep ==
  ASSUME IdInv, content \in DOMAIN circuit, NEW c, NEW d, IsSeq(d), List(c, d)
  PROVE  IdInv'
<1>. DEFINE n == Len(d)
            L == Listed(c, d)
            o == details[content]
            m == Len(o)
            Old(i, k) == k \in DOMAIN details[i] /\ details'[i][k] = details[i][k]
            New(i, k) == /\ i = content /\ k \in Int /\ k - m \in 1 .. n
                         /\ details'[i][k].id = number + (k - m) - 1
<1>1. circuit' = circuit /\ number' = number + n /\ details' = [details EXCEPT ![content] = o \o L]
  BY DEF List
<1>2. Parts /\ Entries /\ Counted /\ IdsAreDistinct /\ number \in Nat
  BY DEF IdInv, Parts
<1>3. /\ n \in Nat /\ DOMAIN L = 1 .. n
      /\ \A k \in 1 .. n : L[k].id = number + k - 1
  BY <1>2, ListedEntries
<1>4. PICK V : details \in [DOMAIN circuit -> Seq(Entry(V))]
  BY <1>2 DEF Entries
<1>5. PICK W : L \in Seq(Entry(W))
  BY <1>2, ListedEntries
<1>. HIDE DEF n, L
<1>6. o \in Seq(Entry(V \cup W)) /\ L \in Seq(Entry(V \cup W))
  BY <1>4, <1>5, EntryMonotonic
<1>7. Len(L) = n
  BY <1>3, <1>6
<1>8. /\ o \o L \in Seq(Entry(V \cup W)) /\ Len(o \o L) = m + n
      /\ \A k \in 1 .. m + n : (o \o L)[k] = IF k <= m THEN o[k] ELSE L[k - m]
  BY <1>6, <1>7, ConcatProperties
<1>9. Entries'
  BY <1>1, <1>2, <1>8, Replaced
<1>10. Parts'
  BY <1>1, <1>2, <1>3 DEF Parts
<1>11. ASSUME NEW i \in DOMAIN circuit, NEW k \in DOMAIN details'[i]
       PROVE  Old(i, k) \/ New(i, k)
  <2>1. CASE i = content
    <3>1. details'[i] = o \o L
      BY <1>1, <1>4, <2>1
    <3>2. m \in Nat /\ k \in 1 .. m + n
      BY <1>6, <1>8, <3>1
    <3>3. CASE k <= m
      <4>1. k \in DOMAIN o /\ details'[i][k] = o[k]
        BY <1>6, <1>8, <3>1, <3>2, <3>3
      <4>. QED  BY <2>1, <4>1
    <3>4. CASE ~ (k <= m)
      <4>1. k - m \in 1 .. n /\ details'[i][k] = L[k - m]
        BY <1>3, <1>8, <3>1, <3>2, <3>4
      <4>2. details'[i][k].id = number + (k - m) - 1
        BY <1>3, <4>1
      <4>. QED  BY <2>1, <3>2, <4>1, <4>2
    <3>. QED  BY <3>3, <3>4
  <2>2. CASE i # content
    BY <1>1, <1>4, <2>2
  <2>. QED  BY <2>1, <2>2
<1>12. m \in Nat
  BY <1>6
<1>. HIDE DEF m
<1>13. Counted'
  <2>. SUFFICES ASSUME NEW i \in DOMAIN circuit, NEW k \in DOMAIN details'[i]
                PROVE  \/ details'[i][k].id \in 0 .. number' - 1
                       \/ details'[i][k].id = -1 /\ details'[i][k].kind = "none"
    BY <1>1 DEF Counted
  <2>1. CASE Old(i, k)
    BY <1>1, <1>2, <1>3, <2>1 DEF Counted
  <2>2. CASE New(i, k)
    <3>1. ASSUME NEW p \in 1 .. n
          PROVE  number + p - 1 \in 0 .. number + n - 1
      BY <1>2, <1>3
    <3>2. details'[i][k].id \in 0 .. number + n - 1
      BY <2>2, <3>1
    <3>3. number' = number + n
      BY <1>1
    <3>. QED  BY <1>2, <1>3, <3>2, <3>3
  <2>. QED  BY <1>11, <2>1, <2>2
<1>14. IdsAreDistinct'
  <2>. SUFFICES ASSUME NEW i \in DOMAIN circuit, NEW j \in DOMAIN circuit,
                       NEW k \in DOMAIN details'[i], NEW l \in DOMAIN details'[j],
                       details'[i][k].id = details'[j][l].id
                PROVE  (i = j /\ k = l) \/ details'[i][k].kind = "none"
    BY <1>1 DEF IdsAreDistinct
  <2>1. CASE Old(i, k) /\ Old(j, l)
    BY <1>2, <2>1 DEF IdsAreDistinct
  <2>2. CASE Old(i, k) /\ New(j, l)
    <3>1. details[i][k].id \in 0 .. number - 1 \/ details[i][k].id = -1
      BY <1>2, <2>2 DEF Counted
    <3>2. details'[j][l].id >= number
      BY <1>2, <1>3, <1>12, <2>2
    <3>. QED  BY <1>2, <2>2, <3>1, <3>2
  <2>3. CASE New(i, k) /\ Old(j, l)
    <3>1. details[j][l].id \in 0 .. number - 1 \/ details[j][l].id = -1
      BY <1>2, <2>3 DEF Counted
    <3>2. details'[i][k].id >= number
      BY <1>2, <1>3, <1>12, <2>3
    <3>. QED  BY <1>2, <2>3, <3>1, <3>2
  <2>4. CASE New(i, k) /\ New(j, l)
    BY <1>2, <1>3, <1>12, <2>4
  <2>. QED  BY <1>11, <2>1, <2>2, <2>3, <2>4
<1>. QED  BY <1>9, <1>10, <1>13, <1>14 DEF IdInv

-----------------------------------------------------------------------------
(* A source is appended without an identifier.                             *)
LEMMA SourceStep ==
  ASSUME IdInv, AnalyseSource
  PROVE  IdInv'
<1>. DEFINE o == details[content]
            c == circuit[content][index]
            r == [id |-> -1, instance |-> c.name, category |-> c.kind, kind |-> "none",
                  weight |-> 0, subject |-> <<>>]
            Old(i, k) == k \in DOMAIN details[i] /\ details'[i][k] = details[i][k]
            New(i, k) == i = content /\ k = Len(o) + 1 /\ details'[i][k] = r
<1>1. /\ circuit' = circuit /\ number' = number /\ details' = [details EXCEPT ![content] = Append(o, r)]
      /\ content \in DOMAIN circuit
  BY DEF AnalyseSource, Turn
<1>2. Parts /\ Entries /\ Counted /\ IdsAreDistinct /\ number \in Nat
  BY DEF IdInv, Parts
<1>3. PICK V : details \in [DOMAIN circuit -> Seq(Entry(V))]
  BY <1>2 DEF Entries
<1>. DEFINE W == V \cup {c.name, c.kind, "none", 0, <<>>}
<1>4. o \in Seq(Entry(W))
  BY <1>1, <1>3, EntryMonotonic
<1>5. r \in Entry(W) /\ r.id = -1 /\ r.kind = "none"
  BY DEF Entry
<1>. HIDE DEF W, r, o
<1>6. /\ Append(o, r) \in Seq(Entry(W)) /\ Len(o) \in Nat
      /\ Len(Append(o, r)) = Len(o) + 1
      /\ \A k \in 1 .. Len(o) : Append(o, r)[k] = o[k]
      /\ Append(o, r)[Len(o) + 1] = r
  BY <1>4, <1>5, AppendProperties
<1>7. Entries' /\ Parts'
  BY <1>1, <1>2, <1>6, Replaced DEF Parts
<1>8. ASSUME NEW i \in DOMAIN circuit, NEW k \in DOMAIN details'[i]
      PROVE  Old(i, k) \/ New(i, k)
  <2>1. CASE i = content
    <3>1. details'[i] = Append(o, r) /\ details[i] = o
      BY <1>1, <1>3, <2>1 DEF o
    <3>2. k \in 1 .. Len(o) + 1 /\ DOMAIN o = 1 .. Len(o)
      BY <1>4, <1>6, <3>1
    <3>3. CASE k = Len(o) + 1
      BY <1>6, <2>1, <3>1, <3>3
    <3>4. CASE k # Len(o) + 1
      <4>1. k \in 1 .. Len(o)
        BY <1>6, <3>2, <3>4
      <4>. QED  BY <1>6, <3>1, <3>2, <4>1
    <3>. QED  BY <3>3, <3>4
  <2>2. CASE i # content
    BY <1>1, <1>3, <2>2
  <2>. QED  BY <2>1, <2>2
<1>9. Counted'
  <2>. SUFFICES ASSUME NEW i \in DOMAIN circuit, NEW k \in DOMAIN details'[i]
                PROVE  \/ details'[i][k].id \in 0 .. number - 1
                       \/ details'[i][k].id = -1 /\ details'[i][k].kind = "none"
    BY <1>1 DEF Counted
  <2>. QED  BY <1>2, <1>5, <1>8 DEF Counted
<1>10. IdsAreDistinct'
  <2>. SUFFICES ASSUME NEW i \in DOMAIN circuit, NEW j \in DOMAIN circuit,
                       NEW k \in DOMAIN details'[i], NEW l \in DOMAIN details'[j],
                       details'[i][k].id = details'[j][l].id
                PROVE  (i = j /\ k = l) \/ details'[i][k].kind = "none"
    BY <1>1 DEF IdsAreDistinct
  <2>1. CASE Old(i, k) /\ Old(j, l)
    BY <1>2, <2>1 DEF IdsAreDistinct
  <2>2. CASE Old(i, k) /\ New(j, l)
    <3>1. details[i][k].id = -1
      BY <1>5, <2>2
    <3>2. ~ (details[i][k].id \in 0 .. number - 1)
      BY <1>2, <3>1
    <3>. QED  BY <1>2, <2>2, <3>2 DEF Counted
  <2>3. CASE New(i, k)
    BY <1>5, <2>3
  <2>. QED  BY <1>8, <2>1, <2>2, <2>3
<1>. QED  BY <1>7, <1>9, <1>10 DEF IdInv

-----------------------------------------------------------------------------
(* Collapsing changes nothing of an entry but its weight.                  *)
LEMMA CollapsedEntries ==
  ASSUME NEW V, NEW s \in Seq(Entry(V)), NEW opens, NEW stop
  PROVE  /\ \E W : CollapsedInto(s, opens, stop) \in Seq(Entry(W))
         /\ DOMAIN CollapsedInto(s, opens, stop) = DOMAIN s
         /\ \A i \in DOMAIN s :
              LET t == CollapsedInto(s, opens, stop) IN
              /\ t[i].id = s[i].id /\ t[i].kind = s[i].kind
              /\ t[i].instance = s[i].instance /\ t[i].category = s[i].category
<1>1. PICK weight, first :
        CollapsedInto(s, opens, stop) =
          IF opens = {} \/ weight = 0 THEN s
          ELSE [i \in DOMAIN s |->
                  IF i = first THEN [s[i] EXCEPT !.weight = weight]
                  ELSE IF i \in first + 1 .. stop - 1 THEN [s[i] EXCEPT !.weight = 0]
                  ELSE s[i]]
  BY DEF CollapsedInto
<1>. DEFINE W == V \cup {weight, 0}
            e(i) == IF i = first THEN [s[i] EXCEPT !.weight = weight]
                    ELSE IF i \in first + 1 .. stop - 1 THEN [s[i] EXCEPT !.weight = 0]
                    ELSE s[i]
<1>2. s \in Seq(Entry(W)) /\ Len(s) \in Nat /\ DOMAIN s = 1 .. Len(s)
  BY EntryMonotonic
<1>3. \A r \in Entry(V) : \A w \in W : /\ [r EXCEPT !.weight = w] \in Entry(W)
                                       /\ [r EXCEPT !.weight = w].id = r.id
                                       /\ [r EXCEPT !.weight = w].kind = r.kind
                                       /\ [r EXCEPT !.weight = w].instance = r.instance
                                       /\ [r EXCEPT !.weight = w].category = r.category
  BY DEF Entry
<1>4. \A i \in 1 .. Len(s) : s[i] \in Entry(V) /\ s[i] \in Entry(W)
  BY <1>2
<1>5. \A i \in 1 .. Len(s) :
        /\ e(i) \in Entry(W)
        /\ e(i).id = s[i].id /\ e(i).kind = s[i].kind
        /\ e(i).instance = s[i].instance /\ e(i).category = s[i].category
  BY <1>3, <1>4
<1>. HIDE DEF e, W
<1>6. [i \in 1 .. Len(s) |-> e(i)] \in Seq(Entry(W))
  BY <1>2, <1>5, IsASeq
<1>7. CASE CollapsedInto(s, opens, stop) = s
  BY <1>2, <1>7
<1>8. CASE CollapsedInto(s, opens, stop) = [i \in 1 .. Len(s) |-> e(i)]
  BY <1>2, <1>5, <1>6, <1>8
<1>. QED  BY <1>1, <1>2, <1>7, <1>8 DEF e

LEMMA CollapseStep ==
  ASSUME IdInv, CollapseInstance
  PROVE  IdInv'
<1>1. PICK stop : details' = [details EXCEPT ![content] =
                     CollapsedInto(details[content], Opens(details[content], index, stop), stop)]
  BY DEF CollapseInstance
<1>. DEFINE s == details[content]
            t == CollapsedInto(s, Opens(s, index, stop), stop)
<1>2. content \in DOMAIN circuit /\ circuit' = circuit /\ number' = number
  BY DEF CollapseInstance
<1>3. Parts /\ Entries /\ Counted /\ IdsAreDistinct
  BY DEF IdInv
<1>4. PICK V : details \in [DOMAIN circuit -> Seq(Entry(V))]
  BY <1>3 DEF Entries
<1>5. s \in Seq(Entry(V))
  BY <1>2, <1>4
<1>6. PICK W : t \in Seq(Entry(W))
  BY <1>5, CollapsedEntries
<1>7. /\ DOMAIN t = DOMAIN s
      /\ \A i \in DOMAIN s : t[i].id = s[i].id /\ t[i].kind = s[i].kind
  BY <1>5, CollapsedEntries
<1>. HIDE DEF t
<1>8. details' = [details EXCEPT ![content] = t]
  BY <1>1 DEF t
<1>9. Entries' /\ Parts'
  BY <1>2, <1>3, <1>6, <1>8, Replaced DEF Parts
<1>10. \A i \in DOMAIN circuit :
         /\ DOMAIN details'[i] = DOMAIN details[i]
         /\ \A k \in DOMAIN details[i] : /\ details'[i][k].id = details[i][k].id
                                         /\ details'[i][k].kind = details[i][k].kind
  BY <1>4, <1>7, <1>8
<1>11. Counted'
  BY <1>2, <1>3, <1>10 DEF Counted
<1>12. IdsAreDistinct'
  BY <1>2, <1>3, <1>10 DEF IdsAreDistinct
<1>. QED  BY <1>9, <1>11, <1>12 DEF IdInv

-----------------------------------------------------------------------------
LEMMA IdInit == Init => IdInv
<1>. SUFFICES ASSUME Init  PROVE IdInv
  OBVIOUS
<1>1. circuit \in Seq(Seq(Component)) /\ number = 0
  BY DefectUniverseAssumption DEF Init
<1>2. \A i \in DOMAIN circuit : details[i] = <<>>
  BY DEF Init
<1>3. <<>> \in Seq(Entry({}))
  OBVIOUS
<1>4. details \in [DOMAIN circuit -> Seq(Entry({}))]
  BY <1>3 DEF Init
<1>. QED  BY <1>1, <1>2, <1>4 DEF IdInv, Parts, Entries, Counted, IdsAreDistinct

LEMMA MergeStep ==
  ASSUME IdInv, MergeContent
  PROVE  IdInv'
<1>1. PICK first \in InOrder(FirstTwins(circuit[content])) :
        circuit' = [circuit EXCEPT ![content] =
                      [k \in DOMAIN first |-> Merged(circuit[content], first[k])]]
  BY DEF MergeContent
<1>2. content \in DOMAIN circuit /\ number' = number /\ details' = details
  BY DEF MergeContent
<1>3. circuit \in Seq(Seq(Component)) /\ number \in Nat
  BY DEF IdInv, Parts
<1>4. circuit[content] \in Seq(Component)
  BY <1>2, <1>3
<1>5. [k \in DOMAIN first |-> Merged(circuit[content], first[k])] \in Seq(Component)
  BY <1>4, MergedContent
<1>6. circuit' \in Seq(Seq(Component)) /\ DOMAIN circuit' = DOMAIN circuit
  BY <1>1, <1>2, <1>3, <1>5, ExceptSeq
<1>. QED  BY <1>2, <1>3, <1>6 DEF IdInv, Parts, Entries, Counted, IdsAreDistinct

LEMMA IdNext == IdInv /\ [Next]_vars => IdInv'
<1>. SUFFICES ASSUME IdInv, [Next]_vars  PROVE IdInv'
  OBVIOUS
<1>. DEFINE c == circuit[content][index]
<1>1. ASSUME UNCHANGED <<circuit, number, details>>
      PROVE  IdInv'
  BY <1>1 DEF IdInv, Parts, Entries, Counted, IdsAreDistinct
<1>2. ASSUME NEW kinds, Turn(kinds)
      PROVE  content \in DOMAIN circuit /\ IsSeq(DipoleDefects(c)) /\ IsSeq(DiodeDefects(c))
             /\ IsSeq(MosfetDefects(c))
  <2>1. content \in DOMAIN circuit /\ index \in DOMAIN circuit[content]
    BY <1>2 DEF Turn
  <2>2. circuit \in Seq(Seq(Component))
    BY DEF IdInv, Parts
  <2>3. circuit[content] \in Seq(Component)
    BY <2>1, <2>2
  <2>4. c \in Component
    BY <2>1, <2>3
  <2>. QED  BY <2>1, <2>4, Templates
<1>3. CASE MergeContent
  BY <1>3, MergeStep
<1>4. CASE MergeDone
  BY <1>1, <1>4 DEF MergeDone
<1>5. CASE AnalyseDipole
  BY <1>2, <1>5, ListStep DEF AnalyseDipole
<1>6. CASE AnalyseMosfet
  BY <1>2, <1>6, ListStep DEF AnalyseMosfet
<1>7. CASE AnalyseDiode
  BY <1>2, <1>7, ListStep DEF AnalyseDiode
<1>8. CASE AnalyseSource
  BY <1>8, SourceStep
<1>9. CASE IgnoreIncomplete \/ AnalyseOther \/ AnalysisRaises \/ NextContent \/ AnalysisDone
  BY <1>1, <1>9 DEF IgnoreIncomplete, AnalyseOther, AnalysisRaises, NextContent, AnalysisDone
<1>10. CASE CollapseInstance
  BY <1>10, CollapseStep
<1>11. CASE CollapseDeclined \/ CollapseNextContent \/ Generate
  BY <1>1, <1>11 DEF CollapseDeclined, CollapseNextContent, Generate
<1>12. CASE UNCHANGED vars
  BY <1>1, <1>12 DEF vars
<1>. QED  BY <1>3, <1>4, <1>5, <1>6, <1>7, <1>8, <1>9, <1>10, <1>11, <1>12
         DEF Next, Optimise, Analyse, Collapse

(* No two defects have the same identifier: process_defects calls          *)
(* defect_id for every short, open and deviation it lists, of whatever     *)
(* component and content, and collapsing keeps what it was given.          *)
THEOREM IdentifiersAreUnique == Spec => []IdsAreDistinct
<1>1. IdInv => IdsAreDistinct
  BY DEF IdInv
<1>. QED  BY IdInit, IdNext, <1>1, PTL DEF Spec

-----------------------------------------------------------------------------
(* Components have names of their own.                                     *)
NamesDiffer ==
  \A n, m \in DOMAIN circuit : \A i \in DOMAIN circuit[n], j \in DOMAIN circuit[m] :
    circuit[n][i].name = circuit[m][j].name => n = m /\ i = j

(* Defects are listed content by content, component by component.          *)
InTurn ==
  /\ pc = "merge" => index = 1 /\ \A i \in DOMAIN circuit : details[i] = <<>>
  /\ pc = "analyse" =>
       /\ content \in Nat /\ index \in Nat
       /\ \A i \in DOMAIN circuit : i > content => details[i] = <<>>

(* Each is of a component of its content that has been analysed.           *)
Owner(i, k, p) ==
  /\ circuit[i][p].name = details[i][k].instance
  /\ circuit[i][p].kind = details[i][k].category
  /\ (pc = "analyse" /\ i = content) => p < index

Owned ==
  \A i \in DOMAIN circuit : \A k \in DOMAIN details[i] :
    \E p \in DOMAIN circuit[i] : Owner(i, k, p)

Collapses == Dipole \cup {"diode"}

(* Nothing that stands behind an open of the same component is a short.    *)
ShortBehind(s, k, l) ==
  /\ k < l /\ s[k].instance = s[l].instance
  /\ s[k].category \in Collapses /\ s[k].kind = "open" /\ s[l].kind = "short"

ShortsFirst ==
  \A i \in DOMAIN circuit : \A k, l \in DOMAIN details[i] : ~ ShortBehind(details[i], k, l)

Order == NamesDiffer /\ InTurn /\ Owned /\ ShortsFirst

-----------------------------------------------------------------------------
(* The least of some positions is one of them.                             *)
LEMMA MinIsOne ==
  ASSUME NEW S \in SUBSET Nat, S # {}
  PROVE  Min(S) \in S /\ \A y \in S : Min(S) <= y
<1>. DEFINE R == OpToRel(<, Nat)
<1>1. IsWellFoundedOn(R, Nat)
  BY NatLessThanWellFounded
<1>2. \A a, b \in Nat : a < b => <<a, b>> \in R
  BY DEF OpToRel
<1>. HIDE DEF R
<1>3. PICK x \in S : \A y \in S : ~ (<<y, x>> \in R)
  BY <1>1, WFMin
<1>4. ASSUME NEW y \in S  PROVE x <= y
  <2>1. x \in Nat /\ y \in Nat
    OBVIOUS
  <2>2. ~ (y < x)
    BY <1>2, <1>3, <2>1, Zenon
  <2>. QED  BY <2>1, <2>2
<1>. QED  BY <1>4 DEF Min

(* What follows three defects by position.                                 *)
LEMMA Behind ==
  ASSUME NEW x, NEW y, NEW z, NEW p, IsSeq(p),
         y.kind # "short", z.kind # "short", \A k \in DOMAIN p : p[k].kind # "short"
  PROVE  \A k \in DOMAIN (<<x, y, z>> \o p) : k >= 2 => (<<x, y, z>> \o p)[k].kind # "short"
<1>1. PICK T : p \in Seq(T)
  BY DEF IsSeq
<1>. DEFINE U == T \cup {x, y, z}
            s == <<x, y, z>>
<1>2. s \in Seq(U) /\ Len(s) = 3 /\ s[2] = y /\ s[3] = z
  OBVIOUS
<1>3. p \in Seq(U) /\ Len(p) \in Nat /\ DOMAIN p = 1 .. Len(p)
  BY <1>1, SeqMonotonic
<1>. HIDE DEF s, U
<1>4. /\ s \o p \in Seq(U) /\ Len(s \o p) = 3 + Len(p)
      /\ \A k \in 1 .. 3 + Len(p) : (s \o p)[k] = IF k <= 3 THEN s[k] ELSE p[k - 3]
  <2>1. /\ s \o p \in Seq(U) /\ Len(s \o p) = Len(s) + Len(p)
        /\ \A k \in 1 .. Len(s) + Len(p) :
             (s \o p)[k] = IF k <= Len(s) THEN s[k] ELSE p[k - Len(s)]
    <3>1. s \in Seq(U) /\ p \in Seq(U)
      BY <1>2, <1>3
    <3>. QED  BY <3>1, ConcatProperties
  <2>2. Len(s) = 3
    BY <1>2
  <2>. QED  BY <2>1, <2>2, Zenon
<1>5. ASSUME NEW k \in DOMAIN (s \o p), k >= 2
      PROVE  (s \o p)[k].kind # "short"
  <2>1. k \in 1 .. 3 + Len(p)
    BY <1>3, <1>4
  <2>2. CASE k <= 3
    BY <1>2, <1>4, <1>5, <2>1, <2>2
  <2>3. CASE ~ (k <= 3)
    <3>1. k - 3 \in DOMAIN p
      BY <1>3, <2>1, <2>3
    <3>. QED  BY <1>4, <2>1, <2>3, <3>1
  <2>. QED  BY <2>2, <2>3
<1>. QED  BY <1>5 DEF s

(* The short of a two-terminal component or a diode is its first defect.   *)
LEMMA ShortIsFirst ==
  ASSUME NEW c \in Component
  PROVE  /\ \A k \in DOMAIN DipoleDefects(c) : k >= 2 => DipoleDefects(c)[k].kind # "short"
         /\ \A k \in DOMAIN DiodeDefects(c) : k >= 2 => DiodeDefects(c)[k].kind # "short"
<1>. DEFINE p == Parametric(c)
<1>1. IsSeq(p)
  <2>1. 2 * Len(c.params) \in Nat
    BY DEF Component
  <2>2. p = [k \in 1 .. 2 * Len(c.params) |-> p[k]]
    BY DEF Parametric
  <2>. HIDE DEF p
  <2>. QED  BY <2>1, <2>2, Indexed
<1>2. \A k \in DOMAIN p : p[k].kind # "short"
  BY DEF Parametric, Defect
<1>. HIDE DEF p
<1>3. \A v, w : Defect("open", v, w).kind # "short"
  BY DEF Defect
<1>4. \A x, u, v, w, y :
        LET s == <<x, Defect("open", u, v), Defect("open", w, y)>> \o p IN
        \A k \in DOMAIN s : k >= 2 => s[k].kind # "short"
  BY <1>1, <1>2, <1>3, Behind
<1>5. \A k \in DOMAIN DipoleDefects(c) : k >= 2 => DipoleDefects(c)[k].kind # "short"
  BY <1>4 DEF DipoleDefects, p
<1>6. \A k \in DOMAIN DiodeDefects(c) : k >= 2 => DiodeDefects(c)[k].kind # "short"
  BY <1>4 DEF DiodeDefects, p
<1>. QED  BY <1>5, <1>6

-----------------------------------------------------------------------------
(* What a content lists after something has been appended.                 *)
Old(i, k) == k \in DOMAIN details[i] /\ details'[i][k] = details[i][k]

New(i, k, s) ==
  LET m == Len(details[content]) IN
  /\ i = content /\ k \in Int /\ m \in Nat /\ k > m
  /\ k - m \in DOMAIN s /\ details'[i][k] = s[k - m]

LEMMA Concatenation ==
  ASSUME NEW T, NEW o \in Seq(T), NEW s \in Seq(T), NEW t, t = o \o s, NEW k \in DOMAIN t
  PROVE  \/ k \in DOMAIN o /\ t[k] = o[k]
         \/ /\ k \in Int /\ Len(o) \in Nat /\ k > Len(o)
            /\ k - Len(o) \in DOMAIN s /\ t[k] = s[k - Len(o)]
<1>1. /\ t \in Seq(T) /\ Len(t) = Len(o) + Len(s)
      /\ \A i \in 1 .. Len(o) + Len(s) : t[i] = IF i <= Len(o) THEN o[i] ELSE s[i - Len(o)]
  BY ConcatProperties
<1>2. /\ Len(o) \in Nat /\ DOMAIN o = 1 .. Len(o)
      /\ Len(s) \in Nat /\ DOMAIN s = 1 .. Len(s)
  OBVIOUS
<1>3. k \in 1 .. Len(o) + Len(s)
  BY <1>1
<1>. QED  BY <1>1, <1>2, <1>3

LEMMA Appended ==
  ASSUME Entries, content \in DOMAIN circuit, NEW W, NEW s \in Seq(Entry(W)),
         details' = [details EXCEPT ![content] = details[content] \o s],
         NEW i \in DOMAIN circuit, NEW k \in DOMAIN details'[i]
  PROVE  Old(i, k) \/ New(i, k, s)
<1>1. PICK V : details \in [DOMAIN circuit -> Seq(Entry(V))]
  BY DEF Entries
<1>. DEFINE o == details[content]
            T == Entry(V \cup W)
            m == Len(o)
<1>2. o \in Seq(T) /\ s \in Seq(T)
  BY <1>1, EntryMonotonic
<1>3. CASE i # content
  BY <1>1, <1>3 DEF Old
<1>4. CASE i = content
  <2>1. details'[i] = o \o s /\ details[i] = o
    BY <1>1, <1>4
  <2>. DEFINE t == details'[i]
  <2>. HIDE DEF o, T, t
  <2>2. \/ k \in DOMAIN o /\ t[k] = o[k]
        \/ /\ k \in Int /\ Len(o) \in Nat /\ k > Len(o)
           /\ k - Len(o) \in DOMAIN s /\ t[k] = s[k - Len(o)]
    <3>1. t = o \o s /\ k \in DOMAIN t
      BY <2>1 DEF t
    <3>. QED  BY <1>2, <3>1, Concatenation
  <2>. QED  BY <1>4, <2>1, <2>2 DEF Old, New, o, t
<1>. QED  BY <1>3, <1>4

(* The component in hand has nothing listed yet: what is listed for it     *)
(* keeps the order, when its own defects are in order.                     *)
LEMMA Extension ==
  ASSUME IdInv, Order, pc = "analyse", pc' = pc, content' = content, index' = index + 1,
         circuit' = circuit, content \in DOMAIN circuit, index \in DOMAIN circuit[content],
         NEW c, c = circuit[content][index], NEW W, NEW s \in Seq(Entry(W)),
         details' = [details EXCEPT ![content] = details[content] \o s],
         \A k \in DOMAIN s : s[k].instance = c.name /\ s[k].category = c.kind,
         c.kind \in Collapses => \A k \in DOMAIN s : k >= 2 => s[k].kind # "short"
  PROVE  Order'
<1>1. Entries /\ circuit \in Seq(Seq(Component))
  BY DEF IdInv, Parts
<1>2. NamesDiffer /\ InTurn /\ Owned /\ ShortsFirst /\ content \in Nat /\ index \in Nat
  BY DEF Order, InTurn
<1>3. \A i \in DOMAIN circuit : \A k \in DOMAIN details'[i] : Old(i, k) \/ New(i, k, s)
  BY <1>1, Appended
<1>4. NamesDiffer'
  BY <1>2 DEF NamesDiffer
<1>5. InTurn'
  <2>1. \A i \in DOMAIN circuit : i # content => details'[i] = details[i]
    BY <1>1 DEF Entries
  <2>2. \A i \in DOMAIN circuit : i \in Nat
    BY <1>1
  <2>3. \A i \in DOMAIN circuit : i > content => details'[i] = <<>>
    BY <1>2, <2>1, <2>2 DEF InTurn
  <2>. QED  BY <1>2, <2>3 DEF InTurn
<1>6. Owned'
  <2>. SUFFICES ASSUME NEW i \in DOMAIN circuit, NEW k \in DOMAIN details'[i]
                PROVE  \E p \in DOMAIN circuit[i] : Owner(i, k, p)'
    BY DEF Owned
  <2>1. CASE Old(i, k)
    <3>1. PICK p \in DOMAIN circuit[i] : Owner(i, k, p)
      BY <1>2, <2>1 DEF Owned, Old
    <3>2. p \in Nat
      <4>1. circuit[i] \in Seq(Component)
        BY <1>1
      <4>. QED  BY <4>1
    <3>. QED  BY <1>2, <2>1, <3>1, <3>2 DEF Owner, Old
  <2>2. CASE New(i, k, s)
    <3>1. PICK q : q = index
      OBVIOUS
    <3>2. details'[i][k].instance = c.name /\ details'[i][k].category = c.kind /\ i = content
      BY <2>2 DEF New
    <3>3. q \in DOMAIN circuit[i] /\ c = circuit[i][q] /\ q < index'
      BY <1>2, <3>1, <3>2
    <3>. QED  BY <3>2, <3>3 DEF Owner
  <2>. QED  BY <1>3, <2>1, <2>2
<1>7. ASSUME NEW k \in DOMAIN details[content]
      PROVE  details[content][k].instance # c.name
  <2>1. PICK p \in DOMAIN circuit[content] : Owner(content, k, p)
    BY <1>2 DEF Owned
  <2>2. p # index
    BY <1>2, <2>1 DEF Owner
  <2>. QED  BY <1>2, <2>1, <2>2 DEF Owner, NamesDiffer
<1>8. ShortsFirst'
  <2>. SUFFICES ASSUME NEW i \in DOMAIN circuit, NEW k \in DOMAIN details'[i],
                       NEW l \in DOMAIN details'[i], ShortBehind(details'[i], k, l)
                PROVE  FALSE
    BY DEF ShortsFirst
  <2>0. /\ k < l /\ details'[i][k].instance = details'[i][l].instance
        /\ details'[i][k].category \in Collapses /\ details'[i][k].kind = "open"
        /\ details'[i][l].kind = "short"
    BY DEF ShortBehind
  <2>1. CASE Old(i, k) /\ Old(i, l)
    BY <1>2, <2>0, <2>1 DEF ShortsFirst, ShortBehind, Old
  <2>2. CASE Old(i, k) /\ New(i, l, s)
    <3>1. i = content /\ k \in DOMAIN details[content]
      BY <2>2 DEF Old, New
    <3>2. details'[i][l].instance = c.name /\ details'[i][k] = details[content][k]
      BY <2>2, <3>1 DEF Old, New
    <3>. QED  BY <1>7, <2>0, <3>1, <3>2
  <2>3. CASE New(i, k, s) /\ Old(i, l)
    <3>1. PICK V : details[content] \in Seq(Entry(V))
      BY <1>1 DEF Entries
    <3>2. l \in 1 .. Len(details[content])
      BY <2>3, <3>1 DEF New, Old
    <3>. QED  BY <2>0, <2>3, <3>2 DEF New
  <2>4. CASE New(i, k, s) /\ New(i, l, s)
    <3>. DEFINE m == Len(details[content])
    <3>1. /\ k \in Int /\ l \in Int /\ m \in Nat /\ k > m
          /\ k - m \in DOMAIN s /\ details'[i][k] = s[k - m]
          /\ l - m \in DOMAIN s /\ details'[i][l] = s[l - m]
      BY <2>4 DEF New
    <3>. HIDE DEF m
    <3>2. l - m >= 2
      BY <2>0, <3>1
    <3>3. c.kind \in Collapses
      BY <2>0, <3>1
    <3>. QED  BY <2>0, <3>1, <3>2, <3>3
  <2>. QED  BY <1>3, <2>1, <2>2, <2>3, <2>4
<1>. QED  BY <1>4, <1>5, <1>6, <1>8 DEF Order

-----------------------------------------------------------------------------
(* The steps of the analysis and of the optimisations keep the order.      *)
LEMMA OrderList ==
  ASSUME IdInv, Order, NEW c, c = circuit[content][index], NEW kinds, Turn(kinds),
         NEW d, IsSeq(d), List(c, d),
         c.kind \in Collapses => \A k \in DOMAIN d : k >= 2 => d[k].kind # "short"
  PROVE  Order'
<1>. DEFINE s == Listed(c, d)
<1>1. number \in Nat
  BY DEF IdInv, Parts
<1>2. PICK W : s \in Seq(Entry(W))
  BY <1>1, ListedEntries
<1>3. /\ DOMAIN s = DOMAIN d
      /\ \A k \in DOMAIN s : /\ s[k].instance = c.name /\ s[k].category = c.kind
                             /\ s[k].kind = d[k].kind
  <2>1. DOMAIN d = 1 .. Len(d)
    BY DEF IsSeq
  <2>. QED  BY <1>1, <2>1, ListedEntries
<1>4. /\ pc = "analyse" /\ pc' = pc /\ content' = content /\ index' = index + 1
      /\ circuit' = circuit /\ details' = [details EXCEPT ![content] = details[content] \o s]
      /\ content \in DOMAIN circuit /\ index \in DOMAIN circuit[content]
  BY DEF Turn, List
<1>. HIDE DEF s
<1>5. /\ \A k \in DOMAIN s : s[k].instance = c.name /\ s[k].category = c.kind
      /\ c.kind \in Collapses => \A k \in DOMAIN s : k >= 2 => s[k].kind # "short"
  BY <1>3
<1>. QED  BY <1>2, <1>4, <1>5, Extension

LEMMA OrderSource ==
  ASSUME IdInv, Order, AnalyseSource
  PROVE  Order'
<1>. DEFINE c == circuit[content][index]
            r == [id |-> -1, instance |-> c.name, category |-> c.kind, kind |-> "none",
                  weight |-> 0, subject |-> <<>>]
<1>1. /\ pc = "analyse" /\ pc' = pc /\ content' = content /\ index' = index + 1
      /\ circuit' = circuit /\ details' = [details EXCEPT ![content] = Append(@, r)]
      /\ content \in DOMAIN circuit /\ index \in DOMAIN circuit[content]
  BY DEF AnalyseSource, Turn
<1>2. PICK V : details \in [DOMAIN circuit -> Seq(Entry(V))]
  BY DEF IdInv, Entries
<1>. DEFINE W == V \cup {c.name, c.kind, "none", 0, <<>>}
<1>3. details[content] \in Seq(Entry(W))
  BY <1>1, <1>2, EntryMonotonic
<1>4. r \in Entry(W) /\ r.instance = c.name /\ r.category = c.kind
  BY DEF Entry
<1>. HIDE DEF W, r
<1>5. details' = [details EXCEPT ![content] = details[content] \o <<r>>]
  <2>1. Append(details[content], r) = details[content] \o <<r>>
    BY <1>3, <1>4, AppendIsConcat
  <2>. QED  BY <1>1, <2>1
<1>6. <<r>> \in Seq(Entry(W)) /\ DOMAIN <<r>> = {1} /\ <<r>>[1] = r
  BY <1>4
<1>7. /\ \A k \in DOMAIN <<r>> : <<r>>[k].instance = c.name /\ <<r>>[k].category = c.kind
      /\ \A k \in DOMAIN <<r>> : k >= 2 => <<r>>[k].kind # "short"
  BY <1>4, <1>6
<1>. QED  BY <1>1, <1>5, <1>6, <1>7, Extension

LEMMA OrderMerge ==
  ASSUME IdInv, Order, MergeContent
  PROVE  Order'
<1>. DEFINE s == circuit[content]
<1>1. PICK first \in InOrder(FirstTwins(s)) :
        circuit' = [circuit EXCEPT ![content] = [k \in DOMAIN first |-> Merged(s, first[k])]]
  BY DEF MergeContent
<1>2. /\ content \in DOMAIN circuit /\ details' = details /\ pc = "merge" /\ pc' = pc
      /\ index' = index
  BY DEF MergeContent
<1>3. circuit \in Seq(Seq(Component)) /\ s \in Seq(Component)
  BY <1>2 DEF IdInv, Parts
<1>4. DOMAIN circuit' = DOMAIN circuit
  BY <1>1, <1>3
<1>5. NamesDiffer /\ InTurn
  BY DEF Order
<1>. DEFINE size == Cardinality(FirstTwins(s))
<1>6. /\ first \in [1 .. size -> FirstTwins(s)]
      /\ \A i, j \in DOMAIN first : i < j => first[i] < first[j]
  BY DEF InOrder
<1>7. FirstTwins(s) \subseteq DOMAIN s /\ DOMAIN s \subseteq Nat
  BY <1>3 DEF FirstTwins
<1>. HIDE DEF size
<1>8. \A k \in DOMAIN first : first[k] \in DOMAIN s /\ Merged(s, first[k]).name = s[first[k]].name
  BY <1>3, <1>6, <1>7, MergedComponent
<1>9. NamesDiffer'
  <2>. DEFINE From(n, i, o) ==
                /\ o \in DOMAIN circuit[n] /\ circuit'[n][i].name = circuit[n][o].name
                /\ IF n = content THEN i \in DOMAIN first /\ o = first[i] ELSE o = i
  <2>1. ASSUME NEW n \in DOMAIN circuit, NEW i \in DOMAIN circuit'[n]
        PROVE  \E o : From(n, i, o)
    <3>1. CASE n # content
      BY <1>1, <1>3, <3>1
    <3>2. CASE n = content
      <4>1. circuit'[n] = [k \in DOMAIN first |-> Merged(s, first[k])]
        BY <1>1, <1>3, <3>2
      <4>. QED  BY <1>8, <3>2, <4>1
    <3>. QED  BY <3>1, <3>2
  <2>. SUFFICES ASSUME NEW n \in DOMAIN circuit, NEW m \in DOMAIN circuit,
                       NEW i \in DOMAIN circuit'[n], NEW j \in DOMAIN circuit'[m],
                       circuit'[n][i].name = circuit'[m][j].name
                PROVE  n = m /\ i = j
    BY <1>4 DEF NamesDiffer
  <2>2. PICK o : From(n, i, o)
    BY <2>1
  <2>3. PICK q : From(m, j, q)
    BY <2>1
  <2>4. n = m /\ o = q
    <3>1. circuit[n][o].name = circuit[m][q].name /\ o \in DOMAIN circuit[n] /\ q \in DOMAIN circuit[m]
      BY <2>2, <2>3
    <3>. QED  BY <1>5, <3>1 DEF NamesDiffer
  <2>5. CASE n = content
    <3>1. /\ i \in DOMAIN first /\ j \in DOMAIN first /\ first[i] = first[j]
          /\ i \in Int /\ j \in Int /\ first[i] \in Nat
      BY <1>6, <1>7, <2>2, <2>3, <2>4, <2>5
    <3>. QED  BY <1>6, <2>4, <3>1
  <2>6. CASE n # content
    BY <2>2, <2>3, <2>4, <2>6
  <2>. QED  BY <2>5, <2>6
<1>10. \A i \in DOMAIN circuit : details[i] = <<>>
  BY <1>2, <1>5 DEF InTurn
<1>. QED  BY <1>2, <1>4, <1>5, <1>9, <1>10 DEF Order, InTurn, Owned, ShortsFirst

(* Collapsing changes weights only.                                        *)
LEMMA OrderCollapse ==
  ASSUME IdInv, Order, CollapseInstance
  PROVE  Order'
<1>1. PICK stop : details' = [details EXCEPT ![content] =
                     CollapsedInto(details[content], Opens(details[content], index, stop), stop)]
  BY DEF CollapseInstance
<1>. DEFINE s == details[content]
            t == CollapsedInto(s, Opens(s, index, stop), stop)
<1>2. content \in DOMAIN circuit /\ circuit' = circuit /\ pc = "collapse" /\ pc' = pc
  BY DEF CollapseInstance
<1>3. PICK V : details \in [DOMAIN circuit -> Seq(Entry(V))]
  BY DEF IdInv, Entries
<1>4. s \in Seq(Entry(V))
  BY <1>2, <1>3
<1>5. /\ DOMAIN t = DOMAIN s
      /\ \A k \in DOMAIN s : /\ t[k].kind = s[k].kind /\ t[k].instance = s[k].instance
                             /\ t[k].category = s[k].category
  BY <1>4, CollapsedEntries
<1>6. details' = [details EXCEPT ![content] = t]
  BY <1>1
<1>. HIDE DEF t
<1>7. \A i \in DOMAIN circuit :
        /\ DOMAIN details'[i] = DOMAIN details[i]
        /\ \A k \in DOMAIN details[i] : /\ details'[i][k].kind = details[i][k].kind
                                        /\ details'[i][k].instance = details[i][k].instance
                                        /\ details'[i][k].category = details[i][k].category
  BY <1>3, <1>5, <1>6
<1>8. Owned'
  BY <1>2, <1>7 DEF Order, Owned, Owner
<1>9. ShortsFirst'
  BY <1>2, <1>7 DEF Order, ShortsFirst, ShortBehind
<1>. QED  BY <1>2, <1>8, <1>9 DEF Order, NamesDiffer, InTurn

LEMMA OrderInit == Init => Order
<1>. SUFFICES ASSUME Init  PROVE Order
  OBVIOUS
<1>1. \A i \in DOMAIN circuit : details[i] = <<>>
  BY DEF Init
<1>2. NamesDiffer
  BY DefectUniverseAssumption DEF Init, NamesDiffer
<1>. QED  BY <1>1, <1>2 DEF Init, Order, InTurn, Owned, ShortsFirst

LEMMA OrderNext == IdInv /\ Order /\ [Next]_vars => Order'
<1>. SUFFICES ASSUME IdInv, Order, [Next]_vars  PROVE Order'
  OBVIOUS
<1>. DEFINE c == circuit[content][index]
<1>1. ASSUME UNCHANGED <<circuit, details>>, pc' # "merge", pc' # "analyse"
      PROVE  Order'
  BY <1>1 DEF Order, NamesDiffer, InTurn, Owned, Owner, ShortsFirst
<1>2. ASSUME NEW kinds, Turn(kinds)
      PROVE  c \in Component /\ c.kind \in kinds
  <2>1. content \in DOMAIN circuit /\ index \in DOMAIN circuit[content] /\ c.kind \in kinds
    BY <1>2 DEF Turn
  <2>2. circuit \in Seq(Seq(Component))
    BY DEF IdInv, Parts
  <2>3. circuit[content] \in Seq(Component)
    BY <2>1, <2>2
  <2>. QED  BY <2>1, <2>3
<1>3. CASE MergeContent
  BY <1>3, OrderMerge
<1>4. CASE MergeDone
  <2>1. Owned' /\ ShortsFirst'
    BY <1>4 DEF MergeDone, Order, InTurn, Owned, ShortsFirst
  <2>2. InTurn' /\ NamesDiffer'
    BY <1>4 DEF MergeDone, Order, InTurn, NamesDiffer
  <2>. QED  BY <2>1, <2>2 DEF Order
<1>5. CASE AnalysisRaises \/ AnalysisDone
  BY <1>1, <1>5 DEF AnalysisRaises, AnalysisDone
<1>6. CASE AnalyseDipole
  <2>1. c \in Component /\ Turn(Dipole) /\ List(c, DipoleDefects(c))
    BY <1>2, <1>6 DEF AnalyseDipole
  <2>. HIDE DEF c
  <2>. QED  BY <2>1, Templates, ShortIsFirst, OrderList DEF c
<1>7. CASE AnalyseMosfet
  <2>1. c \in Component /\ Turn({"mosfet"}) /\ List(c, MosfetDefects(c)) /\ c.kind \notin Collapses
    BY <1>2, <1>7 DEF AnalyseMosfet, Collapses, Dipole
  <2>. HIDE DEF c
  <2>. QED  BY <2>1, Templates, OrderList DEF c
<1>8. CASE AnalyseDiode
  <2>1. c \in Component /\ Turn({"diode"}) /\ List(c, DiodeDefects(c))
    BY <1>2, <1>8 DEF AnalyseDiode
  <2>. HIDE DEF c
  <2>. QED  BY <2>1, Templates, ShortIsFirst, OrderList DEF c
<1>9. CASE AnalyseSource
  BY <1>9, OrderSource
<1>10. CASE IgnoreIncomplete
  BY <1>10 DEF IgnoreIncomplete, Order, NamesDiffer, InTurn, Owned, Owner, ShortsFirst
<1>11. CASE AnalyseOther
  <2>1. /\ UNCHANGED <<circuit, details, pc, content>> /\ index' = index + 1 /\ pc = "analyse"
        /\ content \in DOMAIN circuit
    BY <1>11 DEF AnalyseOther, Turn
  <2>2. \A i \in DOMAIN circuit : DOMAIN circuit[i] \subseteq Nat
    <3>1. circuit \in Seq(Seq(Component))
      BY DEF IdInv, Parts
    <3>2. \A i \in DOMAIN circuit : circuit[i] \in Seq(Component)
      BY <3>1
    <3>. QED  BY <3>2
  <2>3. index \in Nat
    BY <2>1 DEF Order, InTurn
  <2>4. Owned'
    BY <2>1, <2>2, <2>3 DEF Order, Owned, Owner
  <2>. QED  BY <2>1, <2>4 DEF Order, NamesDiffer, InTurn, ShortsFirst
<1>12. CASE NextContent
  <2>1. /\ UNCHANGED <<circuit, details, pc>> /\ pc = "analyse" /\ content' = content + 1
        /\ index' = 1 /\ content \in Nat
    BY <1>12 DEF NextContent, Order, InTurn
  <2>2. \A i \in DOMAIN circuit : i \in Nat
    BY DEF IdInv, Parts
  <2>3. \A i \in DOMAIN circuit : i > content => details[i] = <<>>
    BY <2>1 DEF Order, InTurn
  <2>4. InTurn'
    BY <2>1, <2>2, <2>3 DEF InTurn
  <2>5. Owned'
    BY <2>1, <2>2, <2>3 DEF Order, Owned, Owner
  <2>. QED  BY <2>1, <2>4, <2>5 DEF Order, NamesDiffer, ShortsFirst
<1>13. CASE CollapseInstance
  BY <1>13, OrderCollapse
<1>14. CASE CollapseDeclined \/ CollapseNextContent \/ Generate
  BY <1>1, <1>14 DEF CollapseDeclined, CollapseNextContent, Generate
<1>15. CASE UNCHANGED vars
  BY <1>15 DEF vars, Order, NamesDiffer, InTurn, Owned, Owner, ShortsFirst
<1>. QED  BY <1>3, <1>4, <1>5, <1>6, <1>7, <1>8, <1>9, <1>10, <1>11, <1>12, <1>13, <1>14, <1>15
         DEF Next, Optimise, Analyse, Collapse

-----------------------------------------------------------------------------
(* What collapsing changes lies between the first open and the place where *)
(* the search stopped: it is of the component the search began with.       *)
LEMMA Confined ==
  ASSUME NEW V, NEW s \in Seq(Entry(V)), NEW n \in DOMAIN s, NEW stop \in n .. Len(s),
         StopsAt(s, n, stop), NEW k \in DOMAIN s,
         CollapsedInto(s, Opens(s, n, stop), stop)[k] # s[k]
  PROVE  \E f \in DOMAIN s :
           /\ f <= k /\ s[f].instance = s[n].instance /\ s[f].category \in Collapses
           /\ s[f].kind = "open" /\ s[k].instance = s[n].instance
<1>. DEFINE O == Opens(s, n, stop)
            f == Min(O)
<1>1. /\ Len(s) \in Nat /\ DOMAIN s = 1 .. Len(s) /\ n \in Nat /\ stop \in Nat /\ k \in Nat
      /\ n <= stop
  OBVIOUS
<1>2. O \in SUBSET Nat
  BY <1>1 DEF Opens
<1>3. O # {} /\ (k = f \/ k \in f + 1 .. stop - 1)
  BY DEF CollapsedInto
<1>4. f \in O
  BY <1>2, <1>3, MinIsOne
<1>5. /\ f \in n .. stop /\ s[f].instance = s[n].instance /\ s[f].category \in Collapses
      /\ s[f].kind = "open"
  BY <1>4 DEF Opens, Collapses
<1>. HIDE DEF f
<1>6. f \in DOMAIN s /\ f <= k
  BY <1>1, <1>3, <1>5
<1>7. s[k].instance = s[n].instance
  <2>1. CASE k = f
    BY <1>5, <2>1
  <2>2. CASE k \in f + 1 .. stop - 1
    <3>1. k \in n .. stop - 1
      BY <1>1, <1>5, <2>2
    <3>. QED  BY <3>1 DEF StopsAt
  <2>. QED  BY <1>3, <2>1, <2>2
<1>. QED  BY <1>5, <1>6, <1>7

(* Collapsing never touches a short, nor a transistor or a source, nor the *)
(* defects of two components at a time, although the place where its       *)
(* search stops may be any defect of the next component, or the last of    *)
(* all, and although the search goes on behind it.                         *)
THEOREM CollapsingIsConfined == Spec => CollapseIsConfined
<1>1. ASSUME IdInv, Order, [Next]_vars, pc = "collapse",
             NEW i \in DOMAIN circuit, NEW j \in DOMAIN circuit,
             NEW k \in DOMAIN details[i], NEW l \in DOMAIN details[j],
             details'[i][k] # details[i][k], details'[j][l] # details[j][l]
      PROVE  /\ details[i][k].instance = details[j][l].instance
             /\ details[i][k].category \in Dipole \cup {"diode"}
             /\ details[i][k].kind # "short"
  <2>1. CollapseInstance
    BY <1>1 DEF Next, vars, Optimise, Analyse, Collapse, MergeContent, MergeDone,
                AnalyseDipole, AnalyseMosfet, AnalyseDiode, IgnoreIncomplete, AnalyseSource,
                AnalyseOther, AnalysisRaises, NextContent, AnalysisDone, Turn,
                CollapseDeclined, CollapseNextContent, Generate
  <2>. DEFINE s == details[content]
  <2>2. PICK V : details \in [DOMAIN circuit -> Seq(Entry(V))]
    BY <1>1 DEF IdInv, Entries
  <2>3. PICK stop \in index .. Len(s) :
          /\ StopsAt(s, index, stop)
          /\ details' = [details EXCEPT ![content] =
                           CollapsedInto(s, Opens(s, index, stop), stop)]
    BY <2>1 DEF CollapseInstance
  <2>4. content \in DOMAIN circuit /\ index \in DOMAIN s /\ s \in Seq(Entry(V))
    BY <2>1, <2>2 DEF CollapseInstance
  <2>5. i = content /\ j = content
    BY <1>1, <2>2, <2>3
  <2>6. details'[content] = CollapsedInto(s, Opens(s, index, stop), stop)
    BY <2>2, <2>3, <2>4
  <2>7. PICK f \in DOMAIN s :
          /\ f <= k /\ s[f].instance = s[index].instance /\ s[f].category \in Collapses
          /\ s[f].kind = "open" /\ s[k].instance = s[index].instance
    BY <1>1, <2>3, <2>4, <2>5, <2>6, Confined
  <2>8. s[l].instance = s[index].instance
    BY <1>1, <2>3, <2>4, <2>5, <2>6, Confined
  <2>9. s[k].category = s[f].category
    <3>1. PICK p \in DOMAIN circuit[content] : Owner(content, k, p)
      BY <1>1, <2>4, <2>5 DEF Order, Owned
    <3>2. PICK q \in DOMAIN circuit[content] : Owner(content, f, q)
      BY <1>1, <2>4, <2>5 DEF Order, Owned
    <3>3. p = q
      BY <1>1, <2>4, <2>7, <3>1, <3>2 DEF Order, NamesDiffer, Owner
    <3>. QED  BY <3>1, <3>2, <3>3 DEF Owner
  <2>10. s[k].kind # "short"
    <3>1. k \in DOMAIN s /\ k \in Nat /\ f \in Nat
      BY <1>1, <2>4, <2>5
    <3>2. CASE f = k
      BY <2>7, <3>2
    <3>3. CASE f < k
      BY <1>1, <2>4, <2>7, <3>1, <3>3 DEF Order, ShortsFirst, ShortBehind
    <3>. QED  BY <2>7, <3>1, <3>2, <3>3
  <2>. QED  BY <2>5, <2>7, <2>8, <2>9, <2>10 DEF Collapses
<1>2. IdInv /\ Order /\ [Next]_vars =>
        [pc = "collapse" =>
           \A i, j \in DOMAIN circuit : \A k \in DOMAIN details[i], l \in DOMAIN details[j] :
             details'[i][k] # details[i][k] /\ details'[j][l] # details[j][l] =>
               /\ details[i][k].instance = details[j][l].instance
               /\ details[i][k].category \in Dipole \cup {"diode"}
               /\ details[i][k].kind # "short"]_vars
  BY <1>1
<1>3. Spec => [](IdInv /\ Order)
  BY IdInit, IdNext, OrderInit, OrderNext, PTL DEF Spec
<1>. QED  BY <1>2, <1>3, PTL DEF Spec, CollapseIsConfined

-----------------------------------------------------------------------------
(* What a component consists of.                                           *)
LEMMA Parameters ==
  ASSUME NEW c \in Component
  PROVE  /\ c.name \in Name /\ c.kind \in Kind /\ c.master \in Name
         /\ c.nodes \in Seq(Name) /\ Len(c.nodes) \in Nat /\ DOMAIN c.nodes = 1 .. Len(c.nodes)
         /\ \A i \in DOMAIN c.nodes : c.nodes[i] \in Name
         /\ Len(c.params) \in Nat /\ DOMAIN c.params = 1 .. Len(c.params)
         /\ \A i \in DOMAIN c.params : c.params[i].name \in Name /\ c.params[i].value \in Value
<1>. DEFINE P == [name : Name, value : Value]
<1>1. /\ c.name \in Name /\ c.kind \in Kind /\ c.master \in Name
      /\ c.nodes \in Seq(Name) /\ c.params \in Seq(P)
  BY DEF Component
<1>2. \A p \in P : p.name \in Name /\ p.value \in Value
  OBVIOUS
<1>. HIDE DEF P
<1>. QED  BY <1>1, <1>2

(* A parameter that is there and is a number is a positive one.            *)
LEMMA Calculated ==
  ASSUME NEW c \in Component, Numeric(c)
  PROVE  /\ \A p : Has(c, p) => Get(c, p) \in Nat \ {0}
         /\ Multiplicity(c) \in Nat \ {0}
<1>1. ASSUME NEW p, Has(c, p)  PROVE Get(c, p) \in Nat \ {0}
  <2>. DEFINE i == CHOOSE i \in DOMAIN c.params : c.params[i].name = p
  <2>1. i \in DOMAIN c.params
    BY <1>1 DEF Has
  <2>. HIDE DEF i
  <2>2. c.params[i].value \in Value /\ c.params[i].value # Symbolic
    BY <2>1, Parameters DEF Numeric
  <2>. QED  BY <2>2 DEF Get, i, Value
<1>. QED  BY <1>1 DEF Multiplicity

LEMMA Product ==
  ASSUME NEW a \in Nat, NEW b \in Nat
  PROVE  /\ a * b \in Nat /\ (a # 0 /\ b # 0 => a * b # 0)
         /\ a * b + a * b = 2 * b * a
  OBVIOUS

(* What a defect of a component may be.                                    *)
Suits(c, d) ==
  \/ d.kind = "short" /\ \E i, j \in DOMAIN c.nodes : d.subject = <<c.nodes[i], c.nodes[j]>>
  \/ d.kind = "open" /\ \E i \in DOMAIN c.nodes : d.subject = <<c.nodes[i]>>
  \/ /\ d.kind = "open" /\ c.kind = "mosfet" /\ Len(c.nodes) >= 4
     /\ d.subject = <<c.nodes[1], c.nodes[2], c.nodes[3]>>
  \/ /\ d.kind = "parametric"
     /\ \E i \in DOMAIN c.params : /\ d.subject = <<c.params[i].name>>
                                   /\ d.weight # 0 => c.params[i].name \in Target[c.kind]

Template(c) ==
  {d \in [kind : {"short", "open", "parametric"}, weight : Nat, subject : Seq(Name)] : Suits(c, d)}

LEMMA Kinds ==
  ASSUME NEW c \in Component, NEW w \in Nat, NEW i \in DOMAIN c.nodes, NEW j \in DOMAIN c.nodes
  PROVE  /\ Defect("short", w, <<c.nodes[i], c.nodes[j]>>) \in Template(c)
         /\ Defect("open", w, <<c.nodes[i]>>) \in Template(c)
<1>1. c.nodes[i] \in Name /\ c.nodes[j] \in Name
  BY Parameters
<1>2. <<c.nodes[i], c.nodes[j]>> \in Seq(Name) /\ <<c.nodes[i]>> \in Seq(Name)
  BY <1>1
<1>. QED  BY <1>2 DEF Defect, Template, Suits

LEMMA ParametricTemplates ==
  ASSUME NEW c \in Component
  PROVE  /\ Parametric(c) \in Seq(Template(c))
         /\ \A k \in DOMAIN Parametric(c) : Parametric(c)[k].kind = "parametric"
<1>. DEFINE n == Len(c.params)
            at(k) == (k + 1) \div 2
            w(k) == IF \A j \in 1 .. at(k) : Deviates(c, c.params[j].name) THEN 10 ELSE 0
            d(k) == Defect("parametric", w(k), <<c.params[at(k)].name>>)
<1>1. Parametric(c) = [k \in 1 .. 2 * n |-> d(k)]
  BY DEF Parametric
<1>2. n \in Nat /\ DOMAIN c.params = 1 .. n
  BY Parameters
<1>3. ASSUME NEW k \in 1 .. 2 * n
      PROVE  d(k) \in Template(c)
  <2>1. at(k) \in 1 .. n
    BY <1>2
  <2>2. w(k) \in Nat /\ (w(k) # 0 => c.params[at(k)].name \in Target[c.kind])
    BY <2>1 DEF Deviates
  <2>. HIDE DEF at, w
  <2>3. <<c.params[at(k)].name>> \in Seq(Name)
    BY <1>2, <2>1, Parameters
  <2>. QED  BY <1>2, <2>1, <2>2, <2>3 DEF Defect, Template, Suits
<1>4. \A k \in 1 .. 2 * n : d(k).kind = "parametric"
  BY DEF Defect
<1>. HIDE DEF d
<1>5. 2 * n \in Nat
  BY <1>2
<1>. HIDE DEF n
<1>6. [k \in 1 .. 2 * n |-> d(k)] \in Seq(Template(c))
  BY <1>3, <1>5, IsASeq
<1>. QED  BY <1>1, <1>4, <1>6

LEMMA Triple ==
  ASSUME NEW T, NEW x \in T, NEW y \in T, NEW z \in T, NEW p \in Seq(T), NEW s, s = <<x, y, z>> \o p
  PROVE  /\ s \in Seq(T) /\ Len(s) = 3 + Len(p) /\ Len(p) \in Nat
         /\ s[1] = x /\ s[2] = y /\ s[3] = z
         /\ \A k \in 4 .. 3 + Len(p) : s[k] = p[k - 3] /\ k - 3 \in DOMAIN p
<1>. DEFINE t == <<x, y, z>>
<1>1. t \in Seq(T) /\ Len(t) = 3 /\ t[1] = x /\ t[2] = y /\ t[3] = z
  OBVIOUS
<1>2. Len(p) \in Nat /\ DOMAIN p = 1 .. Len(p)
  OBVIOUS
<1>. HIDE DEF t
<1>3. /\ s \in Seq(T) /\ Len(s) = Len(t) + Len(p)
      /\ \A k \in 1 .. Len(t) + Len(p) : s[k] = IF k <= Len(t) THEN t[k] ELSE p[k - Len(t)]
  <2>1. s = t \o p
    BY DEF t
  <2>. QED  BY <1>1, <2>1, ConcatProperties
<1>4. \A k \in 1 .. 3 + Len(p) : s[k] = IF k <= 3 THEN t[k] ELSE p[k - 3]
  BY <1>1, <1>3
<1>. QED  BY <1>1, <1>2, <1>3, <1>4

(* A two-terminal element and a diode have a short, two opens of one       *)
(* weight, and deviations.                                                 *)
OpenFactor(c) == IF c.kind = "diode" THEN 10 * Get(c, "area") ELSE DipoleOpen(c)

TwoOpens(c, d) ==
  /\ Len(d) >= 3
  /\ \A k \in DOMAIN d : d[k].kind = "open" <=> k \in {2, 3}
  /\ d[2].weight = OpenFactor(c) * Multiplicity(c) /\ d[3].weight = d[2].weight

LEMMA OpensOfDipole ==
  ASSUME NEW c \in Component, c.kind \in Dipole, Numeric(c), Wired(c)
  PROVE  /\ DipoleDefects(c) \in Seq(Template(c))
         /\ TwoOpens(c, DipoleDefects(c))
         /\ OpenFactor(c) \in Nat \ {0}
<1>. DEFINE m == Multiplicity(c)
            p == Parametric(c)
            x == Defect("short", DipoleShort(c) * m, <<c.nodes[1], c.nodes[2]>>)
            y == Defect("open", DipoleOpen(c) * m, <<c.nodes[1]>>)
            z == Defect("open", DipoleOpen(c) * m, <<c.nodes[2]>>)
            s == DipoleDefects(c)
<1>1. s = <<x, y, z>> \o p
  BY DEF DipoleDefects
<1>2. 1 \in DOMAIN c.nodes /\ 2 \in DOMAIN c.nodes
  <2>1. Terminals(c.kind) = 2
    BY DEF Terminals, Dipole
  <2>. QED  BY <2>1, Parameters DEF Wired
<1>3. m \in Nat /\ DipoleShort(c) \in Nat /\ DipoleOpen(c) \in Nat \ {0}
  BY Calculated DEF DipoleShort, DipoleOpen
<1>4. DipoleShort(c) * m \in Nat /\ DipoleOpen(c) * m \in Nat
  BY <1>3, Product
<1>5. /\ x.kind = "short" /\ y.kind = "open" /\ z.kind = "open"
      /\ y.weight = DipoleOpen(c) * m /\ z.weight = DipoleOpen(c) * m
  BY DEF Defect
<1>6. x \in Template(c) /\ y \in Template(c) /\ z \in Template(c)
  BY <1>2, <1>4, Kinds
<1>7. p \in Seq(Template(c)) /\ \A k \in DOMAIN p : p[k].kind = "parametric"
  BY ParametricTemplates
<1>8. OpenFactor(c) = DipoleOpen(c)
  BY DEF OpenFactor, Dipole
<1>. HIDE DEF x, y, z, p, s, m
<1>9. /\ s \in Seq(Template(c)) /\ Len(s) = 3 + Len(p) /\ Len(p) \in Nat
      /\ s[1] = x /\ s[2] = y /\ s[3] = z
      /\ \A k \in 4 .. 3 + Len(p) : s[k] = p[k - 3] /\ k - 3 \in DOMAIN p
  BY <1>1, <1>6, <1>7, Triple
<1>10. \A k \in 1 .. 3 + Len(p) : s[k].kind = "open" <=> k \in {2, 3}
  BY <1>5, <1>7, <1>9
<1>11. TwoOpens(c, s)
  BY <1>5, <1>8, <1>9, <1>10 DEF TwoOpens, m
<1>. QED  BY <1>3, <1>8, <1>9, <1>11 DEF s

LEMMA OpensOfDiode ==
  ASSUME NEW c \in Component, c.kind = "diode", Numeric(c), Wired(c), Complete(c)
  PROVE  /\ DiodeDefects(c) \in Seq(Template(c))
         /\ TwoOpens(c, DiodeDefects(c))
         /\ OpenFactor(c) \in Nat \ {0}
<1>. DEFINE w == 10 * Get(c, "area") * Multiplicity(c)
            p == Parametric(c)
            x == Defect("short", w, <<c.nodes[1], c.nodes[2]>>)
            y == Defect("open", w, <<c.nodes[1]>>)
            z == Defect("open", w, <<c.nodes[2]>>)
            s == DiodeDefects(c)
<1>1. s = <<x, y, z>> \o p
  BY DEF DiodeDefects
<1>2. 1 \in DOMAIN c.nodes /\ 2 \in DOMAIN c.nodes
  <2>1. Terminals(c.kind) = 2
    BY DEF Terminals
  <2>. QED  BY <2>1, Parameters DEF Wired
<1>3. OpenFactor(c) = 10 * Get(c, "area") /\ OpenFactor(c) \in Nat \ {0}
  <2>1. Has(c, "area")
    BY DEF Complete, Needs
  <2>2. Get(c, "area") \in Nat \ {0}
    BY <2>1, Calculated
  <2>. QED  BY <2>2 DEF OpenFactor
<1>4. w = OpenFactor(c) * Multiplicity(c) /\ w \in Nat
  BY <1>3, Calculated, Product
<1>5. /\ x.kind = "short" /\ y.kind = "open" /\ z.kind = "open"
      /\ y.weight = w /\ z.weight = w
  BY DEF Defect
<1>. HIDE DEF w
<1>6. x \in Template(c) /\ y \in Template(c) /\ z \in Template(c)
  BY <1>2, <1>4, Kinds
<1>7. p \in Seq(Template(c)) /\ \A k \in DOMAIN p : p[k].kind = "parametric"
  BY ParametricTemplates
<1>. HIDE DEF x, y, z, p, s
<1>9. /\ s \in Seq(Template(c)) /\ Len(s) = 3 + Len(p) /\ Len(p) \in Nat
      /\ s[1] = x /\ s[2] = y /\ s[3] = z
      /\ \A k \in 4 .. 3 + Len(p) : s[k] = p[k - 3] /\ k - 3 \in DOMAIN p
  BY <1>1, <1>6, <1>7, Triple
<1>10. \A k \in 1 .. 3 + Len(p) : s[k].kind = "open" <=> k \in {2, 3}
  BY <1>5, <1>7, <1>9
<1>11. TwoOpens(c, s)
  BY <1>4, <1>5, <1>9, <1>10 DEF TwoOpens
<1>. QED  BY <1>3, <1>9, <1>11 DEF s

(* A transistor's shorts and opens.                                        *)
LEMMA TransistorTemplates ==
  ASSUME NEW c \in Component, c.kind = "mosfet", Numeric(c), Wired(c), Complete(c)
  PROVE  MosfetDefects(c) \in Seq(Template(c))
<1>. DEFINE m == Multiplicity(c)
            T == Template(c)
            a(k) == CoupledNodes[k][1]
            b(k) == CoupledNodes[k][2]
            short(k) == Defect("short", CoupleWeight(c, c.nodes[a(k)], c.nodes[b(k)]) * m,
                               <<c.nodes[a(k)], c.nodes[b(k)]>>)
            v == Defect("open", 10 * m, <<c.nodes[1]>>)
            w == Defect("open", 5 * m, <<c.nodes[2]>>)
            x == Defect("open", 5 * m, <<c.nodes[1], c.nodes[2], c.nodes[3]>>)
            y == Defect("open", 10 * m, <<c.nodes[3]>>)
            z == Defect("open", IF manifest.bulk THEN 2 ELSE 0, <<c.nodes[4]>>)
            shorts == [k \in 1 .. 6 |-> short(k)]
<1>1. MosfetDefects(c) = shorts \o <<v, w, x, y, z>> \o Parametric(c)
  BY DEF MosfetDefects
<1>2. {1, 2, 3, 4} \subseteq DOMAIN c.nodes /\ Len(c.nodes) >= 4
  <2>1. Terminals(c.kind) = 4
    BY DEF Terminals, Dipole
  <2>. QED  BY <2>1, Parameters DEF Wired
<1>3. /\ m \in Nat /\ Get(c, "w") \in Nat /\ Get(c, "l") \in Nat
  <2>1. Has(c, "w") /\ Has(c, "l")
    BY DEF Complete, Needs
  <2>. QED  BY <2>1, Calculated
<1>4. \A p, q : CoupleWeight(c, p, q) \in Nat
  BY <1>3 DEF CoupleWeight
<1>5. \A k \in 1 .. 6 : a(k) \in {1, 2, 3, 4} /\ b(k) \in {1, 2, 3, 4}
  BY DEF CoupledNodes
<1>6. \A k \in 1 .. 6 : short(k) \in T
  <2>. SUFFICES ASSUME NEW k \in 1 .. 6  PROVE short(k) \in T
    OBVIOUS
  <2>. HIDE DEF a, b, m
  <2>1. a(k) \in DOMAIN c.nodes /\ b(k) \in DOMAIN c.nodes
    BY <1>2, <1>5
  <2>2. CoupleWeight(c, c.nodes[a(k)], c.nodes[b(k)]) * m \in Nat
    BY <1>3, <1>4, Product
  <2>. QED  BY <2>1, <2>2, Kinds
<1>7. v \in T /\ w \in T /\ y \in T /\ z \in T
  <2>. HIDE DEF m
  <2>1. 10 * m \in Nat /\ 5 * m \in Nat /\ (IF manifest.bulk THEN 2 ELSE 0) \in Nat
    BY <1>3
  <2>. QED  BY <1>2, <2>1, Kinds
<1>8. x \in T
  <2>. HIDE DEF m
  <2>1. 5 * m \in Nat
    BY <1>3
  <2>2. <<c.nodes[1], c.nodes[2], c.nodes[3]>> \in Seq(Name)
    BY <1>2, Parameters
  <2>. QED  BY <1>2, <2>1, <2>2 DEF Defect, Template, Suits
<1>. HIDE DEF v, w, x, y, z, short, T
<1>9. shorts \in Seq(T)
  BY <1>6, IsASeq
<1>10. <<v, w, x, y, z>> \in Seq(T)
  BY <1>7, <1>8
<1>11. Parametric(c) \in Seq(T)
  BY ParametricTemplates DEF T
<1>. HIDE DEF shorts
<1>12. shorts \o <<v, w, x, y, z>> \in Seq(T)
  BY <1>9, <1>10, ConcatProperties
<1>13. shorts \o <<v, w, x, y, z>> \o Parametric(c) \in Seq(T)
  BY <1>11, <1>12, ConcatProperties
<1>. QED  BY <1>1, <1>13 DEF T

(* Collapsing adds up the weights of a set of entries.  What the fold gives*)
(* for two of them.                                                        *)
LEMMA SumOfTwo ==
  ASSUME NEW e, NEW a, NEW b, a # b, e[a].weight \in Nat, e[b].weight \in Nat
  PROVE  Total(e, {a, b}) = e[a].weight + e[b].weight
<1>. DEFINE f(i) == e[i].weight
            S == {a, b}
            pick(s) == CHOOSE x \in s : TRUE
            Step(g) == [s \in SUBSET S |->
                          IF s = {} THEN 0 ELSE f(pick(s)) + g[s \ {pick(s)}]]
            g == [s \in SUBSET S |->
                    (IF a \in s THEN f(a) ELSE 0) + (IF b \in s THEN f(b) ELSE 0)]
            iter == CHOOSE h : h = Step(h)
<1>1. \A s \in SUBSET S : s # {} => pick(s) \in s
  OBVIOUS
<1>2. g = Step(g)
  <2>1. ASSUME NEW s \in SUBSET S
        PROVE  g[s] = IF s = {} THEN 0 ELSE f(pick(s)) + g[s \ {pick(s)}]
    <3>1. CASE s = {}
      BY <3>1
    <3>2. CASE s # {}
      <4>. DEFINE x == pick(s)
      <4>1. x \in s /\ (x = a \/ x = b)
        BY <1>1, <3>2
      <4>2. s \ {x} \in SUBSET S
        OBVIOUS
      <4>. HIDE DEF x
      <4>3. g[s] = f(x) + g[s \ {x}]
        BY <4>1, <4>2
      <4>. QED  BY <3>2, <4>3 DEF x
    <3>. QED  BY <3>1, <3>2
  <2>. QED  BY <2>1
<1>3. iter = Step(iter)
  <2>. HIDE DEF g, Step
  <2>. QED  BY <1>2
<1>4. Total(e, S) = iter[S]
  BY DEF Total, MapThenSumSet, MapThenFoldSet
<1>5. \A s \in SUBSET S :
         iter[s] = IF s = {} THEN 0 ELSE f(pick(s)) + iter[s \ {pick(s)}]
  <2>1. \A s \in SUBSET S :
           Step(iter)[s] = IF s = {} THEN 0 ELSE f(pick(s)) + iter[s \ {pick(s)}]
    <3>. HIDE DEF iter
    <3>. QED  OBVIOUS
  <2>. HIDE DEF iter, Step
  <2>. QED  BY <1>3, <2>1
<1>. HIDE DEF iter
<1>6. iter[{}] = 0
  BY <1>5
<1>7. \A x \in S : iter[{x}] = f(x)
  <2>. SUFFICES ASSUME NEW x \in S  PROVE iter[{x}] = f(x)
    OBVIOUS
  <2>1. pick({x}) = x
    OBVIOUS
  <2>2. {x} \ {x} = {} /\ {x} # {} /\ {x} \in SUBSET S
    OBVIOUS
  <2>3. f(x) \in Nat
    OBVIOUS
  <2>. HIDE DEF pick
  <2>. QED  BY <1>5, <1>6, <2>1, <2>2, <2>3
<1>8. iter[S] = f(a) + f(b)
  <2>1. pick(S) \in S /\ S # {} /\ S \in SUBSET S
    OBVIOUS
  <2>2. iter[S] = f(pick(S)) + iter[S \ {pick(S)}]
    <3>. HIDE DEF pick
    <3>. QED  BY <1>5, <2>1
  <2>. HIDE DEF pick
  <2>3. CASE pick(S) = a
    <3>1. S \ {a} = {b}
      OBVIOUS
    <3>. QED  BY <1>7, <2>2, <2>3, <3>1
  <2>4. CASE pick(S) = b
    <3>1. S \ {b} = {a}
      OBVIOUS
    <3>2. iter[S] = f(b) + f(a) /\ f(a) \in Nat /\ f(b) \in Nat
      BY <1>7, <2>2, <2>4, <3>1
    <3>. HIDE DEF f
    <3>. QED  BY <3>2
  <2>. QED  BY <2>1, <2>3, <2>4
<1>. QED  BY <1>4, <1>8

-----------------------------------------------------------------------------
(* What is known of the defects of a two-terminal element or a diode, from *)
(* its turn in the analysis to the end.                                    *)

(* The loops' counters.  The collapse begins where the analysis has ended. *)
Progress ==
  /\ content \in Nat \ {0} /\ index \in Nat \ {0}
  /\ pc = "merge" \/ (pc = "analyse" /\ content \notin DOMAIN circuit) => index = 1

(* The defects of a component stand together.                              *)
Together ==
  \A i \in DOMAIN circuit : \A j, k, l \in DOMAIN details[i] :
    (j <= k /\ k <= l /\ details[i][j].instance = details[i][l].instance)
      => details[i][k].instance = details[i][j].instance

(* Behind where the collapse goes on there is nothing of a component whose *)
(* defects it has gone through; the one just before may be one passed over. *)
Searched ==
  pc = "collapse" /\ content \in DOMAIN circuit =>
    \A k, l \in DOMAIN details[content] :
      k + 1 < index /\ index <= l => details[content][k].instance # details[content][l].instance

Analysed(i, p) ==
  pc \in {"analyse", "collapse", "done"}
    /\ (pc = "analyse" => i < content \/ (i = content /\ p < index))

(* The open at b and the one behind it have been collapsed.                *)
Passed(i, b) ==
  pc = "done" \/ (pc = "collapse" /\ (i < content \/ (i = content /\ b < index)))

(* The two opens of component c among the defects s are at b and b + 1.    *)
Placed(c, s, b) ==
  /\ b > 1 /\ {b - 1, b, b + 1} \subseteq DOMAIN s
  /\ \A k \in DOMAIN s : s[k].instance = c.name => k >= b - 1
  /\ \A k \in {b - 1, b, b + 1} : s[k].instance = c.name
  /\ \A k \in DOMAIN s :
       s[k].instance = c.name => (s[k].kind = "open" <=> k \in {b, b + 1})

HalfWeight(c) == OpenFactor(c) * Multiplicity(c)
Priced(c) ==
  OpenFactor(c) \in Nat \ {0} /\ Multiplicity(c) \in Nat \ {0} /\ HalfWeight(c) \in Nat \ {0}

Weighed(c, s, b, passed) ==
  /\ s[b].weight = IF passed THEN 2 * HalfWeight(c) ELSE HalfWeight(c)
  /\ ~ passed => s[b + 1].weight = HalfWeight(c)
  /\ passed /\ b + 1 # Len(s) => s[b + 1].weight = 0

OpensKept ==
  \A i \in DOMAIN circuit : \A p \in DOMAIN circuit[i] :
    Collapsible(circuit[i][p]) /\ Analysed(i, p) =>
      /\ Priced(circuit[i][p])
      /\ \E b \in Nat : /\ Placed(circuit[i][p], details[i], b)
                        /\ Weighed(circuit[i][p], details[i], b, Passed(i, b))

Drawn == pc = "done" => universe = {d \in AllDetails : d.weight > 0}

Typed == details \in [DOMAIN circuit -> Seq(Listing)]

Kept == Progress /\ Together /\ Searched /\ OpensKept /\ Drawn

-----------------------------------------------------------------------------
(* One search of optimize_collapse among the defects s of a content.       *)
InBlocks(s) ==
  \A j, k, l \in DOMAIN s :
    (j <= k /\ k <= l /\ s[j].instance = s[l].instance) => s[k].instance = s[j].instance

NoneBehind(s, n) ==
  \A k, l \in DOMAIN s : k + 1 < n /\ n <= l => s[k].instance # s[l].instance

LEMMA ListingIsEntry ==
  \E V : Seq(Listing) \subseteq Seq(Entry(V))
<1>. DEFINE V == Name \cup Kind \cup {"short", "open", "parametric", "none"} \cup Nat \cup Seq(Name)
<1>1. Listing \subseteq Entry(V)
  BY DEF Listing, Entry
<1>. HIDE DEF V
<1>2. Seq(Listing) \subseteq Seq(Entry(V))
  BY <1>1, SeqMonotonic
<1>. QED  BY <1>2

LEMMA OpensFound ==
  ASSUME NEW s \in Seq(Listing), NEW n \in DOMAIN s, NEW stop \in n .. Len(s), StopsAt(s, n, stop),
         NoneBehind(s, n), NEW c, NEW b \in Nat, Placed(c, s, b), Collapsible(c),
         \A k \in DOMAIN s : s[k].instance = c.name => s[k].category = c.kind,
         s[n].instance = c.name
  PROVE  /\ n <= b /\ b + 1 <= stop /\ Opens(s, n, stop) = {b, b + 1}
         /\ stop = b + 1 => Len(s) = b + 1
<1>1. /\ Len(s) \in Nat /\ DOMAIN s = 1 .. Len(s) /\ n \in Nat /\ stop \in Nat /\ n <= stop
      /\ stop <= Len(s)
  OBVIOUS
<1>2. /\ b > 1 /\ b - 1 \in DOMAIN s /\ b \in DOMAIN s /\ b + 1 \in DOMAIN s /\ b - 1 <= n
      /\ s[b - 1].instance = c.name /\ s[b].instance = c.name /\ s[b + 1].instance = c.name
  BY DEF Placed
<1>3. n <= b
  <2>1. SUFFICES ASSUME b < n  PROVE FALSE
    BY <1>1
  <2>2. (b - 1) + 1 < n /\ n <= n
    BY <1>1, <2>1
  <2>. QED  BY <1>2, <2>2 DEF NoneBehind
<1>4. s[stop].instance = c.name => stop = Len(s)
  BY DEF StopsAt
<1>5. b + 1 <= stop
  <2>1. SUFFICES ASSUME stop <= b  PROVE FALSE
    BY <1>1
  <2>2. stop = b - 1 \/ stop = b
    BY <1>1, <1>2, <2>1
  <2>3. stop = Len(s)
    BY <1>2, <1>4, <2>2
  <2>4. b + 1 <= Len(s)
    BY <1>1, <1>2
  <2>. QED  BY <1>1, <2>1, <2>3, <2>4
<1>6. Opens(s, n, stop) = {b, b + 1}
  <2>1. \A k \in n .. stop : k \in DOMAIN s
    BY <1>1
  <2>2. c.kind \in Dipole \cup {"diode"}
    BY DEF Collapsible
  <2>3. ASSUME NEW k \in Opens(s, n, stop)  PROVE k \in {b, b + 1}
    BY <2>1 DEF Opens, Placed
  <2>4. ASSUME NEW k \in {b, b + 1}  PROVE k \in Opens(s, n, stop)
    <3>1. k \in n .. stop
      BY <1>1, <1>3, <1>5
    <3>2. s[k].instance = c.name /\ s[k].kind = "open" /\ k \in DOMAIN s
      BY <1>2, <2>1, <3>1 DEF Placed
    <3>. QED  BY <2>2, <3>1, <3>2 DEF Opens
  <2>. QED  BY <2>3, <2>4
<1>. QED  BY <1>2, <1>3, <1>4, <1>5, <1>6

(* The sum is only calculated of the opens of one component: two numbers.  *)
LEMMA WeightOfOpens ==
  ASSUME NEW s \in Seq(Listing), NEW n \in DOMAIN s, NEW stop \in n .. Len(s), StopsAt(s, n, stop),
         NoneBehind(s, n), NEW c, NEW b \in Nat, Placed(c, s, b), Collapsible(c),
         \A k \in DOMAIN s : s[k].instance = c.name => s[k].category = c.kind,
         s[n].instance = c.name
  PROVE  Total(s, Opens(s, n, stop)) \in Nat
<1>1. Opens(s, n, stop) = {b, b + 1}
  BY OpensFound
<1>2. b \in DOMAIN s /\ b + 1 \in DOMAIN s /\ b # b + 1
  BY DEF Placed
<1>3. s[b] \in Listing /\ s[b + 1] \in Listing
  BY <1>2
<1>4. s[b].weight \in Nat /\ s[b + 1].weight \in Nat
  BY <1>3 DEF Listing
<1>5. Total(s, {b, b + 1}) = s[b].weight + s[b + 1].weight
  BY <1>2, <1>4, SumOfTwo, Zenon
<1>. QED  BY <1>1, <1>4, <1>5

(* What the search does to the weights of a component's opens.             *)
LEMMA OpensCollapsed ==
  ASSUME NEW s \in Seq(Listing), NEW n \in DOMAIN s, NEW stop \in n .. Len(s), StopsAt(s, n, stop),
         NoneBehind(s, n), NEW c, NEW b \in Nat, Placed(c, s, b), Collapsible(c),
         \A k \in DOMAIN s : s[k].instance = c.name => s[k].category = c.kind,
         Priced(c), Weighed(c, s, b, b < n),
         NEW t, t = CollapsedInto(s, Opens(s, n, stop), stop), Len(t) = Len(s)
  PROVE  Weighed(c, t, b, b < stop + 1)
<1>1. /\ Len(s) \in Nat /\ DOMAIN s = 1 .. Len(s) /\ n \in Nat /\ stop \in Nat /\ n <= stop
      /\ stop <= Len(s)
  OBVIOUS
<1>2. /\ b > 1 /\ b - 1 \in DOMAIN s /\ b \in DOMAIN s /\ b + 1 \in DOMAIN s
      /\ s[b - 1].instance = c.name /\ s[b].instance = c.name /\ s[b + 1].instance = c.name
  BY DEF Placed
<1>3. CASE s[n].instance = c.name
  <2>. DEFINE O == Opens(s, n, stop)
              w == HalfWeight(c)
  <2>1. n <= b /\ b + 1 <= stop /\ O = {b, b + 1} /\ (stop = b + 1 => Len(s) = b + 1)
    BY <1>3, OpensFound
  <2>2. s[b].weight = w /\ s[b + 1].weight = w /\ w \in Nat \ {0}
    BY <1>1, <2>1 DEF Weighed, Priced
  <2>3. Total(s, {b, b + 1}) = s[b].weight + s[b + 1].weight
    <3>1. b # b + 1
      OBVIOUS
    <3>2. s[b].weight \in Nat /\ s[b + 1].weight \in Nat
      BY <2>2
    <3>. QED  BY <3>1, <3>2, SumOfTwo, Zenon
  <2>4. Min(O) = b
    <3>1. O \in SUBSET Nat /\ O # {} /\ b \in O
      BY <2>1
    <3>2. Min(O) \in O /\ Min(O) <= b
      BY <3>1, MinIsOne
    <3>. QED  BY <2>1, <3>2
  <2>. HIDE DEF w
  <2>5. w + w # 0 /\ w + w = 2 * w
    BY <2>2
  <2>6. t = [i \in DOMAIN s |->
               IF i = b THEN [s[i] EXCEPT !.weight = w + w]
               ELSE IF i \in b + 1 .. stop - 1 THEN [s[i] EXCEPT !.weight = 0]
               ELSE s[i]]
    <3>. HIDE DEF O
    <3>1. O # {}
      BY <2>1
    <3>2. Total(s, O) = w + w
      BY <2>1, <2>2, <2>3
    <3>. QED  BY <2>4, <2>5, <3>1, <3>2 DEF CollapsedInto, O
  <2>7. s[b] \in Listing /\ s[b + 1] \in Listing
    BY <1>2
  <2>8. t[b].weight = 2 * w
    <3>1. t[b] = [s[b] EXCEPT !.weight = w + w]
      BY <1>2, <2>6
    <3>. QED  BY <2>5, <2>7, <3>1 DEF Listing
  <2>9. b + 1 # Len(s) => t[b + 1].weight = 0
    <3>1. SUFFICES ASSUME b + 1 # Len(s)  PROVE t[b + 1].weight = 0
      OBVIOUS
    <3>2. b + 1 # b /\ b + 1 \in b + 1 .. stop - 1
      BY <1>1, <2>1, <3>1
    <3>3. t[b + 1] = [s[b + 1] EXCEPT !.weight = 0]
      BY <1>2, <2>6, <3>2
    <3>. QED  BY <2>7, <3>3 DEF Listing
  <2>10. b < stop + 1
    BY <1>1, <2>1
  <2>. QED  BY <2>8, <2>9, <2>10 DEF Weighed, w
<1>4. CASE s[n].instance # c.name
  <2>1. PICK V : s \in Seq(Entry(V))
    BY ListingIsEntry
  <2>2. \A k \in DOMAIN s : s[k].instance = c.name => t[k] = s[k]
    BY <1>4, <2>1, Confined
  <2>3. t[b] = s[b] /\ t[b + 1] = s[b + 1]
    BY <1>2, <2>2
  <2>4. b < stop + 1 <=> b < n
    <3>1. ASSUME n <= b, b <= stop  PROVE FALSE
      <4>1. n # b /\ n # b - 1
        BY <1>2, <1>4
      <4>2. b - 1 \in n .. stop - 1
        BY <1>1, <3>1, <4>1
      <4>3. s[b - 1].instance = s[n].instance
        BY <4>2 DEF StopsAt
      <4>. QED  BY <1>2, <1>4, <4>3
    <3>. QED  BY <1>1, <3>1
  <2>. QED  BY <2>3, <2>4 DEF Weighed
<1>. QED  BY <1>3, <1>4

-----------------------------------------------------------------------------
(* Names and categories that are known from the components.                *)
LEMMA CategoryOf ==
  ASSUME Order, NEW i \in DOMAIN circuit, NEW p \in DOMAIN circuit[i], NEW k \in DOMAIN details[i],
         details[i][k].instance = circuit[i][p].name
  PROVE  details[i][k].category = circuit[i][p].kind
<1>1. PICK q \in DOMAIN circuit[i] : Owner(i, k, q)
  BY DEF Order, Owned
<1>2. q = p
  BY <1>1 DEF Order, NamesDiffer, Owner
<1>. QED  BY <1>1, <1>2 DEF Owner

CollapseInv == IdInv /\ Order /\ Typed /\ Kept

(* A search changes nothing but weights.                                   *)
Reweighed(d, e) ==
  /\ e.id = d.id /\ e.kind = d.kind /\ e.instance = d.instance /\ e.category = d.category
  /\ e.subject = d.subject
  /\ d.kind # "open" => e.weight \in {0, d.weight}

LEMMA CollapsedTyped ==
  ASSUME CollapseInv, pc = "collapse", content \in DOMAIN circuit,
         NEW s, s = details[content], index \in DOMAIN s, NEW stop \in index .. Len(s),
         StopsAt(s, index, stop),
         NEW t, t = CollapsedInto(s, Opens(s, index, stop), stop)
  PROVE  /\ t \in Seq(Listing) /\ Len(t) = Len(s)
         /\ \A k \in DOMAIN s : Reweighed(s[k], t[k])
<1>. DEFINE O == Opens(s, index, stop)
            w == Total(s, O)
            f == Min(O)
            e(i) == IF i = f THEN [s[i] EXCEPT !.weight = w]
                    ELSE IF i \in f + 1 .. stop - 1 THEN [s[i] EXCEPT !.weight = 0]
                    ELSE s[i]
<1>1. Order /\ Typed /\ Kept
  BY DEF CollapseInv
<1>2. s \in Seq(Listing) /\ Len(s) \in Nat /\ DOMAIN s = 1 .. Len(s)
  BY <1>1 DEF Typed
<1>3. \A r \in Listing : \A v \in Nat : LET q == [r EXCEPT !.weight = v] IN
        /\ q \in Listing /\ (r.kind = "open" \/ v = 0 => Reweighed(r, q)) /\ Reweighed(r, r)
  BY DEF Listing, Reweighed
<1>4. ASSUME O # {}  PROVE w \in Nat
  <2>1. PICK k \in O : TRUE
    BY <1>4
  <2>2. /\ k \in DOMAIN s /\ s[k].instance = s[index].instance
        /\ s[k].category \in Dipole \cup {"diode"}
    BY <1>2, <2>1 DEF Opens
  <2>3. PICK p \in DOMAIN circuit[content] : Owner(content, k, p)
    BY <1>1, <2>2 DEF Order, Owned
  <2>. DEFINE c == circuit[content][p]
  <2>4. c.name = s[k].instance /\ Collapsible(c)
    BY <2>2, <2>3 DEF Owner, Collapsible
  <2>5. Analysed(content, p)
    BY DEF Analysed
  <2>6. PICK b \in Nat : Placed(c, s, b)
    BY <1>1, <2>4, <2>5 DEF Kept, OpensKept
  <2>7. \A l \in DOMAIN s : s[l].instance = c.name => s[l].category = c.kind
    BY <1>1, CategoryOf
  <2>8. NoneBehind(s, index)
    BY <1>1 DEF Kept, Searched, NoneBehind
  <2>. HIDE DEF c, O
  <2>9. s[index].instance = c.name /\ Collapsible(c)
    BY <2>2, <2>4
  <2>. QED  BY <1>2, <2>6, <2>7, <2>8, <2>9, WeightOfOpens DEF O
<1>5. t = s \/ (O # {} /\ t = [i \in DOMAIN s |-> e(i)])
  BY DEF CollapsedInto
<1>6. O # {} => s[f].kind = "open"
  <2>1. O \in SUBSET Nat
    BY <1>2 DEF Opens
  <2>2. O # {} => f \in O
    BY <2>1, MinIsOne
  <2>. QED  BY <2>2 DEF Opens
<1>. HIDE DEF O, w, f
<1>7. CASE t = s
  <2>1. \A k \in DOMAIN s : s[k] \in Listing
    BY <1>2
  <2>. QED  BY <1>2, <1>3, <1>7, <2>1
<1>8. CASE O # {} /\ t = [i \in DOMAIN s |-> e(i)]
  <2>1. \A i \in 1 .. Len(s) : e(i) \in Listing /\ Reweighed(s[i], e(i))
    <3>. SUFFICES ASSUME NEW i \in 1 .. Len(s)
                  PROVE  e(i) \in Listing /\ Reweighed(s[i], e(i))
      OBVIOUS
    <3>1. s[i] \in Listing
      BY <1>2
    <3>2. w \in Nat /\ 0 \in Nat
      BY <1>4, <1>8
    <3>3. \/ s[i].kind = "open" /\ e(i) = [s[i] EXCEPT !.weight = w]
          \/ e(i) = [s[i] EXCEPT !.weight = 0] \/ e(i) = s[i]
      BY <1>6, <1>8
    <3>. HIDE DEF e
    <3>4. CASE e(i) = s[i]
      BY <1>3, <3>1, <3>2, <3>4
    <3>5. CASE s[i].kind = "open" /\ e(i) = [s[i] EXCEPT !.weight = w]
      BY <1>3, <3>1, <3>2, <3>5
    <3>6. CASE e(i) = [s[i] EXCEPT !.weight = 0]
      BY <1>3, <3>1, <3>2, <3>6
    <3>. QED  BY <3>3, <3>4, <3>5, <3>6
  <2>. HIDE DEF e
  <2>2. [i \in 1 .. Len(s) |-> e(i)] \in Seq(Listing)
    BY <1>2, <2>1, IsASeq
  <2>. QED  BY <1>2, <1>8, <2>1, <2>2
<1>. QED  BY <1>5, <1>7, <1>8

LEMMA KeptCollapse ==
  ASSUME CollapseInv, CollapseInstance
  PROVE  Typed' /\ Kept'
<1>. DEFINE s == details[content]
<1>1. PICK stop \in index .. Len(s) :
        /\ StopsAt(s, index, stop) /\ index' = stop + 1
        /\ details' = [details EXCEPT ![content] = CollapsedInto(s, Opens(s, index, stop), stop)]
  BY DEF CollapseInstance
<1>. DEFINE t == CollapsedInto(s, Opens(s, index, stop), stop)
<1>2. /\ pc = "collapse" /\ content \in DOMAIN circuit /\ index \in DOMAIN s
      /\ UNCHANGED <<circuit, pc, content>>
  BY DEF CollapseInstance
<1>3. Order /\ Typed /\ Kept
  BY DEF CollapseInv
<1>4. /\ s \in Seq(Listing) /\ Len(s) \in Nat /\ DOMAIN s = 1 .. Len(s) /\ index \in Nat
      /\ stop \in Nat /\ index <= stop /\ stop <= Len(s)
  <2>1. s \in Seq(Listing)
    BY <1>2, <1>3 DEF Typed
  <2>. QED  BY <1>2, <2>1
<1>5. /\ t \in Seq(Listing) /\ Len(t) = Len(s)
      /\ \A k \in DOMAIN s : t[k].kind = s[k].kind /\ t[k].instance = s[k].instance
  BY <1>1, <1>2, CollapsedTyped DEF Reweighed
<1>. HIDE DEF t
<1>6. details' = [details EXCEPT ![content] = t]
  BY <1>1 DEF t
<1>7. Typed'
  BY <1>2, <1>3, <1>5, <1>6 DEF Typed
<1>8. /\ details'[content] = t /\ DOMAIN t = DOMAIN s
      /\ \A i \in DOMAIN circuit : i # content => details'[i] = details[i]
  BY <1>2, <1>3, <1>4, <1>5, <1>6 DEF Typed
<1>9. Progress'
  BY <1>1, <1>2, <1>3, <1>4 DEF Kept, Progress
<1>10. Together'
  <2>. SUFFICES ASSUME NEW i \in DOMAIN circuit, NEW j \in DOMAIN details'[i],
                       NEW k \in DOMAIN details'[i], NEW l \in DOMAIN details'[i],
                       j <= k, k <= l, details'[i][j].instance = details'[i][l].instance
                PROVE  details'[i][k].instance = details'[i][j].instance
    BY <1>2 DEF Together
  <2>1. CASE i = content
    BY <1>2, <1>3, <1>5, <1>8, <2>1 DEF Kept, Together
  <2>2. CASE i # content
    BY <1>3, <1>8, <2>2 DEF Kept, Together
  <2>. QED  BY <2>1, <2>2
<1>11. InBlocks(s) /\ NoneBehind(s, index)
  BY <1>2, <1>3 DEF Kept, Together, Searched, InBlocks, NoneBehind
<1>12. Searched'
  <2>. SUFFICES ASSUME NEW k \in DOMAIN s, NEW l \in DOMAIN s, k + 1 < stop + 1, stop + 1 <= l,
                       s[k].instance = s[l].instance
                PROVE  FALSE
    BY <1>1, <1>2, <1>5, <1>8 DEF Searched
  <2>1. k \in Nat /\ l \in Nat /\ k < stop /\ stop < l /\ l <= Len(s)
    BY <1>4
  <2>2. stop \in DOMAIN s
    BY <1>2, <1>4
  <2>3. s[stop].instance = s[k].instance
    BY <1>11, <2>1, <2>2 DEF InBlocks
  <2>4. s[stop].instance # s[index].instance
    BY <1>1, <1>4, <2>1 DEF StopsAt
  <2>5. CASE index <= k
    <3>1. k \in index .. stop - 1
      BY <1>4, <2>1, <2>5
    <3>. QED  BY <1>1, <2>3, <2>4, <3>1 DEF StopsAt
  <2>6. CASE k + 1 < index
    <3>1. index <= l
      BY <1>4, <2>1
    <3>. QED  BY <1>11, <2>6, <3>1 DEF NoneBehind
  <2>7. CASE k + 1 = index
    <3>1. s[index].instance = s[k].instance
      BY <1>2, <1>4, <1>11, <2>1, <2>7 DEF InBlocks
    <3>. QED  BY <2>3, <2>4, <3>1
  <2>. QED  BY <1>4, <2>1, <2>5, <2>6, <2>7
<1>13. OpensKept'
  <2>. SUFFICES ASSUME NEW i \in DOMAIN circuit, NEW p \in DOMAIN circuit[i],
                       Collapsible(circuit[i][p])
                PROVE  /\ Priced(circuit[i][p])
                       /\ \E b \in Nat : /\ Placed(circuit[i][p], details'[i], b)
                                         /\ Weighed(circuit[i][p], details'[i], b, Passed(i, b)')
    BY <1>2 DEF OpensKept
  <2>. DEFINE c == circuit[i][p]
  <2>1. Analysed(i, p)
    BY <1>2 DEF Analysed
  <2>2. PICK b \in Nat : Placed(c, details[i], b) /\ Weighed(c, details[i], b, Passed(i, b))
    BY <1>3, <2>1 DEF Kept, OpensKept
  <2>3. Priced(c)
    BY <1>3, <2>1 DEF Kept, OpensKept
  <2>4. CASE i # content
    <3>1. details'[i] = details[i] /\ Passed(i, b)' = Passed(i, b)
      BY <1>2, <1>8, <2>4 DEF Passed
    <3>. QED  BY <2>2, <2>3, <3>1
  <2>5. CASE i = content
    <3>1. \A k \in DOMAIN s : s[k].instance = c.name => s[k].category = c.kind
      BY <1>3, <2>5, CategoryOf
    <3>2. Passed(i, b) = (b < index) /\ Passed(i, b)' = (b < stop + 1)
      BY <1>1, <1>2, <1>3, <2>5 DEF Passed, Kept, Progress
    <3>3. Placed(c, s, b) /\ Weighed(c, s, b, b < index)
      BY <2>2, <2>5, <3>2
    <3>. HIDE DEF c
    <3>4. Weighed(c, t, b, b < stop + 1)
      BY <1>1, <1>2, <1>4, <1>5, <1>11, <2>3, <3>1, <3>3, OpensCollapsed DEF c, t
    <3>5. Placed(c, t, b)
      BY <1>5, <1>8, <3>3 DEF Placed
    <3>. QED  BY <1>8, <2>3, <2>5, <3>2, <3>4, <3>5 DEF c
  <2>. QED  BY <2>4, <2>5
<1>14. Drawn'
  BY <1>2 DEF Drawn
<1>. QED  BY <1>7, <1>9, <1>10, <1>12, <1>13, <1>14 DEF Kept

-----------------------------------------------------------------------------
(* The component in hand has nothing listed yet.  What is listed for it    *)
(* follows what is listed for the others.                                  *)
TwoListed(c, s) ==
  /\ Len(s) >= 3
  /\ \A k \in DOMAIN s : s[k].kind = "open" <=> k \in {2, 3}
  /\ s[2].weight = HalfWeight(c) /\ s[3].weight = HalfWeight(c)

LEMMA BlocksTogether ==
  ASSUME circuit' = circuit, \A i \in DOMAIN circuit : InBlocks(details'[i])
  PROVE  Together'
BY DEF Together, InBlocks

LEMMA JoinedListing ==
  ASSUME NEW T, NEW o \in Seq(T), NEW s \in Seq(T), NEW t, t = o \o s
  PROVE  /\ t \in Seq(T) /\ Len(o) \in Nat /\ Len(s) \in Nat /\ Len(t) = Len(o) + Len(s)
         /\ DOMAIN t = 1 .. Len(o) + Len(s) /\ DOMAIN o = 1 .. Len(o) /\ DOMAIN s = 1 .. Len(s)
         /\ \A k \in DOMAIN o : k \in DOMAIN t /\ t[k] = o[k]
         /\ \A k \in DOMAIN s : k + Len(o) \in DOMAIN t /\ t[k + Len(o)] = s[k]
         /\ \A k \in DOMAIN t : \/ k \in DOMAIN o
                                \/ k > Len(o) /\ k - Len(o) \in DOMAIN s /\ t[k] = s[k - Len(o)]
<1>1. /\ t \in Seq(T) /\ Len(t) = Len(o) + Len(s)
      /\ \A i \in 1 .. Len(o) + Len(s) : t[i] = IF i <= Len(o) THEN o[i] ELSE s[i - Len(o)]
  BY ConcatProperties
<1>2. /\ Len(o) \in Nat /\ DOMAIN o = 1 .. Len(o)
      /\ Len(s) \in Nat /\ DOMAIN s = 1 .. Len(s)
  OBVIOUS
<1>3. DOMAIN t = 1 .. Len(o) + Len(s)
  BY <1>1
<1>4. \A k \in DOMAIN s : k + Len(o) \in DOMAIN t /\ t[k + Len(o)] = s[k]
  <2>. SUFFICES ASSUME NEW k \in DOMAIN s  PROVE k + Len(o) \in DOMAIN t /\ t[k + Len(o)] = s[k]
    OBVIOUS
  <2>1. k + Len(o) \in 1 .. Len(o) + Len(s) /\ ~ (k + Len(o) <= Len(o)) /\ (k + Len(o)) - Len(o) = k
    BY <1>2
  <2>. QED  BY <1>1, <1>3, <2>1
<1>5. \A k \in DOMAIN o : k \in DOMAIN t /\ t[k] = o[k]
  BY <1>1, <1>2, <1>3
<1>6. \A k \in DOMAIN t : \/ k \in DOMAIN o
                          \/ k > Len(o) /\ k - Len(o) \in DOMAIN s /\ t[k] = s[k - Len(o)]
  BY <1>1, <1>2, <1>3
<1>. QED  BY <1>1, <1>2, <1>3, <1>4, <1>5, <1>6

LEMMA KeptExtension ==
  ASSUME CollapseInv, pc = "analyse", UNCHANGED <<circuit, pc, content>>, index' = index + 1,
         content \in DOMAIN circuit, index \in DOMAIN circuit[content],
         NEW c, c = circuit[content][index], NEW s \in Seq(Listing),
         details' = [details EXCEPT ![content] = details[content] \o s],
         \A k \in DOMAIN s : s[k].instance = c.name,
         Collapsible(c) => Priced(c) /\ TwoListed(c, s)
  PROVE  Typed' /\ Kept'
<1>. DEFINE o == details[content]
            t == o \o s
            m == Len(o)
            n == Len(s)
<1>1. Order /\ Typed /\ Kept
  BY DEF CollapseInv
<1>2. o \in Seq(Listing)
  BY <1>1 DEF Typed
<1>3. /\ t \in Seq(Listing) /\ m \in Nat /\ n \in Nat /\ Len(t) = m + n
      /\ DOMAIN t = 1 .. m + n /\ DOMAIN o = 1 .. m /\ DOMAIN s = 1 .. n
      /\ \A k \in DOMAIN o : k \in DOMAIN t /\ t[k] = o[k]
      /\ \A k \in DOMAIN s : k + m \in DOMAIN t /\ t[k + m] = s[k]
      /\ \A k \in DOMAIN t : \/ k \in DOMAIN o
                             \/ k > m /\ k - m \in DOMAIN s /\ t[k] = s[k - m]
  BY <1>2, JoinedListing
<1>4. details' = [details EXCEPT ![content] = t]
  OBVIOUS
<1>. HIDE DEF t, m, n
<1>5. Typed'
  BY <1>1, <1>3, <1>4 DEF Typed
<1>6. /\ details'[content] = t /\ circuit' = circuit
      /\ \A i \in DOMAIN circuit : i # content => details'[i] = details[i]
  BY <1>1, <1>4 DEF Typed
<1>7. ASSUME NEW k \in DOMAIN o
      PROVE  o[k].instance # c.name
  <2>1. PICK p \in DOMAIN circuit[content] : Owner(content, k, p)
    BY <1>1 DEF Order, Owned
  <2>2. p # index
    BY <1>1, <2>1 DEF Owner, Kept, Progress
  <2>. QED  BY <1>1, <2>1, <2>2 DEF Owner, Order, NamesDiffer
<1>8. \A k \in DOMAIN t : t[k].instance = c.name <=> k > m
  <2>. SUFFICES ASSUME NEW k \in DOMAIN t  PROVE t[k].instance = c.name <=> k > m
    OBVIOUS
  <2>1. CASE k \in DOMAIN o
    <3>1. ~ (k > m)
      BY <1>3, <2>1
    <3>2. t[k] = o[k] /\ o[k].instance # c.name
      BY <1>3, <1>7, <2>1
    <3>. QED  BY <3>1, <3>2
  <2>2. CASE k > m /\ k - m \in DOMAIN s /\ t[k] = s[k - m]
    BY <2>2
  <2>. QED  BY <1>3, <2>1, <2>2
<1>9. Progress'
  BY <1>1 DEF Kept, Progress
<1>10. Together'
  <2>. SUFFICES ASSUME NEW i \in DOMAIN circuit  PROVE InBlocks(details'[i])
    BY <1>6, BlocksTogether
  <2>. SUFFICES ASSUME NEW j \in DOMAIN details'[i],
                       NEW k \in DOMAIN details'[i], NEW l \in DOMAIN details'[i],
                       j <= k, k <= l, details'[i][j].instance = details'[i][l].instance
                PROVE  details'[i][k].instance = details'[i][j].instance
    BY DEF InBlocks
  <2>1. CASE i # content
    BY <1>1, <1>6, <2>1 DEF Kept, Together
  <2>2. CASE i = content
    <3>1. j \in DOMAIN t /\ k \in DOMAIN t /\ l \in DOMAIN t /\ details'[i] = t
      BY <1>6, <2>2
    <3>2. j \in Nat /\ k \in Nat /\ l \in Nat
      BY <1>3, <3>1
    <3>3. CASE l > m
      <4>. HIDE DEF o
      <4>1. t[l].instance = c.name
        BY <1>8, <3>1, <3>3
      <4>2. t[j].instance = c.name
        BY <3>1, <4>1
      <4>3. j > m
        BY <1>8, <3>1, <4>2
      <4>4. k > m
        BY <1>3, <3>2, <4>3
      <4>. QED  BY <1>8, <3>1, <4>2, <4>4
    <3>4. CASE ~ (l > m)
      <4>1. j \in DOMAIN o /\ k \in DOMAIN o /\ l \in DOMAIN o
        BY <1>3, <3>1, <3>2, <3>4
      <4>2. t[j] = o[j] /\ t[k] = o[k] /\ t[l] = o[l]
        BY <1>3, <4>1
      <4>. QED  BY <1>1, <3>1, <4>1, <4>2 DEF Kept, Together
    <3>. QED  BY <3>3, <3>4
  <2>. QED  BY <2>1, <2>2
<1>11. Searched' /\ Drawn'
  BY DEF Searched, Drawn
<1>12. OpensKept'
  <2>. SUFFICES ASSUME NEW i \in DOMAIN circuit, NEW p \in DOMAIN circuit[i],
                       Collapsible(circuit[i][p]), Analysed(i, p)'
                PROVE  /\ Priced(circuit[i][p])
                       /\ \E b \in Nat : /\ Placed(circuit[i][p], details'[i], b)
                                         /\ Weighed(circuit[i][p], details'[i], b, Passed(i, b)')
    BY DEF OpensKept
  <2>. DEFINE e == circuit[i][p]
  <2>1. \A b \in Nat : Passed(i, b)' = FALSE /\ Passed(i, b) = FALSE
    BY DEF Passed
  <2>2. i \in Nat /\ p \in Nat /\ index \in Nat
    <3>1. circuit \in Seq(Seq(Component))
      BY DEF CollapseInv, IdInv, Parts
    <3>2. circuit[i] \in Seq(Component) /\ i \in Nat
      BY <3>1
    <3>. QED  BY <1>1, <3>2 DEF Kept, Progress
  <2>3. CASE i = content /\ p = index
    <3>1. Priced(c) /\ TwoListed(c, s)
      BY <2>3
    <3>2. /\ n >= 3 /\ s[2].weight = HalfWeight(c) /\ s[3].weight = HalfWeight(c)
          /\ \A k \in DOMAIN s : s[k].kind = "open" <=> k \in {2, 3}
      BY <3>1 DEF TwoListed, n
    <3>3. PICK b \in Nat : b = m + 2
      BY <1>3
    <3>4. 1 \in DOMAIN s /\ 2 \in DOMAIN s /\ 3 \in DOMAIN s
      BY <1>3, <3>2
    <3>5. b - 1 = 1 + m /\ b = 2 + m /\ b + 1 = 3 + m
      BY <1>3, <3>3
    <3>6. b - 1 \in DOMAIN t /\ b \in DOMAIN t /\ b + 1 \in DOMAIN t /\ t[b] = s[2] /\ t[b + 1] = s[3]
      BY <1>3, <3>4, <3>5
    <3>7. \A k \in DOMAIN t : k > m <=> k >= b - 1
      BY <1>3, <3>3
    <3>8. ASSUME NEW k \in DOMAIN t, k > m
          PROVE  t[k].kind = "open" <=> k \in {b, b + 1}
      <4>1. k - m \in DOMAIN s /\ t[k] = s[k - m] /\ k \in Nat
        BY <1>3, <3>8
      <4>2. k - m \in {2, 3} <=> k \in {b, b + 1}
        BY <1>3, <3>3, <4>1
      <4>. QED  BY <3>2, <4>1, <4>2
    <3>9. b - 1 > m /\ b > m /\ b + 1 > m /\ b > 1
      BY <1>3, <3>3
    <3>10. Placed(c, t, b)
      BY <1>8, <3>6, <3>7, <3>8, <3>9 DEF Placed
    <3>11. Weighed(c, t, b, FALSE)
      BY <3>2, <3>6 DEF Weighed
    <3>. QED  BY <1>6, <2>1, <2>3, <3>1, <3>10, <3>11
  <2>4. CASE ~ (i = content /\ p = index)
    <3>1. Analysed(i, p)
      BY <2>2, <2>4 DEF Analysed
    <3>2. PICK b \in Nat : Placed(e, details[i], b) /\ Weighed(e, details[i], b, Passed(i, b))
      BY <1>1, <3>1 DEF Kept, OpensKept
    <3>3. Priced(e)
      BY <1>1, <3>1 DEF Kept, OpensKept
    <3>4. CASE i # content
      BY <1>6, <2>1, <3>2, <3>3, <3>4
    <3>5. CASE i = content
      <4>1. e.name # c.name
        BY <1>1, <2>4, <3>5 DEF Order, NamesDiffer
      <4>2. Placed(e, o, b) /\ Weighed(e, o, b, FALSE)
        BY <2>1, <3>2, <3>5
      <4>. HIDE DEF e, o
      <4>3. \A k \in DOMAIN t : t[k].instance = e.name => k \in DOMAIN o /\ t[k] = o[k]
        BY <1>3, <1>8, <4>1
      <4>4. Placed(e, t, b)
        <5>1. /\ b > 1 /\ b - 1 \in DOMAIN o /\ b \in DOMAIN o /\ b + 1 \in DOMAIN o
              /\ o[b - 1].instance = e.name /\ o[b].instance = e.name /\ o[b + 1].instance = e.name
          BY <4>2 DEF Placed
        <5>2. /\ b - 1 \in DOMAIN t /\ b \in DOMAIN t /\ b + 1 \in DOMAIN t
              /\ t[b - 1].instance = e.name /\ t[b].instance = e.name /\ t[b + 1].instance = e.name
          BY <1>3, <5>1
        <5>3. \A k \in DOMAIN t : t[k].instance = e.name =>
                                    k >= b - 1 /\ (t[k].kind = "open" <=> k \in {b, b + 1})
          BY <4>2, <4>3 DEF Placed
        <5>. QED  BY <5>1, <5>2, <5>3 DEF Placed
      <4>5. Weighed(e, t, b, FALSE)
        BY <1>3, <4>2 DEF Placed, Weighed
      <4>. QED  BY <1>6, <2>1, <3>3, <3>5, <4>4, <4>5 DEF e
    <3>. QED  BY <3>4, <3>5
  <2>. QED  BY <2>3, <2>4
<1>. QED  BY <1>5, <1>9, <1>10, <1>11, <1>12 DEF Kept

(* What is listed for a component, from what its defects are.              *)
LEMMA ListedTemplates ==
  ASSUME NEW c \in Component, NEW d \in Seq(Template(c)), number \in Nat
  PROVE  /\ Listed(c, d) \in Seq(Listing) /\ Len(Listed(c, d)) = Len(d)
         /\ Len(d) \in Nat /\ DOMAIN d = 1 .. Len(d) /\ DOMAIN Listed(c, d) = DOMAIN d
         /\ \A k \in DOMAIN d : /\ Listed(c, d)[k].instance = c.name
                                /\ Listed(c, d)[k].kind = d[k].kind
                                /\ Listed(c, d)[k].weight = d[k].weight
                                /\ Listed(c, d)[k].subject = d[k].subject
<1>. DEFINE n == Len(d)
            e(k) == [id |-> number + k - 1, instance |-> c.name, category |-> c.kind,
                     kind |-> d[k].kind, weight |-> d[k].weight, subject |-> d[k].subject]
<1>1. n \in Nat /\ DOMAIN d = 1 .. n
  OBVIOUS
<1>2. c.name \in Name /\ c.kind \in Kind
  BY Parameters
<1>3. ASSUME NEW k \in 1 .. n
      PROVE  e(k) \in Listing
  <2>1. d[k] \in Template(c)
    BY <1>1
  <2>2. d[k].kind \in {"short", "open", "parametric"} /\ d[k].weight \in Nat /\ d[k].subject \in Seq(Name)
    BY <2>1 DEF Template
  <2>3. number + k - 1 \in Int
    OBVIOUS
  <2>. QED  BY <1>2, <2>2, <2>3 DEF Listing
<1>4. Listed(c, d) = [k \in 1 .. n |-> e(k)]
  BY <1>1 DEF Listed
<1>5. \A k \in 1 .. n : /\ e(k).instance = c.name /\ e(k).kind = d[k].kind
                        /\ e(k).weight = d[k].weight /\ e(k).subject = d[k].subject
  OBVIOUS
<1>. HIDE DEF e, n
<1>6. [k \in 1 .. n |-> e(k)] \in Seq(Listing)
  BY <1>1, <1>3, IsASeq
<1>7. DOMAIN Listed(c, d) = 1 .. n /\ \A k \in 1 .. n : Listed(c, d)[k] = e(k)
  BY <1>4
<1>8. Len(Listed(c, d)) = n
  BY <1>1, <1>4, <1>6, <1>7
<1>. QED  BY <1>1, <1>4, <1>5, <1>6, <1>7, <1>8 DEF n

LEMMA KeptList ==
  ASSUME CollapseInv, NEW c, c = circuit[content][index], c \in Component, NEW kinds, Turn(kinds),
         NEW d \in Seq(Template(c)), List(c, d),
         Collapsible(c) => /\ TwoOpens(c, d) /\ OpenFactor(c) \in Nat \ {0}
                           /\ Multiplicity(c) \in Nat \ {0}
  PROVE  Typed' /\ Kept'
<1>. DEFINE s == Listed(c, d)
<1>1. number \in Nat
  BY DEF CollapseInv, IdInv, Parts
<1>2. /\ s \in Seq(Listing) /\ Len(s) = Len(d)
      /\ Len(d) \in Nat /\ DOMAIN d = 1 .. Len(d) /\ DOMAIN s = DOMAIN d
      /\ \A k \in DOMAIN d : /\ s[k].instance = c.name
                             /\ s[k].kind = d[k].kind /\ s[k].weight = d[k].weight
  BY <1>1, ListedTemplates
<1>3. /\ pc = "analyse" /\ UNCHANGED <<circuit, pc, content>> /\ index' = index + 1
      /\ details' = [details EXCEPT ![content] = details[content] \o s]
      /\ content \in DOMAIN circuit /\ index \in DOMAIN circuit[content]
  BY DEF Turn, List
<1>. HIDE DEF s
<1>4. ASSUME Collapsible(c)
      PROVE  Priced(c) /\ TwoListed(c, s)
  <2>1. Priced(c)
    BY <1>4, Product DEF HalfWeight, Priced
  <2>2. Len(s) >= 3 /\ 2 \in DOMAIN d /\ 3 \in DOMAIN d
    BY <1>2, <1>4 DEF TwoOpens
  <2>3. d[2].weight = HalfWeight(c) /\ d[3].weight = HalfWeight(c)
    BY <1>4 DEF TwoOpens, HalfWeight
  <2>4. \A k \in DOMAIN s : s[k].kind = "open" <=> k \in {2, 3}
    BY <1>2, <1>4 DEF TwoOpens
  <2>. QED  BY <1>2, <2>1, <2>2, <2>3, <2>4 DEF TwoListed
<1>5. \A k \in DOMAIN s : s[k].instance = c.name
  BY <1>2
<1>. QED  BY <1>2, <1>3, <1>4, <1>5, KeptExtension

LEMMA KeptSource ==
  ASSUME CollapseInv, AnalyseSource
  PROVE  Typed' /\ Kept'
<1>. DEFINE c == circuit[content][index]
            r == [id |-> -1, instance |-> c.name, category |-> c.kind, kind |-> "none",
                  weight |-> 0, subject |-> <<>>]
<1>1. /\ pc = "analyse" /\ UNCHANGED <<circuit, pc, content>> /\ index' = index + 1
      /\ details' = [details EXCEPT ![content] = Append(@, r)]
      /\ content \in DOMAIN circuit /\ index \in DOMAIN circuit[content] /\ c.kind \in Source
  BY DEF AnalyseSource, Turn
<1>2. c \in Component
  <2>1. circuit \in Seq(Seq(Component))
    BY DEF CollapseInv, IdInv, Parts
  <2>2. circuit[content] \in Seq(Component)
    BY <1>1, <2>1
  <2>. QED  BY <1>1, <2>2
<1>3. ~ Collapsible(c)
  BY <1>1 DEF Collapsible, Source, Dipole
<1>4. r \in Listing /\ r.instance = c.name
  <2>1. c.name \in Name /\ c.kind \in Kind
    BY <1>2, Parameters
  <2>2. -1 \in Int /\ <<>> \in Seq(Name)
    OBVIOUS
  <2>. HIDE DEF c
  <2>. QED  BY <2>1, <2>2 DEF Listing
<1>. HIDE DEF r
<1>5. details' = [details EXCEPT ![content] = details[content] \o <<r>>]
  <2>1. details[content] \in Seq(Listing)
    BY <1>1 DEF CollapseInv, Typed
  <2>2. Append(details[content], r) = details[content] \o <<r>>
    BY <1>4, <2>1, AppendIsConcat
  <2>. QED  BY <1>1, <2>2
<1>6. <<r>> \in Seq(Listing) /\ \A k \in DOMAIN <<r>> : <<r>>[k].instance = c.name
  BY <1>4
<1>. QED  BY <1>1, <1>3, <1>5, <1>6, KeptExtension

LEMMA KeptInit == Init => Typed /\ Kept
<1>. SUFFICES ASSUME Init  PROVE Typed /\ Kept
  OBVIOUS
<1>1. Typed
  <2>1. <<>> \in Seq(Listing)
    OBVIOUS
  <2>. QED  BY <2>1 DEF Init, Typed
<1>2. Progress /\ Searched /\ Drawn
  BY DEF Init, Progress, Searched, Drawn
<1>3. Together
  BY DEF Init, Together
<1>4. OpensKept
  BY DEF Init, OpensKept, Analysed
<1>. QED  BY <1>1, <1>2, <1>3, <1>4 DEF Kept

(* The steps that leave the defects that are listed as they are.           *)
LEMMA KeptElsewhere ==
  ASSUME CollapseInv, UNCHANGED <<circuit, details>>, Progress', Searched', Drawn',
         \A i \in DOMAIN circuit : \A p \in DOMAIN circuit[i] : Analysed(i, p)' => Analysed(i, p),
         \A i \in DOMAIN circuit : \A b \in DOMAIN details[i] :
           (\E p \in DOMAIN circuit[i] : Analysed(i, p)') /\ b > 1 => Passed(i, b)' = Passed(i, b)
  PROVE  Typed' /\ Kept'
<1>1. circuit' = circuit /\ details' = details /\ Typed /\ Kept
  BY DEF CollapseInv
<1>2. Typed' /\ Together'
  BY <1>1 DEF Typed, Kept, Together
<1>3. OpensKept'
  <2>. SUFFICES ASSUME NEW i \in DOMAIN circuit, NEW p \in DOMAIN circuit[i],
                       Collapsible(circuit[i][p]), Analysed(i, p)'
                PROVE  /\ Priced(circuit[i][p])
                       /\ \E b \in Nat : /\ Placed(circuit[i][p], details[i], b)
                                         /\ Weighed(circuit[i][p], details[i], b, Passed(i, b)')
    BY <1>1 DEF OpensKept
  <2>1. Analysed(i, p)
    OBVIOUS
  <2>2. Priced(circuit[i][p])
    BY <1>1, <2>1 DEF Kept, OpensKept
  <2>3. PICK b \in Nat : /\ Placed(circuit[i][p], details[i], b)
                         /\ Weighed(circuit[i][p], details[i], b, Passed(i, b))
    BY <1>1, <2>1 DEF Kept, OpensKept
  <2>4. b \in DOMAIN details[i] /\ b > 1
    BY <2>3 DEF Placed
  <2>5. Passed(i, b)' = Passed(i, b)
    BY <2>4
  <2>. QED  BY <2>2, <2>3, <2>5
<1>. QED  BY <1>1, <1>2, <1>3 DEF Kept

LEMMA KeptMerge ==
  ASSUME CollapseInv, MergeContent
  PROVE  Typed' /\ Kept'
<1>1. /\ pc = "merge" /\ pc' = pc /\ content' = content + 1 /\ UNCHANGED <<index, details>>
      /\ DOMAIN circuit' = DOMAIN circuit
  <2>1. PICK s : circuit' = [circuit EXCEPT ![content] = s]
    BY DEF MergeContent
  <2>2. circuit \in Seq(Seq(Component))
    BY DEF CollapseInv, IdInv, Parts
  <2>. QED  BY <2>1, <2>2 DEF MergeContent
<1>2. Typed /\ Kept
  BY DEF CollapseInv
<1>3. Progress' /\ Searched' /\ Drawn'
  BY <1>1, <1>2 DEF Kept, Progress, Searched, Drawn
<1>4. Typed' /\ Together'
  BY <1>1, <1>2 DEF Typed, Kept, Together
<1>5. OpensKept'
  BY <1>1 DEF OpensKept, Analysed
<1>. QED  BY <1>3, <1>4, <1>5 DEF Kept

LEMMA KeptOther ==
  ASSUME CollapseInv, AnalyseOther
  PROVE  Typed' /\ Kept'
<1>. DEFINE c == circuit[content][index]
<1>1. /\ pc = "analyse" /\ UNCHANGED <<circuit, pc, content>> /\ index' = index + 1
      /\ content \in DOMAIN circuit /\ index \in DOMAIN circuit[content] /\ c.kind = "other"
      /\ details' = details
  BY DEF AnalyseOther, Turn
<1>2. ~ Collapsible(c)
  BY <1>1 DEF Collapsible, Dipole
<1>3. details' = [details EXCEPT ![content] = details[content] \o <<>>]
  <2>1. details[content] \in Seq(Listing) /\ details \in [DOMAIN circuit -> Seq(Listing)]
    BY <1>1 DEF CollapseInv, Typed
  <2>2. details[content] \o <<>> = details[content]
    BY <2>1, ConcatEmptySeq
  <2>. QED  BY <1>1, <2>1, <2>2
<1>4. <<>> \in Seq(Listing) /\ \A k \in DOMAIN <<>> : <<>>[k].instance = c.name
  OBVIOUS
<1>. HIDE DEF c
<1>. QED  BY <1>1, <1>2, <1>3, <1>4, KeptExtension DEF c

LEMMA KeptNext == CollapseInv /\ [Next]_vars => Typed' /\ Kept'
<1>. SUFFICES ASSUME CollapseInv, [Next]_vars  PROVE Typed' /\ Kept'
  OBVIOUS
<1>. DEFINE c == circuit[content][index]
<1>1. Progress /\ Searched /\ OpensKept /\ Drawn /\ content \in Nat \ {0} /\ index \in Nat \ {0}
  BY DEF CollapseInv, Kept, Progress
<1>2. /\ DOMAIN circuit = 1 .. Len(circuit) /\ Len(circuit) \in Nat
      /\ \A i \in DOMAIN circuit :
           /\ circuit[i] \in Seq(Component)
           /\ DOMAIN circuit[i] = 1 .. Len(circuit[i]) /\ Len(circuit[i]) \in Nat
           /\ DOMAIN details[i] = 1 .. Len(details[i]) /\ Len(details[i]) \in Nat
  <2>1. circuit \in Seq(Seq(Component)) /\ Typed
    BY DEF CollapseInv, IdInv, Parts
  <2>2. \A i \in DOMAIN circuit : circuit[i] \in Seq(Component) /\ details[i] \in Seq(Listing)
    BY <2>1 DEF Typed
  <2>. QED  BY <2>1, <2>2
<1>3. ASSUME NEW kinds, Turn(kinds)
      PROVE  c \in Component /\ c.kind \in kinds
  BY <1>2, <1>3 DEF Turn
<1>4. CASE MergeContent
  BY <1>4, KeptMerge
<1>5. CASE MergeDone
  <2>1. /\ UNCHANGED <<circuit, details, index, universe>> /\ pc = "merge" /\ pc' = "analyse"
        /\ content' = 1 /\ index = 1
    BY <1>1, <1>5 DEF MergeDone, Progress
  <2>2. Progress' /\ Searched' /\ Drawn'
    BY <2>1 DEF Progress, Searched, Drawn
  <2>3. \A i \in DOMAIN circuit : \A p \in DOMAIN circuit[i] : ~ Analysed(i, p)'
    BY <1>2, <2>1 DEF Analysed
  <2>. QED  BY <2>1, <2>2, <2>3, KeptElsewhere
<1>6. CASE AnalysisRaises \/ CollapseDeclined
  <2>1. UNCHANGED <<circuit, details, content, index, universe>> /\ pc' = "raised"
    BY <1>6 DEF AnalysisRaises, CollapseDeclined
  <2>2. Progress' /\ Searched' /\ Drawn'
    BY <1>1, <2>1 DEF Progress, Searched, Drawn
  <2>3. \A i \in DOMAIN circuit : \A p \in DOMAIN circuit[i] : ~ Analysed(i, p)'
    BY <2>1 DEF Analysed
  <2>. QED  BY <2>1, <2>2, <2>3, KeptElsewhere
<1>7. CASE AnalyseDipole
  <2>1. /\ c \in Component /\ c.kind \in Dipole /\ Turn(Dipole) /\ List(c, DipoleDefects(c))
        /\ Numeric(c) /\ Wired(c)
    BY <1>3, <1>7 DEF AnalyseDipole
  <2>. HIDE DEF c
  <2>2. /\ DipoleDefects(c) \in Seq(Template(c)) /\ TwoOpens(c, DipoleDefects(c))
        /\ OpenFactor(c) \in Nat \ {0} /\ Multiplicity(c) \in Nat \ {0}
    BY <2>1, OpensOfDipole, Calculated
  <2>. QED  BY <2>1, <2>2, KeptList DEF c
<1>8. CASE AnalyseDiode
  <2>1. /\ c \in Component /\ c.kind = "diode" /\ Turn({"diode"}) /\ List(c, DiodeDefects(c))
        /\ Numeric(c) /\ Wired(c) /\ Complete(c)
    BY <1>3, <1>8 DEF AnalyseDiode
  <2>. HIDE DEF c
  <2>2. /\ DiodeDefects(c) \in Seq(Template(c)) /\ TwoOpens(c, DiodeDefects(c))
        /\ OpenFactor(c) \in Nat \ {0} /\ Multiplicity(c) \in Nat \ {0}
    BY <2>1, OpensOfDiode, Calculated
  <2>. QED  BY <2>1, <2>2, KeptList DEF c
<1>9. CASE AnalyseMosfet
  <2>1. /\ c \in Component /\ c.kind = "mosfet" /\ Turn({"mosfet"}) /\ List(c, MosfetDefects(c))
        /\ Numeric(c) /\ Wired(c) /\ Complete(c)
    BY <1>3, <1>9 DEF AnalyseMosfet
  <2>. HIDE DEF c
  <2>2. MosfetDefects(c) \in Seq(Template(c)) /\ ~ Collapsible(c)
    BY <2>1, TransistorTemplates DEF Collapsible, Dipole
  <2>. QED  BY <2>1, <2>2, KeptList DEF c
<1>10. CASE AnalyseSource
  BY <1>10, KeptSource
<1>11. CASE AnalyseOther
  BY <1>11, KeptOther
<1>12. CASE IgnoreIncomplete \/ UNCHANGED vars
  <2>1. UNCHANGED <<circuit, details, content, index, universe, pc>>
    BY <1>12 DEF IgnoreIncomplete, vars
  <2>2. Progress' /\ Searched' /\ Drawn'
    BY <1>1, <2>1 DEF Progress, Searched, Drawn, AllDetails
  <2>3. /\ \A i \in DOMAIN circuit : \A p \in DOMAIN circuit[i] : Analysed(i, p)' => Analysed(i, p)
        /\ \A i \in DOMAIN circuit : \A b \in DOMAIN details[i] : Passed(i, b)' = Passed(i, b)
    BY <2>1 DEF Analysed, Passed
  <2>. QED  BY <2>1, <2>2, <2>3, KeptElsewhere
<1>13. CASE NextContent
  <2>1. /\ UNCHANGED <<circuit, details, universe, pc>> /\ pc = "analyse" /\ content' = content + 1
        /\ index' = 1 /\ content \in DOMAIN circuit /\ index \notin DOMAIN circuit[content]
    BY <1>13 DEF NextContent
  <2>2. Progress' /\ Searched' /\ Drawn'
    BY <1>1, <2>1 DEF Progress, Searched, Drawn
  <2>3. \A p \in DOMAIN circuit[content] : p < index
    BY <1>1, <1>2, <2>1
  <2>4. \A i \in DOMAIN circuit : \A p \in DOMAIN circuit[i] : Analysed(i, p)' => Analysed(i, p)
    <3>. SUFFICES ASSUME NEW i \in DOMAIN circuit, NEW p \in DOMAIN circuit[i], Analysed(i, p)'
                  PROVE  Analysed(i, p)
      OBVIOUS
    <3>1. i \in Nat /\ p \in Nat /\ p >= 1
      BY <1>2
    <3>2. i < content + 1
      BY <2>1, <3>1 DEF Analysed
    <3>3. i < content \/ i = content
      BY <1>1, <3>1, <3>2
    <3>. QED  BY <2>1, <2>3, <3>3 DEF Analysed
  <2>5. \A i \in DOMAIN circuit : \A b \in DOMAIN details[i] : Passed(i, b)' = Passed(i, b)
    BY <2>1 DEF Passed
  <2>. QED  BY <2>1, <2>2, <2>4, <2>5, KeptElsewhere
<1>14. CASE AnalysisDone
  <2>1. /\ UNCHANGED <<circuit, details, index, universe>> /\ pc = "analyse" /\ pc' = "collapse"
        /\ content' = 1 /\ content \notin DOMAIN circuit /\ index = 1
    BY <1>1, <1>14 DEF AnalysisDone, Progress
  <2>2. \A i \in DOMAIN circuit : i < content
    BY <1>1, <1>2, <2>1
  <2>3. Progress' /\ Drawn'
    BY <2>1 DEF Progress, Drawn
  <2>4. Searched'
    <3>1. ASSUME 1 \in DOMAIN circuit, NEW k \in DOMAIN details[1]  PROVE ~ (k + 1 < 1)
      BY <1>2, <3>1
    <3>. QED  BY <2>1, <3>1 DEF Searched
  <2>5. \A i \in DOMAIN circuit : \A p \in DOMAIN circuit[i] : Analysed(i, p)
    BY <2>1, <2>2 DEF Analysed
  <2>6. \A i \in DOMAIN circuit : \A b \in DOMAIN details[i] : Passed(i, b)' = Passed(i, b)
    BY <1>2, <2>1 DEF Passed
  <2>. QED  BY <2>1, <2>3, <2>4, <2>5, <2>6, KeptElsewhere
<1>15. CASE CollapseInstance
  BY <1>15, KeptCollapse
<1>16. CASE CollapseNextContent
  <2>1. /\ UNCHANGED <<circuit, details, universe, pc>> /\ pc = "collapse" /\ content' = content + 1
        /\ index' = 1 /\ content \in DOMAIN circuit /\ index \notin DOMAIN details[content]
    BY <1>16 DEF CollapseNextContent
  <2>2. \A b \in DOMAIN details[content] : b < index
    BY <1>1, <1>2, <2>1
  <2>3. Progress' /\ Drawn'
    BY <1>1, <2>1 DEF Progress, Drawn
  <2>4. Searched'
    <3>1. ASSUME content + 1 \in DOMAIN circuit, NEW k \in DOMAIN details[content + 1]
          PROVE  ~ (k + 1 < 1)
      BY <1>2, <3>1
    <3>. QED  BY <2>1, <3>1 DEF Searched
  <2>5. \A i \in DOMAIN circuit : \A p \in DOMAIN circuit[i] : Analysed(i, p)
    BY <2>1 DEF Analysed
  <2>6. \A i \in DOMAIN circuit : \A b \in DOMAIN details[i] : Passed(i, b)' = Passed(i, b)
    <3>. SUFFICES ASSUME NEW i \in DOMAIN circuit, NEW b \in DOMAIN details[i]
                  PROVE  Passed(i, b)' = Passed(i, b)
      OBVIOUS
    <3>1. i \in Nat /\ b \in Nat /\ ~ (b < 1)
      BY <1>2
    <3>2. i < content + 1 <=> i < content \/ i = content
      BY <1>1, <3>1
    <3>3. Passed(i, b)' <=> i < content \/ i = content
      BY <2>1, <3>1, <3>2 DEF Passed
    <3>4. Passed(i, b) <=> i < content \/ i = content
      BY <2>1, <2>2, <3>1 DEF Passed
    <3>5. Passed(i, b)' \in BOOLEAN /\ Passed(i, b) \in BOOLEAN
      BY DEF Passed
    <3>. QED  BY <3>3, <3>4, <3>5
  <2>. QED  BY <2>1, <2>3, <2>4, <2>5, <2>6, KeptElsewhere
<1>17. CASE Generate
  <2>1. /\ UNCHANGED <<circuit, details, content, index>> /\ pc = "collapse" /\ pc' = "done"
        /\ content \notin DOMAIN circuit /\ universe' = {d \in AllDetails : d.weight > 0}
    BY <1>17 DEF Generate
  <2>2. \A i \in DOMAIN circuit : i < content
    BY <1>1, <1>2, <2>1
  <2>3. Progress' /\ Searched'
    BY <1>1, <2>1 DEF Progress, Searched
  <2>4. Drawn'
    BY <2>1 DEF Drawn, AllDetails
  <2>5. \A i \in DOMAIN circuit : \A p \in DOMAIN circuit[i] : Analysed(i, p)
    BY <2>1 DEF Analysed
  <2>6. \A i \in DOMAIN circuit : \A b \in DOMAIN details[i] : Passed(i, b)' = Passed(i, b)
    BY <2>1, <2>2 DEF Passed
  <2>. QED  BY <2>1, <2>3, <2>4, <2>5, <2>6, KeptElsewhere
<1>. QED  BY <1>4, <1>5, <1>6, <1>7, <1>8, <1>9, <1>10, <1>11, <1>12, <1>13, <1>14, <1>15, <1>16, <1>17
         DEF Next, Optimise, Analyse, Collapse

(* The inductive invariant of the merge, the analysis and the collapse.    *)
THEOREM CollapseInvariant == Spec => []CollapseInv
<1>1. Init => CollapseInv
  BY IdInit, OrderInit, KeptInit DEF CollapseInv
<1>2. CollapseInv /\ [Next]_vars => CollapseInv'
  BY IdNext, OrderNext, KeptNext DEF CollapseInv
<1>. QED  BY <1>1, <1>2, PTL DEF Spec

-----------------------------------------------------------------------------
(* Every value is of its type: no weight is calculated from a parameter    *)
(* that is no number, no defect names a node that is not there, and        *)
(* whatever ends the analysis leaves what it has listed as it was.         *)
THEOREM TypesAreKept == Spec => []TypeOK
<1>. DEFINE Rest == /\ manifest \in Manifests
                    /\ pc \in {"merge", "analyse", "collapse", "done", "raised"}
                    /\ ignored \subseteq Name /\ universe \subseteq Listing
<1>1. Init => Rest
  BY DEF Init
<1>2. ASSUME CollapseInv, Rest, [Next]_vars  PROVE Rest'
  <2>1. CASE IgnoreIncomplete
    <3>. DEFINE c == circuit[content][index]
    <3>1. content \in DOMAIN circuit /\ index \in DOMAIN circuit[content]
      BY <2>1 DEF IgnoreIncomplete, Turn
    <3>2. circuit \in Seq(Seq(Component))
      BY <1>2 DEF CollapseInv, IdInv, Parts
    <3>3. circuit[content] \in Seq(Component)
      BY <3>1, <3>2
    <3>4. c \in Component
      BY <3>1, <3>3
    <3>5. c.name \in Name
      BY <3>4, Parameters
    <3>. QED  BY <1>2, <2>1, <3>5 DEF IgnoreIncomplete
  <2>2. CASE Generate
    <3>1. details \in [DOMAIN circuit -> Seq(Listing)]
      BY <1>2 DEF CollapseInv, Typed
    <3>2. \A i \in DOMAIN circuit : \A k \in DOMAIN details[i] : details[i][k] \in Listing
      BY <3>1
    <3>3. AllDetails \subseteq Listing
      BY <3>2 DEF AllDetails
    <3>. QED  BY <1>2, <2>2, <3>3 DEF Generate
  <2>. QED  BY <1>2, <2>1, <2>2
            DEF Next, vars, Optimise, Analyse, Collapse, MergeContent, MergeDone,
                AnalyseDipole, AnalyseMosfet, AnalyseDiode, AnalyseSource, List,
                AnalyseOther, AnalysisRaises, NextContent, AnalysisDone, Turn,
                CollapseDeclined, CollapseInstance, CollapseNextContent
<1>3. CollapseInv /\ Rest => TypeOK
  BY DEF CollapseInv, IdInv, Parts, Typed, Kept, Progress, TypeOK
<1>. HIDE DEF Rest
<1>4. CollapseInv /\ Rest /\ [Next]_vars => Rest'
  BY <1>2
<1>. QED  BY <1>1, <1>3, <1>4, CollapseInvariant, PTL DEF Spec

(* What becomes of the opens of one component.                             *)
LEMMA OneOpen ==
  ASSUME CollapseInv, pc = "done", NEW i \in DOMAIN circuit, NEW k \in DOMAIN circuit[i],
         NEW c, c = circuit[i][k], Collapsible(c),
         NEW last, last = details[i][Len(details[i])],
         ~ (last.instance = c.name /\ last.kind = "open")
  PROVE  \E d : /\ {e \in universe : e.instance = c.name /\ e.kind = "open"} = {d}
                /\ d.weight = OpenWeight(c)
<1>. DEFINE s == details[i]
<1>1. Order /\ Typed /\ OpensKept /\ universe = {d \in AllDetails : d.weight > 0}
  BY DEF CollapseInv, Kept, Drawn
<1>2. s \in Seq(Listing)
  BY <1>1 DEF Typed
<1>3. Priced(c) /\ \E b \in Nat : Placed(c, s, b) /\ Weighed(c, s, b, TRUE)
  <2>1. Analysed(i, k) /\ \A b : Passed(i, b) = TRUE
    BY DEF Analysed, Passed
  <2>. QED  BY <1>1, <2>1 DEF OpensKept
<1>4. PICK b \in Nat : Placed(c, s, b) /\ Weighed(c, s, b, TRUE)
  BY <1>3
<1>5. /\ b \in DOMAIN s /\ b + 1 \in DOMAIN s
      /\ s[b].instance = c.name /\ s[b + 1].instance = c.name
      /\ \A l \in DOMAIN s : s[l].instance = c.name => (s[l].kind = "open" <=> l \in {b, b + 1})
  BY <1>4 DEF Placed
<1>6. b + 1 # Len(s)
  BY <1>5
<1>7. s[b].weight = 2 * HalfWeight(c) /\ s[b + 1].weight = 0
  BY <1>4, <1>6 DEF Weighed
<1>8. 2 * HalfWeight(c) = OpenWeight(c) /\ 2 * HalfWeight(c) > 0
  <2>. DEFINE f == OpenFactor(c)
              m == Multiplicity(c)
  <2>1. f \in Nat /\ m \in Nat /\ f * m \in Nat \ {0}
    BY <1>3 DEF Priced, HalfWeight
  <2>2. OpenWeight(c) = 2 * m * f
    BY DEF OpenWeight, OpenFactor
  <2>. HIDE DEF f, m
  <2>3. f * m + f * m = 2 * m * f
    BY <2>1, Product
  <2>4. HalfWeight(c) = f * m
    BY DEF HalfWeight, f, m
  <2>. QED  BY <2>1, <2>2, <2>3, <2>4
<1>9. s[b] \in universe
  BY <1>1, <1>5, <1>7, <1>8 DEF AllDetails
<1>10. ASSUME NEW e \in universe, e.instance = c.name, e.kind = "open"
       PROVE  e = s[b]
  <2>1. PICK j \in DOMAIN circuit : \E l \in DOMAIN details[j] : e = details[j][l]
    BY <1>1 DEF AllDetails
  <2>2. PICK l \in DOMAIN details[j] : e = details[j][l]
    BY <2>1
  <2>3. PICK p \in DOMAIN circuit[j] : Owner(j, l, p)
    BY <1>1 DEF Order, Owned
  <2>4. j = i
    BY <1>1, <1>10, <2>2, <2>3 DEF Order, NamesDiffer, Owner
  <2>5. l \in {b, b + 1}
    BY <1>5, <1>10, <2>2, <2>4
  <2>6. e.weight # 0
    <3>1. e.weight > 0
      BY <1>1
    <3>. QED  BY <3>1
  <2>. QED  BY <1>7, <2>2, <2>4, <2>5, <2>6
<1>11. s[b].instance = c.name /\ s[b].kind = "open"
  BY <1>5
<1>. QED  BY <1>7, <1>8, <1>9, <1>10, <1>11

(* Of every two-terminal component and diode one open is left, of the      *)
(* weight of both, although each search but the first begins behind the    *)
(* first defect of its component, or goes on from the middle of another.   *)
THEOREM OpensAreCollapsed == Spec => []OpensBecomeOne
<1>1. CollapseInv => OpensBecomeOne
  <2>. SUFFICES ASSUME CollapseInv, pc = "done",
                       NEW i \in DOMAIN circuit, NEW k \in DOMAIN circuit[i],
                       NEW c, c = circuit[i][k], Collapsible(c),
                       NEW last, last = details[i][Len(details[i])],
                       ~ (last.instance = c.name /\ last.kind = "open"),
                       NEW opens, opens = {d \in universe : d.instance = c.name /\ d.kind = "open"}
                PROVE  Cardinality(opens) = 1 /\ \A d \in opens : d.weight = OpenWeight(c)
    BY DEF OpensBecomeOne
  <2>1. PICK d : opens = {d} /\ d.weight = OpenWeight(c)
    BY OneOpen
  <2>2. Cardinality({d}) = 1
    BY FS_Singleton
  <2>. QED  BY <2>1, <2>2
<1>. QED  BY <1>1, CollapseInvariant, PTL

=============================================================================
