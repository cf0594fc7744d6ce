-------------------------- MODULE InjectionProofs --------------------------
(***************************************************************************)
(* Proofs about Injection, for every circuit and every manifest.           *)
(*                                                                         *)
(* The universe is that of the circuit after merging, the injection is     *)
(* into the netlist as it was before.  What is proved rests on how the two *)
(* are related, and on what every defect says of its component.            *)
(***************************************************************************)
EXTENDS Injection, DefectUniverseProofs

allVars == <<vars, injection>>

-----------------------------------------------------------------------------
(* The universe comes about as in DefectUniverse.                          *)
LEMMA InjectionStep == [NextInjection]_allVars => [Next]_vars
BY DEF NextInjection, Inject, allVars

LEMMA InjectionImplements == SpecInjection => Spec
<1>1. InitInjection => Init
  BY DEF InitInjection
<1>. QED  BY <1>1, InjectionStep, PTL DEF SpecInjection, Spec, allVars

(* So its invariant holds whatever is injected.                            *)
THEOREM InjectionCollapse == SpecInjection => []CollapseInv
BY InjectionImplements, CollapseInvariant, PTL

-----------------------------------------------------------------------------
(* A component of the circuit and the one of the netlist it is.            *)
From(e, c) ==
  /\ e.name = c.name /\ e.kind = c.kind /\ e.nodes = c.nodes
  /\ \A j \in DOMAIN c.params :
       /\ j \in DOMAIN e.params /\ e.params[j].name = c.params[j].name
       /\ c.params[j].name # "m" => e.params[j].value = c.params[j].value
  /\ \A j \in DOMAIN e.params : e.params[j].name # "m" => j \in DOMAIN c.params

LEMMA FromItself ==
  ASSUME NEW c
  PROVE  From(c, c)
BY DEF From

(* The multiplier is set among the parameters, or put behind them.         *)
Multiplied(c, n, e) ==
  /\ e.name = c.name /\ e.kind = c.kind /\ e.nodes = c.nodes
  /\ \A j \in DOMAIN c.params :
       /\ j \in DOMAIN e.params /\ e.params[j].name = c.params[j].name
       /\ c.params[j].name # "m" => e.params[j].value = c.params[j].value
  /\ \A j \in DOMAIN e.params : j \notin DOMAIN c.params =>
       e.params[j].name = "m" /\ ~ Has(c, "m") /\ j = Len(c.params) + 1
  /\ \A j \in DOMAIN e.params : e.params[j].name = "m" => e.params[j].value = n
  /\ \E j \in DOMAIN e.params : e.params[j].name = "m"

LEMMA MultiplierParts ==
  ASSUME NEW c \in Component, NEW n
  PROVE  Multiplied(c, n, SetMultiplier(c, n))
<1>. DEFINE P == [name : Name, value : Value]
            e == SetMultiplier(c, n)
<1>1. /\ c.params \in Seq(P) /\ Len(c.params) \in Nat /\ DOMAIN c.params = 1 .. Len(c.params)
      /\ \A i \in DOMAIN c.params : c.params[i] \in P
  <2>1. c.params \in Seq(P)
    BY DEF Component
  <2>. HIDE DEF P
  <2>. QED  BY <2>1
<1>2. CASE Has(c, "m")
  <2>1. /\ e.name = c.name /\ e.kind = c.kind /\ e.nodes = c.nodes
        /\ e.params = [i \in DOMAIN c.params |->
              IF c.params[i].name = "m" THEN [c.params[i] EXCEPT !.value = n] ELSE c.params[i]]
    BY <1>2 DEF SetMultiplier, Component
  <2>2. \A r \in P : [r EXCEPT !.value = n].name = r.name /\ [r EXCEPT !.value = n].value = n
    OBVIOUS
  <2>3. PICK k \in DOMAIN c.params : c.params[k].name = "m"
    BY <1>2 DEF Has
  <2>. HIDE DEF P, e
  <2>4. DOMAIN e.params = DOMAIN c.params
    BY <2>1
  <2>5. \A j \in DOMAIN c.params :
          /\ e.params[j].name = c.params[j].name
          /\ c.params[j].name = "m" => e.params[j].value = n
          /\ c.params[j].name # "m" => e.params[j].value = c.params[j].value
    BY <1>1, <2>1, <2>2
  <2>6. k \in DOMAIN e.params /\ e.params[k].name = "m"
    BY <2>3, <2>4, <2>5
  <2>. QED  BY <2>1, <2>4, <2>5, <2>6 DEF Multiplied, e
<1>3. CASE ~ Has(c, "m")
  <2>. DEFINE r == [name |-> "m", value |-> n]
  <2>1. /\ e.name = c.name /\ e.kind = c.kind /\ e.nodes = c.nodes
        /\ e.params = Append(c.params, r)
    BY <1>3 DEF SetMultiplier, Component
  <2>2. r.name = "m" /\ r.value = n
    OBVIOUS
  <2>. HIDE DEF r, e
  <2>3. /\ DOMAIN Append(c.params, r) = 1 .. Len(c.params) + 1
        /\ Append(c.params, r)[Len(c.params) + 1] = r
        /\ \A j \in 1 .. Len(c.params) : Append(c.params, r)[j] = c.params[j]
    <3>1. c.params \in Seq(P \cup {r})
      BY <1>1, SeqMonotonic
    <3>2. r \in P \cup {r}
      OBVIOUS
    <3>. QED  BY <1>1, <3>1, <3>2, AppendProperties
  <2>4. \A j \in DOMAIN c.params : c.params[j].name # "m"
    BY <1>3 DEF Has
  <2>5. \A j \in DOMAIN c.params : j \in DOMAIN e.params /\ e.params[j] = c.params[j]
    BY <1>1, <2>1, <2>3
  <2>6. \A j \in DOMAIN e.params : j \notin DOMAIN c.params => e.params[j] = r /\ j = Len(c.params) + 1
    BY <1>1, <2>1, <2>3
  <2>7. \E j \in DOMAIN e.params : e.params[j].name = "m"
    <3>1. Len(c.params) + 1 \in DOMAIN e.params /\ e.params[Len(c.params) + 1] = r
      BY <1>1, <2>1, <2>3
    <3>. QED  BY <2>2, <3>1
  <2>8. \A j \in DOMAIN e.params : e.params[j].name = "m" => e.params[j].value = n
    BY <2>2, <2>4, <2>5, <2>6
  <2>9. \A j \in DOMAIN e.params : j \notin DOMAIN c.params =>
          e.params[j].name = "m" /\ ~ Has(c, "m") /\ j = Len(c.params) + 1
    BY <1>3, <2>2, <2>6
  <2>. QED  BY <2>1, <2>5, <2>7, <2>8, <2>9 DEF Multiplied, e
<1>. QED  BY <1>2, <1>3

LEMMA FromMerged ==
  ASSUME NEW s \in Seq(Component), NEW q \in DOMAIN s
  PROVE  From(Merged(s, q), s[q])
<1>. DEFINE n == Cardinality(Twins(s, q))
            c == s[q]
<1>1. c \in Component
  OBVIOUS
<1>. HIDE DEF n, c
<1>2. From(SetMultiplier(c, n), c)
  BY <1>1, MultiplierParts DEF From, Multiplied
<1>. QED  BY <1>2, FromItself DEF Merged, n, c

(* Merging gives no two parameters the same name.                          *)
LEMMA MergedDistinct ==
  ASSUME NEW s \in Seq(Component), NEW q \in DOMAIN s,
         Distinct(s[q].nodes), Distinct(ParamsOf(s[q]))
  PROVE  Distinct(Merged(s, q).nodes) /\ Distinct(ParamsOf(Merged(s, q)))
<1>. DEFINE n == Cardinality(Twins(s, q))
            c == s[q]
            e == SetMultiplier(c, n)
<1>1. c \in Component
  OBVIOUS
<1>2. Distinct(c.nodes) /\ Distinct(ParamsOf(c))
  OBVIOUS
<1>. HIDE DEF n, c
<1>3. Multiplied(c, n, e)
  BY <1>1, MultiplierParts
<1>. HIDE DEF e
<1>4. e.nodes = c.nodes
  BY <1>3 DEF Multiplied
<1>5. \A i, j \in DOMAIN c.params : c.params[i].name = c.params[j].name => i = j
  BY <1>2 DEF Distinct, ParamsOf
<1>6. ASSUME NEW i \in DOMAIN e.params, NEW j \in DOMAIN e.params, e.params[i].name = e.params[j].name
      PROVE  i = j
  <2>1. \A k \in DOMAIN e.params : k \notin DOMAIN c.params =>
           /\ e.params[k].name = "m" /\ k = Len(c.params) + 1
           /\ \A l \in DOMAIN c.params : e.params[l].name # "m"
    BY <1>3 DEF Multiplied, Has
  <2>2. CASE i \in DOMAIN c.params /\ j \in DOMAIN c.params
    BY <1>3, <1>5, <1>6, <2>2 DEF Multiplied
  <2>3. CASE i \notin DOMAIN c.params \/ j \notin DOMAIN c.params
    BY <1>6, <2>1, <2>3
  <2>. QED  BY <2>2, <2>3
<1>7. Distinct(e.nodes) /\ Distinct(ParamsOf(e))
  BY <1>2, <1>4, <1>6 DEF Distinct, ParamsOf
<1>. QED  BY <1>2, <1>7 DEF Merged, n, c, e

-----------------------------------------------------------------------------
(* The defects of one component differ in kind or in what they are about,  *)
(* but for the two deviations of a parameter.                              *)
Single(q) ==
  \A k, l \in DOMAIN q :
    /\ q[k].kind # "parametric"
    /\ k # l => q[k].kind # q[l].kind \/ q[k].subject # q[l].subject

Pairs(p) ==
  /\ \A k \in DOMAIN p : p[k].kind = "parametric"
  /\ \A j, k, m \in DOMAIN p :
       (p[j].subject = p[k].subject /\ p[k].subject = p[m].subject) => j = k \/ k = m \/ j = m

Apart(d) ==
  \A k, l \in DOMAIN d :
    (k # l /\ d[k].kind = d[l].kind /\ d[k].subject = d[l].subject) =>
      /\ d[k].kind = "parametric"
      /\ \A m \in DOMAIN d :
           d[m].kind = "parametric" /\ d[m].subject = d[k].subject => m = k \/ m = l

LEMMA SplitApart ==
  ASSUME NEW d, NEW q, NEW p, NEW n \in Nat, Single(q), Pairs(p), DOMAIN d \subseteq Nat,
         \A k \in DOMAIN d : \/ k \in DOMAIN q /\ d[k] = q[k]
                             \/ k - n \in DOMAIN p /\ d[k] = p[k - n]
  PROVE  Apart(d)
<1>1. \A k \in DOMAIN d : d[k].kind = "parametric" =>
                            k - n \in DOMAIN p /\ d[k] = p[k - n] /\ k \in Nat
  BY DEF Single
<1>2. \A k \in DOMAIN d : d[k].kind # "parametric" => k \in DOMAIN q /\ d[k] = q[k]
  BY DEF Pairs
<1>. SUFFICES ASSUME NEW k \in DOMAIN d, NEW l \in DOMAIN d, k # l, d[k].kind = d[l].kind,
                     d[k].subject = d[l].subject
              PROVE  /\ d[k].kind = "parametric"
                     /\ \A m \in DOMAIN d :
                          d[m].kind = "parametric" /\ d[m].subject = d[k].subject => m = k \/ m = l
  BY DEF Apart
<1>3. d[k].kind = "parametric"
  BY <1>2 DEF Single
<1>4. ASSUME NEW m \in DOMAIN d, d[m].kind = "parametric", d[m].subject = d[k].subject
      PROVE  m = k \/ m = l
  <2>1. /\ k - n \in DOMAIN p /\ l - n \in DOMAIN p /\ m - n \in DOMAIN p
        /\ d[k] = p[k - n] /\ d[l] = p[l - n] /\ d[m] = p[m - n]
        /\ k \in Nat /\ l \in Nat /\ m \in Nat
    BY <1>1, <1>3, <1>4
  <2>2. k - n = l - n \/ l - n = m - n \/ k - n = m - n
    BY <1>4, <2>1 DEF Pairs
  <2>. QED  BY <2>1, <2>2
<1>. QED  BY <1>3, <1>4

LEMMA JoinedApart ==
  ASSUME NEW T, NEW q \in Seq(T), NEW p \in Seq(T), Single(q), Pairs(p), NEW d, d = q \o p
  PROVE  Apart(d)
<1>1. /\ Len(q) \in Nat /\ Len(p) \in Nat /\ DOMAIN d = 1 .. Len(q) + Len(p)
      /\ \A k \in DOMAIN q : d[k] = q[k]
      /\ \A k \in DOMAIN d : \/ k \in DOMAIN q
                             \/ k > Len(q) /\ k - Len(q) \in DOMAIN p /\ d[k] = p[k - Len(q)]
  BY JoinedListing
<1>2. DOMAIN d \subseteq Nat
  BY <1>1
<1>. QED  BY <1>1, <1>2, SplitApart

LEMMA ParametricPairs ==
  ASSUME NEW c \in Component, Distinct(ParamsOf(c))
  PROVE  Pairs(Parametric(c))
<1>. DEFINE p == Parametric(c)
            at(k) == (k + 1) \div 2
            N == Len(c.params)
<1>1. N \in Nat /\ DOMAIN c.params = 1 .. N
  BY Parameters
<1>2. DOMAIN p = 1 .. 2 * N /\ \A k \in 1 .. 2 * N : p[k].subject = <<c.params[at(k)].name>>
  BY DEF Parametric, Defect
<1>3. \A k \in DOMAIN p : p[k].kind = "parametric"
  BY ParametricTemplates
<1>. HIDE DEF p
<1>4. \A i, j \in 1 .. N : c.params[i].name = c.params[j].name => i = j
  BY <1>1 DEF Distinct, ParamsOf
<1>5. \A k \in 1 .. 2 * N : at(k) \in 1 .. N /\ (k = 2 * at(k) \/ k = 2 * at(k) - 1)
  BY <1>1
<1>. HIDE DEF at, N
<1>6. ASSUME NEW j \in DOMAIN p, NEW k \in DOMAIN p, NEW m \in DOMAIN p,
             p[j].subject = p[k].subject, p[k].subject = p[m].subject
      PROVE  j = k \/ k = m \/ j = m
  <2>1. /\ c.params[at(j)].name = c.params[at(k)].name
        /\ c.params[at(k)].name = c.params[at(m)].name
    <3>1. \A x, y : <<x>> = <<y>> => x = y
      OBVIOUS
    <3>. QED  BY <1>2, <1>6, <3>1
  <2>2. at(j) = at(k) /\ at(k) = at(m)
    BY <1>2, <1>4, <1>5, <2>1
  <2>. QED  BY <1>2, <1>5, <2>2
<1>. QED  BY <1>3, <1>6 DEF Pairs, p

LEMMA TwoTerminalsApart ==
  ASSUME NEW c \in Component, Wired(c), Terminals(c.kind) = 2,
         Distinct(c.nodes), Distinct(ParamsOf(c)), NEW u, NEW v, NEW w, NEW d,
         d = << Defect("short", u, <<c.nodes[1], c.nodes[2]>>),
                Defect("open", v, <<c.nodes[1]>>), Defect("open", w, <<c.nodes[2]>>) >>
               \o Parametric(c)
  PROVE  Apart(d)
<1>. DEFINE x == Defect("short", u, <<c.nodes[1], c.nodes[2]>>)
            y == Defect("open", v, <<c.nodes[1]>>)
            z == Defect("open", w, <<c.nodes[2]>>)
            p == Parametric(c)
<1>1. c.nodes[1] # c.nodes[2]
  <2>1. 1 \in DOMAIN c.nodes /\ 2 \in DOMAIN c.nodes
    BY Parameters DEF Wired
  <2>. QED  BY <2>1 DEF Distinct
<1>2. x.kind = "short" /\ y.kind = "open" /\ z.kind = "open" /\ y.subject # z.subject
  BY <1>1 DEF Defect
<1>3. Pairs(p) /\ p \in Seq(Template(c))
  BY ParametricPairs, ParametricTemplates
<1>4. d = <<x, y, z>> \o p
  OBVIOUS
<1>. HIDE DEF x, y, z, p
<1>5. Single(<<x, y, z>>)
  BY <1>2 DEF Single
<1>6. <<x, y, z>> \in Seq({x, y, z} \cup Template(c)) /\ p \in Seq({x, y, z} \cup Template(c))
  <2>1. <<x, y, z>> \in Seq({x, y, z} \cup Template(c))
    OBVIOUS
  <2>2. p \in Seq({x, y, z} \cup Template(c))
    BY <1>3, SeqMonotonic
  <2>. QED  BY <2>1, <2>2
<1>. QED  BY <1>3, <1>4, <1>5, <1>6, JoinedApart

LEMMA TransistorApart ==
  ASSUME NEW c \in Component, c.kind = "mosfet", Wired(c), Distinct(c.nodes), Distinct(ParamsOf(c))
  PROVE  Apart(MosfetDefects(c))
<1>. DEFINE m == Multiplicity(c)
            a(k) == CoupledNodes[k][1]
            b(k) == CoupledNodes[k][2]
            short(k) == Defect("short", CoupleWeight(c, c.nodes[a(k)], c.nodes[b(k)]) * m,
                               <<c.nodes[a(k)], c.nodes[b(k)]>>)
            v == Defect("open", 10 * m, <<c.nodes[1]>>)
            w == Defect("open", 5 * m, <<c.nodes[2]>>)
            x == Defect("open", 5 * m, <<c.nodes[1], c.nodes[2], c.nodes[3]>>)
            y == Defect("open", 10 * m, <<c.nodes[3]>>)
            z == Defect("open", IF manifest.bulk THEN 2 ELSE 0, <<c.nodes[4]>>)
            shorts == [k \in 1 .. 6 |-> short(k)]
            opens == <<v, w, x, y, z>>
            p == Parametric(c)
<1>1. MosfetDefects(c) = (shorts \o opens) \o p
  BY DEF MosfetDefects
<1>2. /\ \A i, j \in {1, 2, 3, 4} : c.nodes[i] = c.nodes[j] => i = j
  <2>1. Terminals(c.kind) = 4
    BY DEF Terminals, Dipole
  <2>2. {1, 2, 3, 4} \subseteq DOMAIN c.nodes
    BY <2>1, Parameters DEF Wired
  <2>. QED  BY <2>2 DEF Distinct
<1>3. Pairs(p) /\ p \in Seq(Template(c))
  BY ParametricPairs, ParametricTemplates
<1>4. \A k \in 1 .. 6 : /\ short(k).kind = "short"
                        /\ short(k).subject = <<c.nodes[a(k)], c.nodes[b(k)]>>
  BY DEF Defect
<1>5. \A k \in 1 .. 6 : a(k) \in {1, 2, 3, 4} /\ b(k) \in {1, 2, 3, 4}
  BY DEF CoupledNodes
<1>6. \A k, l \in 1 .. 6 : a(k) = a(l) /\ b(k) = b(l) => k = l
  BY DEF CoupledNodes
<1>. HIDE DEF a, b
<1>7. \A k, l \in 1 .. 6 : k # l => short(k).subject # short(l).subject
  <2>. SUFFICES ASSUME NEW k \in 1 .. 6, NEW l \in 1 .. 6, short(k).subject = short(l).subject
                PROVE  k = l
    OBVIOUS
  <2>1. c.nodes[a(k)] = c.nodes[a(l)] /\ c.nodes[b(k)] = c.nodes[b(l)]
    <3>1. \A q, r, s, t : <<q, r>> = <<s, t>> => q = s /\ r = t
      OBVIOUS
    <3>. HIDE DEF short
    <3>. QED  BY <1>4, <3>1
  <2>. QED  BY <1>2, <1>5, <1>6, <2>1
<1>. HIDE DEF short
<1>8. /\ v.kind = "open" /\ w.kind = "open" /\ x.kind = "open" /\ y.kind = "open" /\ z.kind = "open"
      /\ v.subject = <<c.nodes[1]>> /\ w.subject = <<c.nodes[2]>>
      /\ x.subject = <<c.nodes[1], c.nodes[2], c.nodes[3]>>
      /\ y.subject = <<c.nodes[3]>> /\ z.subject = <<c.nodes[4]>>
  BY DEF Defect
<1>. HIDE DEF v, w, x, y, z
<1>9. \A i \in {1, 2, 3, 4} : <<c.nodes[i]>> # <<c.nodes[1], c.nodes[2], c.nodes[3]>>
  OBVIOUS
<1>10. \A i, j \in {1, 2, 3, 4} : <<c.nodes[i]>> = <<c.nodes[j]>> => i = j
  BY <1>2
<1>11. \A k, l \in 1 .. 5 : opens[k].kind = "open"
                            /\ (k # l => opens[k].subject # opens[l].subject)
  <2>1. /\ opens[1] = v /\ opens[2] = w /\ opens[3] = x /\ opens[4] = y /\ opens[5] = z
    OBVIOUS
  <2>2. /\ v.subject # w.subject /\ v.subject # x.subject /\ v.subject # y.subject
        /\ v.subject # z.subject /\ w.subject # x.subject /\ w.subject # y.subject
        /\ w.subject # z.subject /\ x.subject # y.subject /\ x.subject # z.subject
        /\ y.subject # z.subject
    BY <1>8, <1>9, <1>10
  <2>. HIDE DEF opens
  <2>. QED  BY <1>8, <2>1, <2>2
<1>. DEFINE T == {short(k) : k \in 1 .. 6} \cup {v, w, x, y, z} \cup Template(c)
<1>12. shorts \in Seq(T)
  <2>1. \A k \in 1 .. 6 : short(k) \in T
    OBVIOUS
  <2>. HIDE DEF T
  <2>. QED  BY <2>1, IsASeq
<1>13. opens \in Seq(T) /\ Len(opens) = 5 /\ DOMAIN opens = 1 .. 5
  <2>1. v \in T /\ w \in T /\ x \in T /\ y \in T /\ z \in T
    OBVIOUS
  <2>. HIDE DEF T
  <2>. QED  BY <2>1
<1>14. p \in Seq(T)
  <2>1. Template(c) \subseteq T
    OBVIOUS
  <2>. HIDE DEF T, p
  <2>. QED  BY <1>3, <2>1, SeqMonotonic
<1>15. DOMAIN shorts = 1 .. 6 /\ \A k \in 1 .. 6 : shorts[k] = short(k)
  OBVIOUS
<1>16. Len(shorts) = 6
  <2>. HIDE DEF shorts, T
  <2>. QED  BY <1>12, <1>15
<1>. HIDE DEF shorts, opens, p, T
<1>. DEFINE q == shorts \o opens
<1>17. /\ q \in Seq(T)
       /\ \A k \in DOMAIN q : \/ k \in DOMAIN shorts
                              \/ k > 6 /\ k - 6 \in DOMAIN opens /\ q[k] = opens[k - 6]
       /\ \A k \in DOMAIN shorts : q[k] = shorts[k]
       /\ DOMAIN q \subseteq Int
  <2>. DEFINE n == Len(shorts)
  <2>1. /\ q \in Seq(T) /\ n \in Nat /\ Len(opens) \in Nat /\ DOMAIN q = 1 .. n + Len(opens)
        /\ \A k \in DOMAIN shorts : q[k] = shorts[k]
        /\ \A k \in DOMAIN q : \/ k \in DOMAIN shorts
                               \/ k > n /\ k - n \in DOMAIN opens /\ q[k] = opens[k - n]
    <3>1. q = shorts \o opens /\ shorts \in Seq(T) /\ opens \in Seq(T)
      BY <1>12, <1>13
    <3>. HIDE DEF q
    <3>. QED  BY <3>1, JoinedListing
  <2>2. n = 6
    BY <1>16
  <2>. HIDE DEF n, q
  <2>. QED  BY <2>1, <2>2
<1>. HIDE DEF q
<1>18. Single(q)
  <2>1. \A k \in DOMAIN q : \/ k \in 1 .. 6 /\ q[k] = short(k)
                            \/ k \in Int /\ k - 6 \in 1 .. 5 /\ q[k] = opens[k - 6]
    BY <1>13, <1>15, <1>17
  <2>. SUFFICES ASSUME NEW k \in DOMAIN q, NEW l \in DOMAIN q
                PROVE  /\ q[k].kind # "parametric"
                       /\ k # l => q[k].kind # q[l].kind \/ q[k].subject # q[l].subject
    BY DEF Single
  <2>2. CASE k \in 1 .. 6 /\ q[k] = short(k) /\ l \in 1 .. 6 /\ q[l] = short(l)
    BY <1>4, <1>7, <2>2
  <2>3. CASE /\ k \in Int /\ k - 6 \in 1 .. 5 /\ q[k] = opens[k - 6]
             /\ l \in Int /\ l - 6 \in 1 .. 5 /\ q[l] = opens[l - 6]
    <3>1. k # l => k - 6 # l - 6
      BY <2>3
    <3>. QED  BY <1>11, <2>3, <3>1
  <2>4. CASE k \in 1 .. 6 /\ q[k] = short(k) /\ l - 6 \in 1 .. 5 /\ q[l] = opens[l - 6]
    BY <1>4, <1>11, <2>4
  <2>5. CASE l \in 1 .. 6 /\ q[l] = short(l) /\ k - 6 \in 1 .. 5 /\ q[k] = opens[k - 6]
    BY <1>4, <1>11, <2>5
  <2>. QED  BY <2>1, <2>2, <2>3, <2>4, <2>5
<1>19. MosfetDefects(c) = q \o p
  BY <1>1 DEF q, shorts, opens, p
<1>. QED  BY <1>3, <1>14, <1>17, <1>18, <1>19, JoinedApart DEF p

-----------------------------------------------------------------------------
(* What is listed for a component is of the component, and told apart.     *)
Suited(c, s) ==
  \A k \in DOMAIN s : s[k].instance = c.name =>
    IF s[k].kind = "none" THEN s[k].weight = 0 ELSE Suits(c, s[k]) /\ Numeric(c)

Told(c, s) ==
  Distinct(c.nodes) /\ Distinct(ParamsOf(c)) =>
    \A k, l \in DOMAIN s :
      (/\ k # l /\ s[k].instance = c.name /\ s[l].instance = c.name /\ s[k].kind # "none"
       /\ s[k].kind = s[l].kind /\ s[k].subject = s[l].subject) =>
        /\ s[k].kind = "parametric"
        /\ \A m \in DOMAIN s :
             (/\ s[m].instance = c.name /\ s[m].kind = "parametric"
              /\ s[m].subject = s[k].subject) => m = k \/ m = l

Catalogue ==
  \A i \in DOMAIN circuit : \A p \in DOMAIN circuit[i] :
    Suited(circuit[i][p], details[i]) /\ Told(circuit[i][p], details[i])

(* What t lists for c is what s lists for it, n places further on.         *)
Moved(c, s, t, n) ==
  \A k \in DOMAIN t : t[k].instance = c.name =>
    /\ k \in Int /\ k - n \in DOMAIN s /\ s[k - n].instance = c.name
    /\ t[k].kind = s[k - n].kind /\ t[k].subject = s[k - n].subject
    /\ t[k].kind # "open" => t[k].weight \in {0, s[k - n].weight}

LEMMA ToldLater ==
  ASSUME NEW c, NEW s, Told(c, s), NEW t, NEW n \in Int, Moved(c, s, t, n)
  PROVE  Told(c, t)
<1>0. \A k \in DOMAIN t : t[k].instance = c.name =>
        /\ k \in Int /\ k - n \in DOMAIN s /\ s[k - n].instance = c.name
        /\ t[k].kind = s[k - n].kind /\ t[k].subject = s[k - n].subject
  BY DEF Moved
<1>. SUFFICES ASSUME Distinct(c.nodes), Distinct(ParamsOf(c)), NEW k \in DOMAIN t, NEW l \in DOMAIN t,
                     k # l, t[k].instance = c.name, t[l].instance = c.name, t[k].kind # "none",
                     t[k].kind = t[l].kind, t[k].subject = t[l].subject
              PROVE  /\ t[k].kind = "parametric"
                     /\ \A m \in DOMAIN t :
                          (/\ t[m].instance = c.name /\ t[m].kind = "parametric"
                           /\ t[m].subject = t[k].subject) => m = k \/ m = l
  BY DEF Told
<1>1. k \in Int /\ l \in Int /\ k - n # l - n
  <2>1. k \in Int /\ l \in Int
    BY <1>0
  <2>. QED  BY <2>1
<1>2. /\ s[k - n].kind = "parametric"
      /\ \A m \in DOMAIN s :
           (/\ s[m].instance = c.name /\ s[m].kind = "parametric"
            /\ s[m].subject = s[k - n].subject) => m = k - n \/ m = l - n
  BY <1>0, <1>1 DEF Told
<1>3. ASSUME NEW m \in DOMAIN t, t[m].instance = c.name, t[m].kind = "parametric",
             t[m].subject = t[k].subject
      PROVE  m = k \/ m = l
  <2>1. m - n = k - n \/ m - n = l - n
    BY <1>0, <1>2, <1>3
  <2>2. m \in Int
    BY <1>0, <1>3
  <2>. QED  BY <1>1, <2>1, <2>2
<1>. QED  BY <1>0, <1>2, <1>3

LEMMA SuitsAlike ==
  ASSUME NEW c, NEW d, NEW e, Suits(c, d), e.kind = d.kind, e.subject = d.subject,
         e.kind = "parametric" => e.weight \in {0, d.weight}
  PROVE  Suits(c, e)
BY DEF Suits

LEMMA SuitedLater ==
  ASSUME NEW c, NEW s, Suited(c, s), NEW t, NEW n \in Int, Moved(c, s, t, n)
  PROVE  Suited(c, t)
<1>. SUFFICES ASSUME NEW k \in DOMAIN t, t[k].instance = c.name
              PROVE  IF t[k].kind = "none" THEN t[k].weight = 0 ELSE Suits(c, t[k]) /\ Numeric(c)
  BY DEF Suited
<1>0. CASE t[k].kind = "none"
  <2>1. s[k - n].weight = 0 /\ t[k].weight \in {0, s[k - n].weight}
    BY <1>0 DEF Suited, Moved
  <2>. QED  BY <1>0, <2>1
<1>. SUFFICES ASSUME t[k].kind # "none"  PROVE Suits(c, t[k]) /\ Numeric(c)
  BY <1>0
<1>1. Suits(c, s[k - n]) /\ Numeric(c)
  BY DEF Suited, Moved
<1>. DEFINE d == s[k - n]
            e == t[k]
<1>2. /\ Suits(c, d) /\ e.kind = d.kind /\ e.subject = d.subject
      /\ e.kind = "parametric" => e.weight \in {0, d.weight}
  BY <1>1 DEF Moved
<1>. HIDE DEF d, e
<1>3. Suits(c, e)
  BY <1>2, SuitsAlike
<1>. QED  BY <1>1, <1>3 DEF e

(* The component in hand is catalogued as what is appended is.             *)
LEMMA CatalogueExtension ==
  ASSUME CollapseInv, Catalogue, pc = "analyse", circuit' = circuit,
         content \in DOMAIN circuit, index \in DOMAIN circuit[content],
         NEW c, c = circuit[content][index], NEW s \in Seq(Listing),
         details' = [details EXCEPT ![content] = details[content] \o s],
         \A k \in DOMAIN s : s[k].instance = c.name,
         Suited(c, s), Told(c, s)
  PROVE  Catalogue'
<1>. DEFINE o == details[content]
            t == o \o s
            n == Len(o)
<1>1. Order /\ Typed /\ Kept
  BY DEF CollapseInv
<1>2. o \in Seq(Listing)
  BY <1>1 DEF Typed
<1>3. /\ n \in Nat /\ DOMAIN o = 1 .. n /\ DOMAIN t = 1 .. n + Len(s) /\ Len(s) \in Nat
      /\ \A k \in DOMAIN o : k \in DOMAIN t /\ t[k] = o[k]
      /\ \A k \in DOMAIN t : \/ k \in DOMAIN o
                             \/ k > n /\ k - n \in DOMAIN s /\ t[k] = s[k - n]
  BY <1>2, JoinedListing
<1>4. details' = [details EXCEPT ![content] = t]
  OBVIOUS
<1>5. /\ details'[content] = t
      /\ \A i \in DOMAIN circuit : i # content => details'[i] = details[i]
  BY <1>1, <1>4 DEF Typed
<1>6. ASSUME NEW k \in DOMAIN o
      PROVE  o[k].instance # c.name
  <2>1. PICK p \in DOMAIN circuit[content] : Owner(content, k, p)
    BY <1>1 DEF Order, Owned
  <2>2. p # index
    BY <1>1, <2>1 DEF Owner, Kept, Progress
  <2>. QED  BY <1>1, <2>1, <2>2 DEF Owner, Order, NamesDiffer
<1>. HIDE DEF t, n
<1>7. SUFFICES ASSUME NEW i \in DOMAIN circuit, NEW p \in DOMAIN circuit[i]
               PROVE  Suited(circuit[i][p], details'[i]) /\ Told(circuit[i][p], details'[i])
  BY DEF Catalogue
<1>. DEFINE e == circuit[i][p]
<1>8. CASE i # content
  BY <1>5, <1>8 DEF Catalogue
<1>9. CASE i = content /\ p = index
  <2>. HIDE DEF o
  <2>1. n \in Int /\ Moved(c, s, t, n)
    BY <1>3, <1>6 DEF Moved
  <2>2. Suited(c, t) /\ Told(c, t)
    BY <2>1, SuitedLater, ToldLater
  <2>. QED  BY <1>5, <1>9, <2>2
<1>10. CASE i = content /\ p # index
  <2>1. e.name # c.name
    BY <1>1, <1>10 DEF Order, NamesDiffer
  <2>2. Suited(e, o) /\ Told(e, o)
    BY <1>10 DEF Catalogue
  <2>. HIDE DEF o, e
  <2>3. \A k \in DOMAIN t : t[k].instance = e.name => k \in DOMAIN o /\ t[k] = o[k] /\ k \in Int
    BY <1>3, <2>1
  <2>4. Moved(e, o, t, 0)
    BY <2>3 DEF Moved
  <2>5. Suited(e, t) /\ Told(e, t)
    BY <2>2, <2>4, SuitedLater, ToldLater
  <2>. QED  BY <1>5, <1>10, <2>5 DEF e
<1>. QED  BY <1>8, <1>9, <1>10

LEMMA CatalogueList ==
  ASSUME CollapseInv, Catalogue, NEW c, c = circuit[content][index], c \in Component, Numeric(c),
         NEW kinds, Turn(kinds), NEW d \in Seq(Template(c)), List(c, d),
         Distinct(c.nodes) /\ Distinct(ParamsOf(c)) => Apart(d)
  PROVE  Catalogue'
<1>. DEFINE s == Listed(c, d)
<1>1. number \in Nat
  BY DEF CollapseInv, IdInv, Parts
<1>2. /\ s \in Seq(Listing) /\ DOMAIN s = DOMAIN d
      /\ \A k \in DOMAIN d : /\ s[k].instance = c.name
                             /\ s[k].kind = d[k].kind /\ s[k].weight = d[k].weight
                             /\ s[k].subject = d[k].subject
  BY <1>1, ListedTemplates
<1>3. /\ pc = "analyse" /\ circuit' = circuit
      /\ details' = [details EXCEPT ![content] = details[content] \o s]
      /\ content \in DOMAIN circuit /\ index \in DOMAIN circuit[content]
  BY DEF Turn, List
<1>. HIDE DEF s
<1>4. Suited(c, s)
  <2>. SUFFICES ASSUME NEW k \in DOMAIN s  PROVE s[k].kind # "none" /\ Suits(c, s[k])
    BY DEF Suited
  <2>1. d[k] \in Template(c)
    BY <1>2
  <2>2. Suits(c, d[k]) /\ d[k].kind # "none"
    BY <2>1 DEF Template
  <2>3. s[k].kind = d[k].kind /\ s[k].subject = d[k].subject /\ s[k].weight = d[k].weight
    BY <1>2
  <2>. QED  BY <2>2, <2>3, SuitsAlike
<1>5. Told(c, s)
  BY <1>2 DEF Told, Apart
<1>6. \A k \in DOMAIN s : s[k].instance = c.name
  BY <1>2
<1>. QED  BY <1>2, <1>3, <1>4, <1>5, <1>6, CatalogueExtension

LEMMA CatalogueSource ==
  ASSUME CollapseInv, Catalogue, AnalyseSource
  PROVE  Catalogue'
<1>. DEFINE c == circuit[content][index]
            r == [id |-> -1, instance |-> c.name, category |-> c.kind, kind |-> "none",
                  weight |-> 0, subject |-> <<>>]
<1>1. /\ pc = "analyse" /\ circuit' = circuit
      /\ details' = [details EXCEPT ![content] = Append(@, r)]
      /\ content \in DOMAIN circuit /\ index \in DOMAIN circuit[content]
  BY DEF AnalyseSource, Turn
<1>2. c \in Component
  <2>1. circuit \in Seq(Seq(Component))
    BY DEF CollapseInv, IdInv, Parts
  <2>2. circuit[content] \in Seq(Component)
    BY <1>1, <2>1
  <2>. QED  BY <1>1, <2>2
<1>3. r \in Listing /\ r.instance = c.name /\ r.kind = "none" /\ r.weight = 0
  <2>1. c.name \in Name /\ c.kind \in Kind
    BY <1>2, Parameters
  <2>2. -1 \in Int /\ <<>> \in Seq(Name)
    OBVIOUS
  <2>. HIDE DEF c
  <2>. QED  BY <2>1, <2>2 DEF Listing
<1>. HIDE DEF r
<1>4. details' = [details EXCEPT ![content] = details[content] \o <<r>>]
  <2>1. details[content] \in Seq(Listing)
    BY <1>1 DEF CollapseInv, Typed
  <2>2. Append(details[content], r) = details[content] \o <<r>>
    BY <1>3, <2>1, AppendIsConcat
  <2>. QED  BY <1>1, <2>2
<1>5. /\ <<r>> \in Seq(Listing)
      /\ \A k \in DOMAIN <<r>> : /\ <<r>>[k].instance = c.name /\ <<r>>[k].kind = "none"
                                 /\ <<r>>[k].weight = 0
  BY <1>3
<1>6. Suited(c, <<r>>) /\ Told(c, <<r>>)
  BY <1>5 DEF Suited, Told
<1>. HIDE DEF c
<1>. QED  BY <1>1, <1>4, <1>5, <1>6, CatalogueExtension DEF c

LEMMA CatalogueCollapse ==
  ASSUME CollapseInv, Catalogue, CollapseInstance
  PROVE  Catalogue'
<1>. DEFINE s == details[content]
<1>1. PICK stop \in index .. Len(s) :
        /\ StopsAt(s, index, stop)
        /\ details' = [details EXCEPT ![content] = CollapsedInto(s, Opens(s, index, stop), stop)]
  BY DEF CollapseInstance
<1>. DEFINE t == CollapsedInto(s, Opens(s, index, stop), stop)
<1>2. /\ pc = "collapse" /\ content \in DOMAIN circuit /\ index \in DOMAIN s
      /\ circuit' = circuit
  BY DEF CollapseInstance
<1>3. s \in Seq(Listing) /\ details \in [DOMAIN circuit -> Seq(Listing)]
  BY <1>2 DEF CollapseInv, Typed
<1>4. /\ t \in Seq(Listing) /\ Len(t) = Len(s)
      /\ \A k \in DOMAIN s : Reweighed(s[k], t[k])
  BY <1>1, <1>2, CollapsedTyped
<1>5. /\ details'[content] = t
      /\ \A i \in DOMAIN circuit : i # content => details'[i] = details[i]
  BY <1>1, <1>2, <1>3
<1>6. DOMAIN t = DOMAIN s /\ DOMAIN s \subseteq Int
  <2>. HIDE DEF t
  <2>. QED  BY <1>3, <1>4
<1>. HIDE DEF t
<1>7. ASSUME NEW c  PROVE Moved(c, s, t, 0)
  <2>. HIDE DEF s
  <2>1. \A k \in DOMAIN t : k - 0 = k /\ k \in Int /\ k \in DOMAIN s
    BY <1>6
  <2>. QED  BY <1>4, <2>1 DEF Moved, Reweighed
<1>8. ASSUME NEW c, Suited(c, s), Told(c, s)  PROVE Suited(c, t) /\ Told(c, t)
  BY <1>7, <1>8, SuitedLater, ToldLater
<1>. QED  BY <1>2, <1>5, <1>8 DEF Catalogue

LEMMA CatalogueInit == Init => Catalogue
<1>1. Init => \A i \in DOMAIN circuit : details[i] = <<>>
  BY DEF Init
<1>. QED  BY <1>1 DEF Catalogue, Suited, Told

LEMMA CatalogueNext == CollapseInv /\ Catalogue /\ [Next]_vars => Catalogue'
<1>. SUFFICES ASSUME CollapseInv, Catalogue, [Next]_vars  PROVE Catalogue'
  OBVIOUS
<1>. DEFINE c == circuit[content][index]
<1>1. ASSUME NEW kinds, Turn(kinds)
      PROVE  c \in Component /\ c.kind \in kinds
  <2>1. content \in DOMAIN circuit /\ index \in DOMAIN circuit[content] /\ c.kind \in kinds
    BY <1>1 DEF Turn
  <2>2. circuit \in Seq(Seq(Component))
    BY DEF CollapseInv, IdInv, Parts
  <2>3. circuit[content] \in Seq(Component)
    BY <2>1, <2>2
  <2>. QED  BY <2>1, <2>3
<1>2. CASE AnalyseDipole
  <2>1. /\ c \in Component /\ c.kind \in Dipole /\ Turn(Dipole) /\ List(c, DipoleDefects(c))
        /\ Numeric(c) /\ Wired(c)
    BY <1>1, <1>2 DEF AnalyseDipole
  <2>. HIDE DEF c
  <2>2. DipoleDefects(c) \in Seq(Template(c)) /\ Terminals(c.kind) = 2
    BY <2>1, OpensOfDipole DEF Terminals, Dipole
  <2>3. Distinct(c.nodes) /\ Distinct(ParamsOf(c)) => Apart(DipoleDefects(c))
    BY <2>1, <2>2, TwoTerminalsApart DEF DipoleDefects
  <2>. QED  BY <2>1, <2>2, <2>3, CatalogueList DEF c
<1>3. CASE AnalyseDiode
  <2>1. /\ c \in Component /\ c.kind = "diode" /\ Turn({"diode"}) /\ List(c, DiodeDefects(c))
        /\ Numeric(c) /\ Wired(c) /\ Complete(c)
    BY <1>1, <1>3 DEF AnalyseDiode
  <2>. HIDE DEF c
  <2>2. DiodeDefects(c) \in Seq(Template(c)) /\ Terminals(c.kind) = 2
    BY <2>1, OpensOfDiode DEF Terminals
  <2>3. Distinct(c.nodes) /\ Distinct(ParamsOf(c)) => Apart(DiodeDefects(c))
    BY <2>1, <2>2, TwoTerminalsApart DEF DiodeDefects
  <2>. QED  BY <2>1, <2>2, <2>3, CatalogueList DEF c
<1>4. CASE AnalyseMosfet
  <2>1. /\ c \in Component /\ c.kind = "mosfet" /\ Turn({"mosfet"}) /\ List(c, MosfetDefects(c))
        /\ Numeric(c) /\ Wired(c) /\ Complete(c)
    BY <1>1, <1>4 DEF AnalyseMosfet
  <2>. HIDE DEF c
  <2>2. /\ MosfetDefects(c) \in Seq(Template(c))
        /\ Distinct(c.nodes) /\ Distinct(ParamsOf(c)) => Apart(MosfetDefects(c))
    BY <2>1, TransistorTemplates, TransistorApart
  <2>. QED  BY <2>1, <2>2, CatalogueList DEF c
<1>5. CASE AnalyseSource
  BY <1>5, CatalogueSource
<1>6. CASE CollapseInstance
  BY <1>6, CatalogueCollapse
<1>7. CASE MergeContent
  <2>1. \A i \in DOMAIN circuit : details[i] = <<>>
    BY <1>7 DEF MergeContent, CollapseInv, Order, InTurn
  <2>2. details' = details /\ DOMAIN circuit' = DOMAIN circuit
    <3>1. PICK s : circuit' = [circuit EXCEPT ![content] = s]
      BY <1>7 DEF MergeContent
    <3>2. circuit \in Seq(Seq(Component))
      BY DEF CollapseInv, IdInv, Parts
    <3>. QED  BY <1>7, <3>1, <3>2 DEF MergeContent
  <2>. QED  BY <2>1, <2>2 DEF Catalogue, Suited, Told
<1>8. CASE UNCHANGED <<circuit, details>>
  BY <1>8 DEF Catalogue
<1>. QED  BY <1>2, <1>3, <1>4, <1>5, <1>6, <1>7, <1>8
         DEF Next, vars, Optimise, Analyse, Collapse, MergeDone, IgnoreIncomplete,
             AnalyseOther, AnalysisRaises, NextContent, AnalysisDone, CollapseDeclined,
             CollapseNextContent, Generate

-----------------------------------------------------------------------------
(* The netlist, and how far the circuit has been merged.                   *)
Parsed ==
  /\ netlist \in Seq(Seq(Component)) /\ DOMAIN netlist = DOMAIN circuit
  /\ \A n, m \in DOMAIN netlist : \A i \in DOMAIN netlist[n], j \in DOMAIN netlist[m] :
       /\ netlist[n][i].name = netlist[m][j].name => n = m /\ i = j
       /\ LET a == Address(netlist[n][i].name)  b == Address(netlist[m][j].name)
          IN  a[1] = b[1] /\ a[2] = b[2] => n = m /\ i = j

Drift ==
  pc # "raised" =>
    \A i \in DOMAIN circuit :
      IF manifest.merge /\ (pc = "merge" => i < content)
      THEN \A p \in DOMAIN circuit[i] : \E q \in DOMAIN netlist[i] : circuit[i][p] = Merged(netlist[i], q)
      ELSE circuit[i] = netlist[i]

LEMMA NetlistInit == InitInjection => Parsed /\ Drift
<1>. SUFFICES ASSUME InitInjection  PROVE Parsed /\ Drift
  OBVIOUS
<1>1. netlist = circuit /\ circuit \in Circuits /\ content = 1 /\ pc = "merge"
  BY DEF InitInjection, Init
<1>2. circuit \in Seq(Seq(Component))
  BY <1>1, DefectUniverseAssumption
<1>3. \A i \in DOMAIN circuit : ~ (i < 1)
  BY <1>2
<1>4. \A n, m \in DOMAIN netlist : \A i \in DOMAIN netlist[n], j \in DOMAIN netlist[m] :
        netlist[n][i].name = netlist[m][j].name => n = m /\ i = j
  BY <1>1, DefectUniverseAssumption
<1>5. ASSUME NEW n \in DOMAIN netlist, NEW m \in DOMAIN netlist,
             NEW i \in DOMAIN netlist[n], NEW j \in DOMAIN netlist[m],
             Address(netlist[n][i].name)[1] = Address(netlist[m][j].name)[1],
             Address(netlist[n][i].name)[2] = Address(netlist[m][j].name)[2]
      PROVE  n = m /\ i = j
  <2>1. netlist[n][i].name = netlist[m][j].name
    BY <1>1, <1>5, InjectionAssumption
  <2>. QED  BY <1>4, <2>1
<1>6. Parsed
  BY <1>1, <1>2, <1>4, <1>5 DEF Parsed
<1>. QED  BY <1>1, <1>3, <1>6 DEF Drift

LEMMA NetlistNext ==
  ASSUME CollapseInv, Parsed, Drift, [Next]_vars, netlist' = netlist
  PROVE  Parsed' /\ Drift'
<1>1. circuit \in Seq(Seq(Component)) /\ content \in Nat /\ \A i \in DOMAIN circuit : i \in Nat
  <2>1. circuit \in Seq(Seq(Component))
    BY DEF CollapseInv, IdInv, Parts
  <2>. QED  BY <2>1 DEF CollapseInv, Kept, Progress
<1>2. CASE MergeContent
  <2>. DEFINE s == circuit[content]
  <2>1. PICK first \in InOrder(FirstTwins(s)) :
          circuit' = [circuit EXCEPT ![content] = [k \in DOMAIN first |-> Merged(s, first[k])]]
    BY <1>2 DEF MergeContent
  <2>2. /\ pc = "merge" /\ pc' = pc /\ manifest.merge /\ manifest' = manifest
        /\ content' = content + 1 /\ content \in DOMAIN circuit
    BY <1>2 DEF MergeContent
  <2>3. s = netlist[content]
    BY <1>1, <2>2 DEF Drift
  <2>4. DOMAIN circuit' = DOMAIN circuit
    BY <1>1, <2>1
  <2>5. first \in [1 .. Cardinality(FirstTwins(s)) -> FirstTwins(s)] /\ FirstTwins(s) \subseteq DOMAIN s
    BY DEF InOrder, FirstTwins
  <2>6. \A k \in DOMAIN first : first[k] \in DOMAIN s
    BY <2>5
  <2>7. circuit'[content] = [k \in DOMAIN first |-> Merged(s, first[k])]
    BY <1>1, <2>1, <2>2
  <2>8. \A i \in DOMAIN circuit : i # content => circuit'[i] = circuit[i]
    BY <1>1, <2>1
  <2>9. ASSUME NEW i \in DOMAIN circuit
        PROVE  IF i < content + 1
               THEN \A p \in DOMAIN circuit'[i] : \E q \in DOMAIN netlist[i] :
                      circuit'[i][p] = Merged(netlist[i], q)
               ELSE circuit'[i] = netlist[i]
    <3>1. CASE i = content
      <4>1. i < content + 1
        BY <1>1, <3>1
      <4>. QED  BY <2>3, <2>6, <2>7, <3>1, <4>1
    <3>2. CASE i # content
      <4>1. i < content + 1 <=> i < content
        BY <1>1, <3>2
      <4>. QED  BY <2>2, <2>8, <3>2, <4>1 DEF Drift
    <3>. QED  BY <3>1, <3>2
  <2>10. Drift'
    BY <2>2, <2>4, <2>9 DEF Drift
  <2>11. Parsed'
    BY <2>4 DEF Parsed
  <2>. QED  BY <2>10, <2>11
<1>3. CASE MergeDone
  <2>1. /\ UNCHANGED <<circuit, manifest>> /\ pc = "merge" /\ pc' = "analyse"
        /\ manifest.merge => content \notin DOMAIN circuit
    BY <1>3 DEF MergeDone
  <2>2. manifest.merge => \A i \in DOMAIN circuit : i < content
    <3>1. /\ Len(circuit) \in Nat /\ DOMAIN circuit = 1 .. Len(circuit) /\ content \in Nat \ {0}
      BY <1>1 DEF CollapseInv, Kept, Progress
    <3>. QED  BY <2>1, <3>1
  <2>. QED  BY <2>1, <2>2 DEF Drift, Parsed
<1>4. CASE UNCHANGED <<circuit, manifest>> /\ pc # "merge" /\ pc # "raised" /\ pc' # "merge"
  BY <1>4 DEF Drift, Parsed
<1>5. CASE UNCHANGED circuit /\ pc' = "raised"
  BY <1>5 DEF Drift, Parsed
<1>6. CASE UNCHANGED vars
  BY <1>6 DEF vars, Drift, Parsed
<1>. QED  BY <1>2, <1>3, <1>4, <1>5, <1>6
         DEF Next, Optimise, Analyse, Collapse, IgnoreIncomplete, Turn, List,
             AnalyseDipole, AnalyseDiode, AnalyseMosfet, AnalyseSource, CollapseInstance,
             AnalyseOther, AnalysisRaises, NextContent, AnalysisDone, CollapseDeclined,
             CollapseNextContent, Generate

-----------------------------------------------------------------------------
(* Every defect of the universe is of a component of the netlist.          *)
Adjustable(c, d) ==
  d.kind = "parametric" =>
    \A j \in DOMAIN c.params : c.params[j].name = d.subject[1] => c.params[j].value \in Nat

Sited(c, d) ==
  c.name = d.instance /\ d.kind # "none" /\ Suits(c, d) /\ Adjustable(c, d)

LEMMA FromSuits ==
  ASSUME NEW e \in Component, NEW c, From(e, c), NEW d, d.weight # 0, Suits(e, d), Numeric(e)
  PROVE  Suits(c, d) /\ Adjustable(c, d)
<1>1. e.kind = c.kind /\ e.nodes = c.nodes
  BY DEF From
<1>2. CASE d.kind # "parametric"
  BY <1>1, <1>2 DEF Suits, Adjustable
<1>3. CASE d.kind = "parametric"
  <2>1. PICK i \in DOMAIN e.params : d.subject = <<e.params[i].name>> /\ e.params[i].name \in Target[e.kind]
    BY <1>3 DEF Suits
  <2>2. e.params[i].name # "m"
    <3>1. e.kind \in Kind
      BY Parameters
    <3>2. \A k \in Kind : "m" \notin Target[k]
      BY DEF Target, Kind, Dipole, Source
    <3>. QED  BY <2>1, <3>1, <3>2
  <2>3. i \in DOMAIN c.params /\ c.params[i].name = e.params[i].name
    BY <2>2 DEF From
  <2>4. Suits(c, d)
    BY <1>1, <1>3, <2>1, <2>3 DEF Suits
  <2>5. d.subject[1] # "m"
    BY <2>1, <2>2
  <2>6. ASSUME NEW j \in DOMAIN c.params, c.params[j].name # "m"
        PROVE  c.params[j].value \in Nat
    <3>1. j \in DOMAIN e.params /\ e.params[j].value = c.params[j].value
      BY <2>6 DEF From
    <3>2. e.params[j].value \in Value /\ e.params[j].value # Symbolic
      BY <3>1, Parameters DEF Numeric
    <3>. QED  BY <3>1, <3>2 DEF Value
  <2>7. Adjustable(c, d)
    BY <2>5, <2>6 DEF Adjustable
  <2>. QED  BY <2>4, <2>7
<1>. QED  BY <1>2, <1>3

LEMMA Sites ==
  ASSUME CollapseInv, Parsed, Drift, Catalogue, pc = "done", NEW d \in universe
  PROVE  \E i \in DOMAIN netlist : \E q \in DOMAIN netlist[i] : Sited(netlist[i][q], d)
<1>1. Order /\ universe = {e \in AllDetails : e.weight > 0} /\ circuit \in Seq(Seq(Component))
  BY DEF CollapseInv, Kept, Drawn, IdInv, Parts
<1>2. PICK i \in DOMAIN circuit : \E k \in DOMAIN details[i] : d = details[i][k]
  BY <1>1 DEF AllDetails
<1>3. PICK k \in DOMAIN details[i] : d = details[i][k]
  BY <1>2
<1>4. PICK p \in DOMAIN circuit[i] : Owner(i, k, p)
  BY <1>1 DEF Order, Owned
<1>. DEFINE e == circuit[i][p]
<1>5. e.name = d.instance
  BY <1>3, <1>4 DEF Owner
<1>6. d.weight # 0
  <2>1. d.weight > 0
    BY <1>1
  <2>. QED  BY <2>1
<1>7. d.kind # "none" /\ Suits(e, d) /\ Numeric(e)
  BY <1>3, <1>5, <1>6 DEF Catalogue, Suited
<1>8. e \in Component
  <2>1. circuit[i] \in Seq(Component)
    BY <1>1
  <2>. QED  BY <2>1
<1>9. i \in DOMAIN netlist /\ netlist[i] \in Seq(Component)
  BY DEF Parsed
<1>. HIDE DEF e
<1>10. \E q \in DOMAIN netlist[i] : From(e, netlist[i][q])
  <2>1. CASE circuit[i] = netlist[i]
    BY <2>1, FromItself DEF e
  <2>2. CASE \E q \in DOMAIN netlist[i] : e = Merged(netlist[i], q)
    BY <1>9, <2>2, FromMerged
  <2>. QED  BY <2>1, <2>2 DEF Drift, e
<1>11. PICK q \in DOMAIN netlist[i] : From(e, netlist[i][q])
  BY <1>10
<1>12. Suits(netlist[i][q], d) /\ Adjustable(netlist[i][q], d)
  BY <1>6, <1>7, <1>8, <1>11, FromSuits
<1>13. netlist[i][q].name = d.instance
  BY <1>5, <1>11 DEF From
<1>. QED  BY <1>7, <1>9, <1>12, <1>13 DEF Sited

(* What suits a component fits it.                                         *)
LEMMA SuitsFits ==
  ASSUME NEW c \in Component, NEW d, Suits(c, d)
  PROVE  Fits(d, c)
<1>1. ASSUME IsOpenGate(d)  PROVE Len(c.nodes) > 1 /\ c.nodes[2] = d.subject[2]
  <2>1. \A x : Len(<<x>>) # 3
    OBVIOUS
  <2>2. d.subject = <<c.nodes[1], c.nodes[2], c.nodes[3]>> /\ Len(c.nodes) >= 4
    BY <1>1, <2>1 DEF IsOpenGate, Suits
  <2>3. Len(c.nodes) \in Nat
    BY DEF Component
  <2>. QED  BY <2>2, <2>3
<1>2. ASSUME d.kind = "parametric"  PROVE Has(c, d.subject[1])
  BY <1>2 DEF Suits, Has
<1>3. CASE IsOpenGate(d)
  BY <1>1, <1>3 DEF Fits, IsOpenGate
<1>4. CASE ~ IsOpenGate(d)
  BY <1>2, <1>4 DEF Fits
<1>. QED  BY <1>3, <1>4

(* A name without dots leads to its own component, and nowhere else.       *)
LEMMA OneSite ==
  ASSUME CollapseInv, Parsed, Drift, Catalogue, NEW d \in universe, pc = "done", Undotted(d.instance)
  PROVE  \E i \in DOMAIN netlist : \E q \in DOMAIN netlist[i] :
           /\ Sited(netlist[i][q], d) /\ Places(d.instance) = {<<i, q>>}
           /\ netlist[i][q] \in Component /\ netlist[i] \in Seq(Component)
<1>1. PICK i \in DOMAIN netlist : \E q \in DOMAIN netlist[i] : Sited(netlist[i][q], d)
  BY Sites
<1>2. PICK q \in DOMAIN netlist[i] : Sited(netlist[i][q], d)
  BY <1>1
<1>3. netlist \in Seq(Seq(Component)) /\ netlist[i] \in Seq(Component)
  BY DEF Parsed
<1>4. i \in Nat /\ q \in Nat /\ netlist[i][q].name = d.instance
  BY <1>2, <1>3 DEF Sited
<1>. DEFINE scope == Split(d.instance)[1]
            all == UNION {{<<j, k>> : k \in DOMAIN netlist[j]} : j \in DOMAIN netlist}
            hits == {p \in all : LET address == Address(netlist[p[1]][p[2]].name) IN
                                  /\ address[2] = Split(d.instance)[2]
                                  /\ scope \in Subcircuits => address[1] = scope}
<1>5. Split(d.instance) = Address(d.instance) /\ scope \in Subcircuits
  BY DEF Undotted
<1>6. hits = {<<i, q>>}
  <2>1. <<i, q>> \in hits
    BY <1>4, <1>5
  <2>2. ASSUME NEW p \in hits  PROVE p = <<i, q>>
    <3>1. PICK j \in DOMAIN netlist : \E k \in DOMAIN netlist[j] : p = <<j, k>>
      BY <2>2
    <3>2. PICK k \in DOMAIN netlist[j] : p = <<j, k>>
      BY <3>1
    <3>3. /\ Address(netlist[j][k].name)[1] = Address(netlist[i][q].name)[1]
          /\ Address(netlist[j][k].name)[2] = Address(netlist[i][q].name)[2]
      BY <1>4, <1>5, <2>2, <3>2
    <3>4. j = i /\ k = q
      BY <3>3 DEF Parsed
    <3>. QED  BY <3>2, <3>4
  <2>. QED  BY <2>1, <2>2
<1>7. Places(d.instance) = {p \in hits : \A h \in hits : p[1] < h[1] \/ (p[1] = h[1] /\ p[2] <= h[2])}
  BY DEF Places
<1>. HIDE DEF hits
<1>8. Places(d.instance) = {<<i, q>>}
  BY <1>4, <1>6, <1>7
<1>. QED  BY <1>2, <1>3, <1>8

-----------------------------------------------------------------------------
(* The injection: once, into the netlist as it is, of a defect that is not *)
(* refused.                                                                *)
Hit ==
  /\ outcome \in {"none", "ok", "raised"}
  /\ outcome # "none" => pc = "done" /\ target \in universe
  /\ outcome = "ok" =>
       /\ ~ Refused(target)
       /\ \E p \in Places(target.instance) : defected = Defected(target, p)
  /\ outcome = "raised" /\ Undotted(target.instance) => Refused(target)

InjectionInv == CollapseInv /\ Parsed /\ Drift /\ Catalogue /\ Hit

LEMMA HitSame ==
  ASSUME Hit, UNCHANGED <<vars, injection>>
  PROVE  Hit'
<1>1. \A instance : Places(instance)' = Places(instance)
  BY DEF Places, injection
<1>2. \A d : IsMin(d)' = IsMin(d)
  BY DEF IsMin, AllDetails, vars
<1>3. \A d, p : Defected(d, p)' = Defected(d, p)
  BY <1>2 DEF Defected, Injected, injection
<1>4. Refused(target)' = Refused(target) /\ Undotted(target.instance)' = Undotted(target.instance)
  BY DEF Refused, Undotted, injection
<1>. QED  BY <1>1, <1>3, <1>4 DEF Hit, vars, injection

LEMMA HitInject ==
  ASSUME CollapseInv, Parsed, Drift, Catalogue, Hit, Inject
  PROVE  Hit'
<1>1. PICK d \in universe :
        LET sites == {p \in Places(d.instance) : Fits(d, netlist[p[1]][p[2]])} IN
        /\ target' = d
        /\ \/ /\ Refused(d) \/ sites = {}
              /\ outcome' = "raised" /\ defected' = defected
           \/ /\ ~ Refused(d)
              /\ outcome' = "ok" /\ \E p \in sites : defected' = Defected(d, p)
  BY DEF Inject
<1>. DEFINE sites == {p \in Places(d.instance) : Fits(d, netlist[p[1]][p[2]])}
<1>2. pc = "done" /\ UNCHANGED <<vars, netlist>>
  BY DEF Inject
<1>3. ASSUME Undotted(d.instance)  PROVE sites # {}
  <2>1. PICK i \in DOMAIN netlist : \E q \in DOMAIN netlist[i] :
           /\ Sited(netlist[i][q], d) /\ Places(d.instance) = {<<i, q>>}
           /\ netlist[i][q] \in Component /\ netlist[i] \in Seq(Component)
    BY <1>2, <1>3, OneSite
  <2>2. PICK q \in DOMAIN netlist[i] : /\ Sited(netlist[i][q], d) /\ Places(d.instance) = {<<i, q>>}
                                       /\ netlist[i][q] \in Component
    BY <2>1
  <2>3. Fits(d, netlist[i][q])
    BY <2>2, SuitsFits DEF Sited
  <2>4. <<i, q>> \in sites
    BY <2>2, <2>3
  <2>. QED  BY <2>4
<1>4. Places(d.instance)' = Places(d.instance)
  BY <1>2 DEF Places
<1>5. IsMin(d)' = IsMin(d)
  BY <1>2 DEF IsMin, AllDetails, vars
<1>6. \A p : Defected(d, p)' = Defected(d, p)
  BY <1>2, <1>5 DEF Defected, Injected
<1>7. target' = d /\ d \in universe' /\ pc' = "done"
  BY <1>1, <1>2 DEF vars
<1>8. Refused(target)' = Refused(d) /\ Undotted(target.instance)' = Undotted(d.instance)
  BY <1>7 DEF Refused, Undotted
<1>9. CASE outcome' = "raised"
  <2>1. Refused(d) \/ sites = {}
    BY <1>1, <1>9
  <2>2. Undotted(d.instance) => Refused(d)
    BY <1>3, <2>1
  <2>. QED  BY <1>7, <1>8, <1>9, <2>2 DEF Hit
<1>10. CASE outcome' = "ok"
  <2>1. ~ Refused(d) /\ \E p \in Places(d.instance) : defected' = Defected(d, p)
    BY <1>1, <1>10
  <2>2. \E p \in Places(target.instance)' : defected' = Defected(target, p)'
    BY <1>4, <1>6, <1>7, <2>1
  <2>. QED  BY <1>7, <1>8, <1>10, <2>1, <2>2 DEF Hit
<1>. QED  BY <1>1, <1>9, <1>10

LEMMA InjectionInvInit == InitInjection => InjectionInv
<1>. SUFFICES ASSUME InitInjection  PROVE InjectionInv
  OBVIOUS
<1>1. Init
  BY DEF InitInjection
<1>2. IdInv /\ Order /\ Typed /\ Kept
  BY <1>1, IdInit, OrderInit, KeptInit
<1>3. Hit
  BY DEF InitInjection, Hit
<1>. QED  BY <1>1, <1>2, <1>3, CatalogueInit, NetlistInit DEF InjectionInv, CollapseInv

LEMMA InjectionInvNext == InjectionInv /\ [NextInjection]_allVars => InjectionInv'
<1>. SUFFICES ASSUME InjectionInv, [NextInjection]_allVars  PROVE InjectionInv'
  OBVIOUS
<1>1. [Next]_vars /\ netlist' = netlist
  BY InjectionStep DEF NextInjection, Inject, allVars, injection
<1>2. CollapseInv'
  BY <1>1, IdNext, OrderNext, KeptNext DEF CollapseInv, InjectionInv
<1>3. Parsed' /\ Drift' /\ Catalogue'
  BY <1>1, NetlistNext, CatalogueNext DEF InjectionInv
<1>4. Hit'
  <2>1. CASE Inject
    BY <2>1, HitInject DEF InjectionInv
  <2>2. CASE Next /\ UNCHANGED injection
    <3>1. pc # "done"
      BY <2>2 DEF Next, Optimise, Analyse, Collapse, MergeContent, MergeDone, Turn,
                  AnalyseDipole, AnalyseMosfet, AnalyseDiode, IgnoreIncomplete, AnalyseSource,
                  AnalyseOther, AnalysisRaises, NextContent, AnalysisDone, CollapseDeclined,
                  CollapseInstance, CollapseNextContent, Generate
    <3>2. outcome = "none" /\ outcome' = "none"
      BY <2>2, <3>1 DEF InjectionInv, Hit, injection
    <3>. QED  BY <3>2 DEF Hit
  <2>3. CASE UNCHANGED allVars
    BY <2>3, HitSame DEF InjectionInv, allVars
  <2>. QED  BY <2>1, <2>2, <2>3 DEF NextInjection
<1>. QED  BY <1>2, <1>3, <1>4 DEF InjectionInv

(* The inductive invariant: the universe's, and how the universe, the      *)
(* merged circuit, the netlist and what was injected go together.          *)
THEOREM InjectionInvariant == SpecInjection => []InjectionInv
<1>1. InitInjection => InjectionInv
  BY InjectionInvInit
<1>2. InjectionInv /\ [NextInjection]_<<vars, injection>> => InjectionInv'
  BY InjectionInvNext DEF allVars
<1>. QED  BY <1>1, <1>2, PTL DEF SpecInjection

(* Of a component without dots in its names, inject refuses the shorts and *)
(* opens if it has the name of a subcircuit and no defect else, although   *)
(* the universe is that of the merged circuit and the netlist is parsed    *)
(* anew: inject finds the one component of the name, a parameter of the    *)
(* name and the gate where it was.                                         *)
THEOREM OthersFindTheirPlace == SpecInjection => []OnlyNamesakesAreRefused
<1>1. InjectionInv => OnlyNamesakesAreRefused
  <2>. SUFFICES ASSUME InjectionInv, outcome # "none", Undotted(target.instance)
                PROVE  outcome = "raised" <=>
                         target.kind # "parametric" /\ Address(target.instance)[2] \in Subcircuits
    BY DEF OnlyNamesakesAreRefused
  <2>1. Refused(target) <=>
          target.kind # "parametric" /\ Address(target.instance)[2] \in Subcircuits
    BY DEF Refused, Undotted
  <2>2. outcome = "raised" <=> Refused(target)
    BY DEF InjectionInv, Hit
  <2>. QED  BY <2>1, <2>2
<1>. QED  BY <1>1, InjectionInvariant, PTL

-----------------------------------------------------------------------------
(* Where the defect is, and what has become of the circuit.                *)
Struck(i, q) ==
  /\ i \in DOMAIN netlist /\ q \in DOMAIN netlist[i]
  /\ netlist[i][q] \in Component /\ netlist[i] \in Seq(Component)
  /\ Places(target.instance) = {<<i, q>>}
  /\ Sited(netlist[i][q], target)
  /\ defected = Defected(target, <<i, q>>)

LEMMA Strike ==
  ASSUME InjectionInv, outcome = "ok", Undotted(target.instance)
  PROVE  pc = "done" /\ target \in universe
         /\ \E i \in DOMAIN netlist : \E q \in DOMAIN netlist[i] : Struck(i, q)
<1>1. /\ target \in universe /\ pc = "done"
      /\ \E p \in Places(target.instance) : defected = Defected(target, p)
  BY DEF InjectionInv, Hit
<1>2. PICK i \in DOMAIN netlist : \E q \in DOMAIN netlist[i] :
           /\ Sited(netlist[i][q], target) /\ Places(target.instance) = {<<i, q>>}
           /\ netlist[i][q] \in Component /\ netlist[i] \in Seq(Component)
  BY <1>1, OneSite DEF InjectionInv
<1>3. PICK q \in DOMAIN netlist[i] :
           /\ Sited(netlist[i][q], target) /\ Places(target.instance) = {<<i, q>>}
           /\ netlist[i][q] \in Component /\ netlist[i] \in Seq(Component)
  BY <1>2
<1>4. defected = Defected(target, <<i, q>>)
  BY <1>1, <1>3
<1>. QED  BY <1>1, <1>3, <1>4 DEF Struck

(* A component is replaced, and something put after the last.              *)
Altered(s, q, r, z) == [s EXCEPT ![q] = r] \o z

AlteredInto(s, q, r, z, t) ==
  /\ Len(s) \in Nat /\ DOMAIN s = 1 .. Len(s) /\ Len(z) \in Nat
  /\ DOMAIN t = 1 .. Len(s) + Len(z) /\ Len(t) = Len(s) + Len(z)
  /\ t[q] = r
  /\ \A k \in DOMAIN s : k # q => t[k] = s[k]
  /\ \A k \in DOMAIN t : k \notin DOMAIN s => k - Len(s) \in DOMAIN z /\ t[k] = z[k - Len(s)]

LEMMA Beside ==
  ASSUME NEW T, NEW s \in Seq(T), NEW q \in DOMAIN s, NEW r, NEW U, NEW z \in Seq(U),
         NEW t, t = Altered(s, q, r, z)
  PROVE  AlteredInto(s, q, r, z, t)
<1>. DEFINE u == [s EXCEPT ![q] = r]
            V == T \cup {r} \cup U
<1>1. u \in Seq(T \cup {r}) /\ Len(u) = Len(s) /\ DOMAIN u = DOMAIN s /\ u[q] = r
      /\ \A k \in DOMAIN s : k # q => u[k] = s[k]
  <2>1. /\ Len(s) \in Nat /\ DOMAIN s = 1 .. Len(s) /\ \A k \in DOMAIN s : s[k] \in T
    OBVIOUS
  <2>2. DOMAIN u = DOMAIN s /\ u[q] = r /\ \A k \in DOMAIN s : k # q => u[k] = s[k]
    OBVIOUS
  <2>3. u = [k \in 1 .. Len(s) |-> u[k]]
    BY <2>1, <2>2
  <2>. HIDE DEF u
  <2>4. \A k \in 1 .. Len(s) : u[k] \in T \cup {r}
    BY <2>1, <2>2
  <2>5. u \in Seq(T \cup {r})
    BY <2>1, <2>3, <2>4, IsASeq
  <2>6. Len(u) = Len(s)
    BY <2>1, <2>2, <2>5
  <2>. QED  BY <2>2, <2>5, <2>6
<1>. DEFINE w == u \o z
<1>2. t = w
  BY DEF Altered
<1>. HIDE DEF u, V
<1>3. u \in Seq(V) /\ z \in Seq(V)
  <2>1. T \cup {r} \subseteq V /\ U \subseteq V
    BY DEF V
  <2>. QED  BY <1>1, <2>1, SeqMonotonic
<1>4. /\ Len(u) \in Nat /\ Len(z) \in Nat
      /\ DOMAIN w = 1 .. Len(u) + Len(z) /\ Len(w) = Len(u) + Len(z)
      /\ \A k \in DOMAIN u : w[k] = u[k]
      /\ \A k \in DOMAIN w : \/ k \in DOMAIN u
                             \/ k > Len(u) /\ k - Len(u) \in DOMAIN z /\ w[k] = z[k - Len(u)]
  <2>1. w = u \o z
    OBVIOUS
  <2>. HIDE DEF w
  <2>. QED  BY <1>3, <2>1, JoinedListing
<1>. HIDE DEF w
<1>5. Len(t) = Len(s) + Len(z) /\ DOMAIN t = 1 .. Len(s) + Len(z)
  BY <1>1, <1>2, <1>4
<1>6. Len(s) \in Nat /\ DOMAIN s = 1 .. Len(s)
  OBVIOUS
<1>. QED  BY <1>1, <1>2, <1>4, <1>5, <1>6 DEF AlteredInto

-----------------------------------------------------------------------------
(* Opens: a net of the component gets another name, and back.              *)
LEMMA CutNetIsANode ==
  ASSUME NEW c \in Component, NEW d, Suits(c, d), d.kind = "open"
  PROVE  \E j \in DOMAIN c.nodes : c.nodes[j] = CutNet(d)
<1>1. \A x : Len(<<x>>) = 1 /\ <<x>>[1] = x
  OBVIOUS
<1>2. \A x, y, z : Len(<<x, y, z>>) = 3 /\ <<x, y, z>>[2] = y
  OBVIOUS
<1>3. CASE \E i \in DOMAIN c.nodes : d.subject = <<c.nodes[i]>>
  <2>1. PICK i \in DOMAIN c.nodes : d.subject = <<c.nodes[i]>>
    BY <1>3
  <2>2. CutNet(d) = c.nodes[i]
    <3>1. Len(d.subject) = 1 /\ d.subject[1] = c.nodes[i]
      BY <1>1, <2>1
    <3>. QED  BY <3>1 DEF CutNet, IsOpenGate
  <2>. QED  BY <2>2
<1>4. CASE Len(c.nodes) >= 4 /\ d.subject = <<c.nodes[1], c.nodes[2], c.nodes[3]>>
  <2>1. CutNet(d) = c.nodes[2]
    <3>1. Len(d.subject) = 3 /\ d.subject[2] = c.nodes[2]
      BY <1>2, <1>4
    <3>. QED  BY <3>1 DEF CutNet, IsOpenGate
  <2>2. 2 \in DOMAIN c.nodes
    BY <1>4, Parameters
  <2>. QED  BY <2>1, <2>2
<1>. QED  BY <1>3, <1>4 DEF Suits

LEMMA OpenedComponent ==
  ASSUME NEW d, d.kind = "open", NEW c
  PROVE  \E m, x : /\ Injected(d, c) = <<Renamed(c, CutNet(d), Opened(CutNet(d))), <<Instance(m, x)>> >>
                   /\ \E j \in DOMAIN x : x[j] = Opened(CutNet(d))
<1>1. CASE IsOpenGate(d)
  <2>. DEFINE n == d.subject
              x == <<n[1], Opened(n[2]), n[3]>>
  <2>1. Injected(d, c) = <<Renamed(c, n[2], Opened(n[2])), <<Instance("open_gate_model", x)>> >>
    BY <1>1 DEF Injected
  <2>2. CutNet(d) = n[2]
    BY <1>1 DEF CutNet
  <2>3. 2 \in DOMAIN x /\ x[2] = Opened(n[2])
    OBVIOUS
  <2>. HIDE DEF x, n
  <2>. QED  BY <2>1, <2>2, <2>3
<1>2. CASE ~ IsOpenGate(d)
  <2>. DEFINE n == d.subject
              x == <<Opened(n[1]), n[1]>>
  <2>1. Injected(d, c) = <<Renamed(c, n[1], Opened(n[1])), <<Instance("open_model", x)>> >>
    BY <1>2 DEF Injected
  <2>2. CutNet(d) = n[1]
    BY <1>2 DEF CutNet
  <2>3. 1 \in DOMAIN x /\ x[1] = Opened(n[1])
    OBVIOUS
  <2>. HIDE DEF x, n
  <2>. QED  BY <2>1, <2>2, <2>3
<1>. QED  BY <1>1, <1>2

(* A component, whatever its nets are called.                              *)
Renameable(N) ==
  [name : Name, kind : Kind, master : Name, nodes : Seq(N), params : Seq([name : Name, value : Value])]

LEMMA RenamedParts ==
  ASSUME NEW N, NEW c \in Renameable(N), NEW old, NEW new, old \notin {c.params[j].name : j \in DOMAIN c.params}
  PROVE  LET r == Renamed(c, old, new) IN
         /\ r.name = c.name /\ r.kind = c.kind /\ r.master = c.master /\ r.params = c.params
         /\ r.nodes = [k \in DOMAIN c.nodes |-> IF c.nodes[k] = old THEN new ELSE c.nodes[k]]
         /\ r = [name |-> c.name, kind |-> c.kind, master |-> c.master, nodes |-> r.nodes,
                 params |-> c.params]
<1>. DEFINE P == [name : Name, value : Value]
            to(n) == IF n = old THEN new ELSE n
            q == [k \in DOMAIN c.params |-> [name |-> to(c.params[k].name), value |-> c.params[k].value]]
            x == [k \in DOMAIN c.nodes |-> to(c.nodes[k])]
<1>1. Renamed(c, old, new) = [[c EXCEPT !.nodes = x] EXCEPT !.params = q]
  BY DEF Renamed, Renameable
<1>2. c.params \in Seq(P)
  BY DEF Renameable
<1>3. \A p \in P : p.name # old => [name |-> to(p.name), value |-> p.value] = p
  OBVIOUS
<1>4. q = c.params
  <2>. HIDE DEF P
  <2>1. c.params = [k \in DOMAIN c.params |-> c.params[k]] /\ \A k \in DOMAIN c.params : c.params[k] \in P
    BY <1>2
  <2>2. \A k \in DOMAIN c.params :
          [name |-> to(c.params[k].name), value |-> c.params[k].value] = c.params[k]
    BY <1>3, <2>1
  <2>. QED  BY <2>1, <2>2
<1>. HIDE DEF q, x
<1>5. Renamed(c, old, new) = [name |-> c.name, kind |-> c.kind, master |-> c.master, nodes |-> x,
                              params |-> c.params]
  BY <1>1, <1>4 DEF Renameable
<1>. QED  BY <1>5 DEF x

LEMMA RenamedAbsent ==
  ASSUME NEW c \in Component, NEW old, NEW new,
         old \notin {c.params[j].name : j \in DOMAIN c.params},
         old \notin {c.nodes[j] : j \in DOMAIN c.nodes}
  PROVE  Renamed(c, old, new) = c
<1>. DEFINE r == Renamed(c, old, new)
<1>1. c \in Renameable(Name)
  BY DEF Renameable, Component
<1>2. /\ r.nodes = [k \in DOMAIN c.nodes |-> IF c.nodes[k] = old THEN new ELSE c.nodes[k]]
      /\ r = [name |-> c.name, kind |-> c.kind, master |-> c.master, nodes |-> r.nodes,
              params |-> c.params]
  BY <1>1, RenamedParts
<1>. HIDE DEF r
<1>3. c.nodes = [k \in DOMAIN c.nodes |-> c.nodes[k]]
  BY Parameters
<1>4. r.nodes = c.nodes
  BY <1>2, <1>3
<1>. QED  BY <1>2, <1>4 DEF Component, r

LEMMA RenamedBack ==
  ASSUME NEW c \in Component, NEW n, NEW o,
         n \notin {c.params[j].name : j \in DOMAIN c.params},
         o \notin {c.params[j].name : j \in DOMAIN c.params},
         o \notin {c.nodes[j] : j \in DOMAIN c.nodes}
  PROVE  Renamed(Renamed(c, n, o), o, n) = c
<1>. DEFINE r == Renamed(c, n, o)
            b == Renamed(r, o, n)
            N == Name \cup {o}
<1>1. c \in Renameable(Name)
  BY DEF Renameable, Component
<1>2. /\ r.name = c.name /\ r.kind = c.kind /\ r.master = c.master /\ r.params = c.params
      /\ r.nodes = [k \in DOMAIN c.nodes |-> IF c.nodes[k] = n THEN o ELSE c.nodes[k]]
      /\ r = [name |-> c.name, kind |-> c.kind, master |-> c.master, nodes |-> r.nodes,
              params |-> c.params]
  BY <1>1, RenamedParts
<1>. HIDE DEF r
<1>3. r.nodes \in Seq(N)
  <2>1. \A k \in DOMAIN c.nodes : (IF c.nodes[k] = n THEN o ELSE c.nodes[k]) \in N
    BY Parameters
  <2>2. DOMAIN c.nodes = 1 .. Len(c.nodes) /\ Len(c.nodes) \in Nat
    BY Parameters
  <2>. HIDE DEF N
  <2>. QED  BY <1>2, <2>1, <2>2, IsASeq
<1>4. r \in Renameable(N)
  <2>. HIDE DEF N
  <2>1. /\ c.name \in Name /\ c.kind \in Kind /\ c.master \in Name
        /\ c.params \in Seq([name : Name, value : Value])
    BY DEF Component
  <2>. QED  BY <1>2, <1>3, <2>1 DEF Renameable
<1>. HIDE DEF N
<1>5. /\ b.nodes = [k \in DOMAIN r.nodes |-> IF r.nodes[k] = o THEN n ELSE r.nodes[k]]
      /\ b = [name |-> r.name, kind |-> r.kind, master |-> r.master, nodes |-> b.nodes,
              params |-> r.params]
  <2>1. o \notin {r.params[j].name : j \in DOMAIN r.params}
    BY <1>2
  <2>. QED  BY <1>4, <2>1, RenamedParts
<1>. HIDE DEF b
<1>6. b.nodes = c.nodes
  <2>1. c.nodes = [k \in DOMAIN c.nodes |-> c.nodes[k]]
    BY Parameters
  <2>2. DOMAIN r.nodes = DOMAIN c.nodes
        /\ \A k \in DOMAIN c.nodes : r.nodes[k] = IF c.nodes[k] = n THEN o ELSE c.nodes[k]
    BY <1>2
  <2>3. \A k \in DOMAIN c.nodes : (IF r.nodes[k] = o THEN n ELSE r.nodes[k]) = c.nodes[k]
    BY <2>2
  <2>. QED  BY <1>5, <2>1, <2>2, <2>3
<1>7. b = [name |-> c.name, kind |-> c.kind, master |-> c.master, nodes |-> c.nodes,
           params |-> c.params]
  BY <1>2, <1>5, <1>6
<1>. QED  BY <1>7 DEF Component, b, r

(* The subcircuit with an open in component q.                             *)
OpenedAt(i, q, s, n) ==
  /\ n \in {s[q].nodes[j] : j \in DOMAIN s[q].nodes}
  /\ \A j \in DOMAIN netlist \ {i} : defected[j] = netlist[j]
  /\ \E m, x : /\ \E j \in DOMAIN x : x[j] = Opened(n)
               /\ defected[i] = Altered(s, q, Renamed(s[q], n, Opened(n)), <<Instance(m, x)>>)

LEMMA OpenedSubcircuit ==
  ASSUME NEW i, NEW q, Struck(i, q), target.kind = "open",
         NEW s, s = netlist[i], NEW n, n = CutNet(target), netlist \in Seq(Seq(Component))
  PROVE  OpenedAt(i, q, s, n)
<1>. DEFINE c == netlist[i][q]
            d == target
<1>1. /\ i \in DOMAIN netlist /\ q \in DOMAIN s /\ c \in Component /\ s \in Seq(Component)
      /\ Suits(c, d) /\ defected = Defected(d, <<i, q>>)
  BY DEF Struck, Sited
<1>2. PICK m, x : /\ Injected(d, c) = <<Renamed(c, n, Opened(n)), <<Instance(m, x)>> >>
                  /\ \E j \in DOMAIN x : x[j] = Opened(n)
  <2>. HIDE DEF c
  <2>1. \E m, x : /\ Injected(d, c) = <<Renamed(c, CutNet(d), Opened(CutNet(d))), <<Instance(m, x)>> >>
                   /\ \E j \in DOMAIN x : x[j] = Opened(CutNet(d))
    <3>1. d.kind = "open"
      OBVIOUS
    <3>. HIDE DEF d
    <3>. QED  BY <3>1, OpenedComponent
  <2>. QED  BY <2>1
<1>3. defected = [netlist EXCEPT ![i] =
                    [netlist[i] EXCEPT ![q] = Injected(d, c)[1]] \o Injected(d, c)[2]]
  BY <1>1 DEF Defected
<1>4. /\ Injected(d, c)[1] = Renamed(c, n, Opened(n))
      /\ Injected(d, c)[2] = <<Instance(m, x)>>
  BY <1>2
<1>5. n \in {c.nodes[j] : j \in DOMAIN c.nodes}
  BY <1>1, CutNetIsANode
<1>6. \A j \in DOMAIN netlist \ {i} : defected[j] = netlist[j]
  BY <1>3
<1>7. defected[i] = Altered(s, q, Renamed(s[q], n, Opened(n)), <<Instance(m, x)>>)
  BY <1>1, <1>3, <1>4 DEF Altered
<1>. QED  BY <1>2, <1>5, <1>6, <1>7 DEF OpenedAt

LEMMA OpenClosed ==
  ASSUME InjectionInv, NEW i, NEW q, Struck(i, q), target.kind = "open",
         NEW s, s = netlist[i], NEW n, n = CutNet(target),
         Opened(n) \notin NetNames(s) \cup ParamNames(s), n \notin ParamNames(s)
  PROVE  /\ Closed(defected[i], n) = s
         /\ n \notin {defected[i][q].nodes[j] : j \in DOMAIN s[q].nodes}
         /\ \A j \in DOMAIN netlist \ {i} : defected[j] = netlist[j]
<1>. DEFINE c == s[q]
            r == Renamed(c, n, Opened(n))
            t == defected[i]
<1>1. q \in DOMAIN s /\ c \in Component /\ s \in Seq(Component)
  BY DEF Struck
<1>2. netlist \in Seq(Seq(Component))
  BY DEF InjectionInv, Parsed
<1>3. /\ n \in {c.nodes[j] : j \in DOMAIN c.nodes}
      /\ \A j \in DOMAIN netlist \ {i} : defected[j] = netlist[j]
      /\ \E m, x : /\ \E j \in DOMAIN x : x[j] = Opened(n)
                   /\ t = Altered(s, q, r, <<Instance(m, x)>>)
  <2>1. OpenedAt(i, q, s, n)
    BY <1>2, OpenedSubcircuit
  <2>. QED  BY <2>1 DEF OpenedAt
<1>4. PICK m, x : t = Altered(s, q, r, <<Instance(m, x)>>)
  BY <1>3
<1>5. /\ Len(s) \in Nat /\ DOMAIN s = 1 .. Len(s) /\ Len(t) = Len(s) + 1
      /\ t[q] = r
      /\ \A k \in DOMAIN s : k # q => t[k] = s[k]
  <2>. DEFINE z == <<Instance(m, x)>>
              U == {Instance(m, x)}
  <2>1. z \in Seq(U) /\ Len(z) = 1
    OBVIOUS
  <2>2. t = Altered(s, q, r, z)
    BY <1>4
  <2>. HIDE DEF t, r, z, U, c
  <2>3. AlteredInto(s, q, r, z, t)
    BY <1>1, <2>1, <2>2, Beside
  <2>. QED  BY <2>1, <2>3 DEF AlteredInto
<1>. HIDE DEF t
<1>6. ASSUME NEW k \in DOMAIN s
      PROVE  /\ s[k] \in Component
             /\ Opened(n) \notin {s[k].nodes[j] : j \in DOMAIN s[k].nodes}
             /\ Opened(n) \notin {s[k].params[j].name : j \in DOMAIN s[k].params}
             /\ n \notin {s[k].params[j].name : j \in DOMAIN s[k].params}
  BY <1>1 DEF NetNames, ParamNames
<1>7. ASSUME NEW k \in DOMAIN s
      PROVE  Renamed(t[k], Opened(n), n) = s[k]
  <2>1. CASE k = q
    BY <1>1, <1>5, <1>6, <2>1, RenamedBack
  <2>2. CASE k # q
    BY <1>5, <1>6, <2>2, RenamedAbsent
  <2>. QED  BY <2>1, <2>2
<1>8. Closed(t, n) = s
  <2>1. 1 .. Len(t) - 1 = DOMAIN s
    BY <1>5
  <2>2. s = [k \in DOMAIN s |-> s[k]]
    BY <1>1
  <2>. QED  BY <1>7, <2>1, <2>2 DEF Closed
<1>9. n \notin {t[q].nodes[j] : j \in DOMAIN c.nodes}
  <2>1. r.nodes = [k \in DOMAIN c.nodes |-> IF c.nodes[k] = n THEN Opened(n) ELSE c.nodes[k]]
    <3>1. c \in Renameable(Name)
      BY <1>1 DEF Renameable, Component
    <3>2. n \notin {c.params[j].name : j \in DOMAIN c.params}
      BY <1>1, <1>6
    <3>. HIDE DEF c
    <3>. QED  BY <3>1, <3>2, RenamedParts
  <2>2. Opened(n) # n
    BY <1>1, <1>3, <1>6
  <2>. HIDE DEF r, c
  <2>. QED  BY <1>5, <2>1, <2>2
<1>. QED  BY <1>3, <1>8, <1>9 DEF t

(* An open that is closed again leaves the circuit as it was: rename_node  *)
(* changes nothing but the terminal the open is of, where the nets of the  *)
(* component's terminals are different.                                    *)
THEOREM OpensCloseAgain == SpecInjection => []OpensCanBeClosed
<1>1. InjectionInv => OpensCanBeClosed
  <2>. SUFFICES ASSUME InjectionInv, outcome = "ok", target.kind = "open", Undotted(target.instance),
                       NEW p \in Places(target.instance),
                       NEW s, s = netlist[p[1]], NEW n, n = CutNet(target),
                       Opened(n) \notin NetNames(s) \cup ParamNames(s), n \notin ParamNames(s)
                PROVE  /\ Closed(defected[p[1]], n) = s
                       /\ n \notin {defected[p[1]][p[2]].nodes[j] : j \in DOMAIN s[p[2]].nodes}
                       /\ \A i \in DOMAIN netlist \ {p[1]} : defected[i] = netlist[i]
    BY DEF OpensCanBeClosed
  <2>1. PICK i \in DOMAIN netlist : \E q \in DOMAIN netlist[i] : Struck(i, q)
    BY Strike
  <2>2. PICK q \in DOMAIN netlist[i] : Struck(i, q)
    BY <2>1
  <2>3. p[1] = i /\ p[2] = q
    BY <2>2 DEF Struck
  <2>4. s = netlist[i]
    BY <2>3
  <2>. QED  BY <2>2, <2>3, <2>4, OpenClosed
<1>. QED  BY <1>1, InjectionInvariant, PTL

-----------------------------------------------------------------------------
(* A merged component stands for the cards like it; the injection is into  *)
(* one of them.                                                            *)
LEMMA MergedCounts ==
  ASSUME NEW c \in Component, NEW n
  PROVE  Multiplicity(SetMultiplier(c, n)) = n
<1>. DEFINE e == SetMultiplier(c, n)
            k == CHOOSE k \in DOMAIN e.params : e.params[k].name = "m"
<1>1. Multiplied(c, n, e)
  BY MultiplierParts
<1>. HIDE DEF e
<1>2. Has(e, "m") /\ k \in DOMAIN e.params /\ e.params[k].name = "m"
  BY <1>1 DEF Multiplied, Has
<1>. HIDE DEF k
<1>3. e.params[k].value = n
  BY <1>1, <1>2 DEF Multiplied
<1>4. Multiplicity(e) = n
  BY <1>2, <1>3 DEF Multiplicity, Get, k
<1>. QED  BY <1>4 DEF e

(* Of the twins one is changed, and what is put beside them is no twin.    *)
LessOne(s, q, t) ==
  /\ Cardinality({k \in DOMAIN t : Signature(t[k]) = Signature(s[q])}) = Cardinality(Twins(s, q)) - 1
  /\ Cardinality(Twins(s, q)) \in Nat

LEMMA OneLess ==
  ASSUME NEW s \in Seq(Component), NEW q \in DOMAIN s, NEW r, NEW z, NEW t, AlteredInto(s, q, r, z, t),
         Signature(r) # Signature(s[q]), \A k \in DOMAIN z : Signature(z[k]) # Signature(s[q])
  PROVE  LessOne(s, q, t)
<1>. DEFINE left == {k \in DOMAIN t : Signature(t[k]) = Signature(s[q])}
<1>1. /\ Len(s) \in Nat /\ DOMAIN s = 1 .. Len(s) /\ Len(z) \in Nat
      /\ DOMAIN t = 1 .. Len(s) + Len(z)
      /\ t[q] = r
      /\ \A k \in DOMAIN s : k # q => t[k] = s[k]
      /\ \A k \in DOMAIN t : k \notin DOMAIN s => k - Len(s) \in DOMAIN z /\ t[k] = z[k - Len(s)]
  BY DEF AlteredInto
<1>2. left = Twins(s, q) \ {q}
  <2>1. DOMAIN s \subseteq DOMAIN t
    BY <1>1
  <2>2. \A k \in DOMAIN s : k \in left <=> (k \in Twins(s, q) /\ k # q)
    BY <1>1, <2>1 DEF Twins
  <2>3. \A k \in left : k \in DOMAIN s
    BY <1>1
  <2>4. Twins(s, q) \subseteq DOMAIN s
    BY DEF Twins
  <2>. HIDE DEF left
  <2>. QED  BY <2>2, <2>3, <2>4
<1>3. IsFiniteSet(Twins(s, q)) /\ q \in Twins(s, q)
  <2>1. IsFiniteSet(DOMAIN s)
    BY <1>1, FS_Interval
  <2>2. Twins(s, q) \subseteq DOMAIN s /\ q \in Twins(s, q)
    BY DEF Twins
  <2>. QED  BY <2>1, <2>2, FS_Subset
<1>4. Cardinality(left) = Cardinality(Twins(s, q)) - 1
  BY <1>2, <1>3, FS_RemoveElement
<1>. QED  BY <1>3, <1>4, FS_CardinalityType DEF LessOne

LEMMA FirstDeviates ==
  ASSUME NEW c \in Component, NEW p, Has(c, p),
         \A k \in DOMAIN c.params : c.params[k].name = p => c.params[k].value \in Nat
  PROVE  \E j \in DOMAIN c.params :
           /\ c.params[j].name = p /\ c.params[j].value \in Nat
           /\ \A low : Deviated(c, p, low).params[j].value =
                         IF low THEN c.params[j].value - 1 ELSE c.params[j].value + 1
<1>. DEFINE S == {k \in DOMAIN c.params : c.params[k].name = p}
            j == Min(S)
            v(k, low) == IF low THEN c.params[k].value - 1 ELSE c.params[k].value + 1
<1>1. \A low : Deviated(c, p, low).params = [k \in DOMAIN c.params |->
        IF c.params[k].name = p /\ \A i \in 1 .. k - 1 : c.params[i].name # p
        THEN [name |-> p, value |-> v(k, low)] ELSE c.params[k]]
  BY DEF Deviated, Component
<1>2. DOMAIN c.params = 1 .. Len(c.params) /\ Len(c.params) \in Nat
  BY Parameters
<1>3. j \in S /\ \A k \in S : j <= k
  <2>1. S \in SUBSET Nat /\ S # {}
    BY <1>2 DEF Has
  <2>. HIDE DEF S
  <2>. QED  BY <2>1, MinIsOne
<1>. HIDE DEF j
<1>4. j \in DOMAIN c.params /\ c.params[j].name = p /\ c.params[j].value \in Nat
  BY <1>3
<1>5. \A i \in 1 .. j - 1 : c.params[i].name # p
  <2>. SUFFICES ASSUME NEW i \in 1 .. j - 1, c.params[i].name = p  PROVE FALSE
    OBVIOUS
  <2>1. i \in S
    BY <1>2, <1>4
  <2>2. j <= i
    BY <1>3, <2>1
  <2>. QED  BY <1>2, <1>4, <2>2
<1>6. ASSUME NEW low  PROVE Deviated(c, p, low).params[j].value = v(j, low)
  <2>. DEFINE q == Deviated(c, p, low).params
  <2>1. q = [k \in DOMAIN c.params |->
        IF c.params[k].name = p /\ \A i \in 1 .. k - 1 : c.params[i].name # p
        THEN [name |-> p, value |-> v(k, low)] ELSE c.params[k]]
    BY <1>1
  <2>. HIDE DEF q, v
  <2>2. q[j] = [name |-> p, value |-> v(j, low)]
    BY <1>4, <1>5, <2>1
  <2>. QED  BY <2>2 DEF q
<1>. QED  BY <1>4, <1>6

LEMMA DeviatesAlone ==
  ASSUME NEW c \in Component, NEW p, NEW low, NEW j \in DOMAIN c.params, c.params[j].name # p
  PROVE  Deviated(c, p, low).params[j] = c.params[j]
BY DEF Deviated, Component

LEMMA DeviatedDiffers ==
  ASSUME NEW c \in Component, NEW p, Has(c, p), NEW low,
         \A k \in DOMAIN c.params : c.params[k].name = p => c.params[k].value \in Nat
  PROVE  Deviated(c, p, low).params # c.params
<1>1. PICK j \in DOMAIN c.params :
           /\ c.params[j].name = p /\ c.params[j].value \in Nat
           /\ \A l : Deviated(c, p, l).params[j].value =
                       IF l THEN c.params[j].value - 1 ELSE c.params[j].value + 1
  BY FirstDeviates
<1>2. Deviated(c, p, low).params[j].value # c.params[j].value
  BY <1>1
<1>. QED  BY <1>2

LEMMA RenamedNodes ==
  ASSUME NEW c \in Component, NEW old, NEW new, NEW j \in DOMAIN c.nodes, c.nodes[j] = old, new # old
  PROVE  Renamed(c, old, new).nodes # c.nodes
<1>1. Renamed(c, old, new).nodes = [k \in DOMAIN c.nodes |-> IF c.nodes[k] = old THEN new ELSE c.nodes[k]]
  BY DEF Renamed, Component
<1>2. Renamed(c, old, new).nodes[j] = new
  BY <1>1
<1>. QED  BY <1>2

(* A deviation is alone in its place, an open leaves another device.       *)
LEMMA DeviatedSubcircuit ==
  ASSUME NEW i, NEW q, Struck(i, q), target.kind = "parametric", netlist \in Seq(Seq(Component)),
         NEW s, s = netlist[i]
  PROVE  /\ s \in Seq(Component) /\ q \in DOMAIN s
         /\ \E r : Signature(r) # Signature(s[q]) /\ defected[i] = Altered(s, q, r, <<>>)
<1>. DEFINE c == netlist[i][q]
            d == target
            r == Deviated(c, d.subject[1], IsMin(d))
<1>1. /\ i \in DOMAIN netlist /\ q \in DOMAIN s /\ c \in Component /\ s \in Seq(Component)
      /\ Suits(c, d) /\ Adjustable(c, d) /\ defected = Defected(d, <<i, q>>)
  BY DEF Struck, Sited
<1>2. Injected(d, c) = <<r, <<>> >>
  BY DEF Injected, IsOpenGate
<1>3. defected = [netlist EXCEPT ![i] =
                    [netlist[i] EXCEPT ![q] = Injected(d, c)[1]] \o Injected(d, c)[2]]
  BY <1>1 DEF Defected
<1>4. Injected(d, c)[1] = r /\ Injected(d, c)[2] = <<>>
  BY <1>2
<1>. HIDE DEF r
<1>5. defected[i] = Altered(s, q, r, <<>>)
  BY <1>1, <1>3, <1>4 DEF Altered
<1>6. r.params # c.params
  <2>1. Has(c, d.subject[1])
    BY <1>1, SuitsFits DEF Fits, IsOpenGate
  <2>2. \A k \in DOMAIN c.params : c.params[k].name = d.subject[1] => c.params[k].value \in Nat
    BY <1>1 DEF Adjustable
  <2>. HIDE DEF c, d
  <2>. QED  BY <1>1, <2>1, <2>2, DeviatedDiffers DEF r
<1>7. Signature(r) # Signature(c)
  BY <1>6 DEF Signature
<1>. QED  BY <1>1, <1>5, <1>7

(* The merged component that the defect of the universe is of.             *)
LEMMA MergedSite ==
  ASSUME InjectionInv, pc = "done", manifest.merge, NEW d \in universe,
         NEW i \in DOMAIN netlist, NEW q \in DOMAIN netlist[i], netlist[i][q].name = d.instance
  PROVE  LET same == {m \in {circuit[i][k] : k \in DOMAIN circuit[i]} : m.name = d.instance} IN
         same = {Merged(netlist[i], q)}
<1>1. /\ Order /\ universe = {e \in AllDetails : e.weight > 0} /\ netlist \in Seq(Seq(Component))
      /\ DOMAIN netlist = DOMAIN circuit
  BY DEF InjectionInv, CollapseInv, Kept, Drawn, Parsed
<1>2. PICK j \in DOMAIN circuit : \E k \in DOMAIN details[j] : d = details[j][k]
  BY <1>1 DEF AllDetails
<1>3. PICK k \in DOMAIN details[j] : d = details[j][k]
  BY <1>2
<1>4. PICK p \in DOMAIN circuit[j] : Owner(j, k, p)
  BY <1>1 DEF Order, Owned
<1>5. circuit[j][p].name = d.instance
  BY <1>3, <1>4 DEF Owner
<1>6. \A n \in DOMAIN circuit : \A k2 \in DOMAIN circuit[n] :
        \E q2 \in DOMAIN netlist[n] : circuit[n][k2] = Merged(netlist[n], q2)
  BY DEF InjectionInv, Drift
<1>7. ASSUME NEW n \in DOMAIN circuit, NEW k2 \in DOMAIN circuit[n], circuit[n][k2].name = d.instance
      PROVE  n = i /\ circuit[n][k2] = Merged(netlist[i], q)
  <2>1. PICK q2 \in DOMAIN netlist[n] : circuit[n][k2] = Merged(netlist[n], q2)
    BY <1>6
  <2>2. netlist[n] \in Seq(Component)
    BY <1>1
  <2>3. From(Merged(netlist[n], q2), netlist[n][q2])
    BY <2>2, FromMerged
  <2>4. netlist[n][q2].name = d.instance
    BY <1>7, <2>1, <2>3 DEF From
  <2>5. n = i /\ q2 = q
    BY <1>1, <2>4 DEF InjectionInv, Parsed
  <2>. QED  BY <2>1, <2>5
<1>8. j = i /\ circuit[i][p] = Merged(netlist[i], q)
  BY <1>5, <1>7
<1>9. i \in DOMAIN circuit
  BY <1>1
<1>. QED  BY <1>5, <1>7, <1>8, <1>9

LEMMA OneHit ==
  ASSUME InjectionInv, NEW i, NEW q, Struck(i, q), target.kind # "short", NEW s, s = netlist[i],
         NEW n, n = CutNet(target), target.kind = "open" => Opened(n) \notin NetNames(s)
  PROVE  LessOne(s, q, defected[i])
<1>1. netlist \in Seq(Seq(Component)) /\ s \in Seq(Component) /\ q \in DOMAIN s
  BY DEF InjectionInv, Parsed, Struck
<1>2. CASE target.kind = "parametric"
  <2>1. PICK r : Signature(r) # Signature(s[q]) /\ defected[i] = Altered(s, q, r, <<>>)
    BY <1>1, <1>2, DeviatedSubcircuit
  <2>. DEFINE z == <<>>
  <2>2. z \in Seq({}) /\ DOMAIN z = {} /\ defected[i] = Altered(s, q, r, z)
    BY <2>1
  <2>. HIDE DEF z
  <2>3. AlteredInto(s, q, r, z, defected[i])
    BY <1>1, <2>2, Beside
  <2>. QED  BY <1>1, <2>1, <2>2, <2>3, OneLess
<1>3. CASE target.kind = "open"
  <2>. DEFINE o == Opened(n)
              r == Renamed(s[q], n, o)
  <2>1. /\ n \in {s[q].nodes[j] : j \in DOMAIN s[q].nodes}
        /\ \A j \in DOMAIN netlist \ {i} : defected[j] = netlist[j]
        /\ \E m, x : /\ \E j \in DOMAIN x : x[j] = o
                     /\ defected[i] = Altered(s, q, r, <<Instance(m, x)>>)
    <3>1. OpenedAt(i, q, s, n)
      BY <1>1, <1>3, OpenedSubcircuit
    <3>. QED  BY <3>1 DEF OpenedAt
  <2>2. PICK m, x : /\ \E j \in DOMAIN x : x[j] = o
                    /\ defected[i] = Altered(s, q, r, <<Instance(m, x)>>)
    BY <2>1
  <2>3. o \notin {s[q].nodes[j] : j \in DOMAIN s[q].nodes}
    BY <1>1, <1>3 DEF NetNames
  <2>4. s[q] \in Component
    BY <1>1
  <2>5. r.nodes # s[q].nodes
    <3>1. PICK j \in DOMAIN s[q].nodes : s[q].nodes[j] = n
      BY <2>1
    <3>2. o # n
      BY <2>1, <2>3
    <3>. HIDE DEF o
    <3>. QED  BY <2>4, <3>1, <3>2, RenamedNodes
  <2>. DEFINE I == Instance(m, x)
              z == <<I>>
              U == {I}
  <2>6. I.nodes # s[q].nodes
    <3>1. I.nodes = x
      BY DEF Instance
    <3>. QED  BY <2>2, <2>3, <3>1
  <2>7. defected[i] = Altered(s, q, r, z)
    BY <2>2
  <2>. HIDE DEF o, r, I
  <2>8. Signature(r) # Signature(s[q]) /\ Signature(I) # Signature(s[q])
    BY <2>5, <2>6 DEF Signature
  <2>9. z \in Seq(U) /\ \A k \in DOMAIN z : z[k] = I
    OBVIOUS
  <2>. HIDE DEF z, U
  <2>10. AlteredInto(s, q, r, z, defected[i])
    BY <1>1, <2>7, <2>9, Beside
  <2>11. \A k \in DOMAIN z : Signature(z[k]) # Signature(s[q])
    BY <2>8, <2>9
  <2>. QED  BY <1>1, <2>8, <2>10, <2>11, OneLess
<1>. QED  BY <1>2, <1>3 DEF Struck, Sited, Suits

(* A defect of a merged component counts as often as there are cards of it *)
(* in the netlist, each of one device, and is injected into one of them;   *)
(* the others stay beside it.                                              *)
THEOREM OneDeviceOfMany == SpecInjection => []OneDeviceIsHit
<1>1. InjectionInv => OneDeviceIsHit
  <2>. SUFFICES ASSUME InjectionInv, outcome = "ok", manifest.merge, target.kind # "short",
                       Undotted(target.instance),
                       NEW p \in Places(target.instance),
                       HasTwins(netlist[p[1]], p[2]),
                       target.kind = "open" => Opened(CutNet(target)) \notin NetNames(netlist[p[1]])
                PROVE  LET s == netlist[p[1]]
                           c == s[p[2]]
                           left == {k \in DOMAIN defected[p[1]] :
                                      Signature(defected[p[1]][k]) = Signature(c)}
                           merged == CHOOSE m \in {circuit[p[1]][k] : k \in DOMAIN circuit[p[1]]} :
                                       m.name = c.name
                       IN  Cardinality(left) = Multiplicity(merged) - 1
    BY DEF OneDeviceIsHit
  <2>1. pc = "done" /\ target \in universe
    BY Strike
  <2>2. PICK i \in DOMAIN netlist : \E q \in DOMAIN netlist[i] : Struck(i, q)
    BY Strike
  <2>3. PICK q \in DOMAIN netlist[i] : Struck(i, q)
    BY <2>2
  <2>4. p[1] = i /\ p[2] = q
    BY <2>3 DEF Struck
  <2>. DEFINE s == netlist[i]
              c == s[q]
              n == Cardinality(Twins(s, q))
              S == {circuit[i][k] : k \in DOMAIN circuit[i]}
              merged == CHOOSE m \in S : m.name = c.name
  <2>5. /\ Cardinality({k \in DOMAIN defected[i] : Signature(defected[i][k]) = Signature(c)}) = n - 1
        /\ n \in Nat
    <3>1. LessOne(s, q, defected[i])
      BY <2>3, <2>4, OneHit
    <3>. QED  BY <3>1 DEF LessOne
  <2>6. c.name = target.instance /\ c \in Component
    BY <2>3 DEF Struck, Sited
  <2>7. {m \in S : m.name = c.name} = {Merged(s, q)}
    BY <2>1, <2>6, MergedSite
  <2>8. Merged(s, q) = SetMultiplier(c, n)
    BY <2>4 DEF Merged
  <2>. HIDE DEF S, c, s, n
  <2>9. merged = SetMultiplier(c, n)
    BY <2>7, <2>8
  <2>10. Multiplicity(merged) = n
    BY <2>6, <2>9, MergedCounts
  <2>. QED  BY <2>4, <2>5, <2>10 DEF S, c, s
<1>. QED  BY <1>1, InjectionInvariant, PTL

-----------------------------------------------------------------------------
(* What is put beside a component tells what the defect is.                *)
Model(d) ==
  IF d.kind = "parametric" THEN "none"
  ELSE IF IsOpenGate(d) THEN "open_gate_model"
  ELSE IF d.kind = "open" THEN "open_model" ELSE "short_model"

Marked(d, c, z) ==
  /\ d.kind = "parametric" => Len(z) = 0 /\ Injected(d, c)[1] = Deviated(c, d.subject[1], IsMin(d))
  /\ d.kind # "parametric" => Len(z) = 1 /\ z[1].master = Model(d)
  /\ d.kind = "short" => z[1].nodes = d.subject
  /\ IsOpenGate(d) => d.subject = <<c.nodes[1], c.nodes[2], c.nodes[3]>>
  /\ (d.kind = "open" /\ ~ IsOpenGate(d)) => z[1].nodes[2] = d.subject[1] /\ \E x : d.subject = <<x>>

LEMMA Additions ==
  ASSUME NEW c, NEW d, Suits(c, d)
  PROVE  /\ d.kind \in {"short", "open", "parametric"}
         /\ Marked(d, c, Injected(d, c)[2])
<1>. DEFINE n == d.subject
            z == Injected(d, c)[2]
<1>1. \A x : Len(<<x>>) = 1 /\ <<x>>[1] = x
  OBVIOUS
<1>2. \A m, x : Instance(m, x).master = m /\ Instance(m, x).nodes = x
  BY DEF Instance
<1>3. CASE d.kind = "parametric"
  <2>1. Injected(d, c) = <<Deviated(c, n[1], IsMin(d)), <<>> >>
    BY <1>3 DEF Injected, IsOpenGate
  <2>2. Injected(d, c)[1] = Deviated(c, n[1], IsMin(d)) /\ z = <<>>
    BY <2>1
  <2>3. Len(z) = 0
    BY <2>2
  <2>. HIDE DEF z
  <2>. QED  BY <1>3, <2>2, <2>3 DEF Marked, IsOpenGate, z
<1>4. CASE d.kind = "short"
  <2>1. Injected(d, c) = <<c, <<Instance("short_model", n)>> >>
    BY <1>4 DEF Injected, IsOpenGate
  <2>2. z = <<Instance("short_model", n)>>
    BY <2>1
  <2>3. Len(z) = 1 /\ z[1].master = "short_model" /\ z[1].nodes = n
    BY <1>1, <1>2, <2>2
  <2>. HIDE DEF z
  <2>. QED  BY <1>4, <2>3 DEF Marked, Model, IsOpenGate, z
<1>5. CASE IsOpenGate(d)
  <2>. DEFINE x == <<n[1], Opened(n[2]), n[3]>>
              y == Renamed(c, n[2], Opened(n[2]))
  <2>1. Injected(d, c) = <<y, <<Instance("open_gate_model", x)>> >>
    <3>1. d.kind = "open"
      BY <1>5 DEF IsOpenGate
    <3>. QED  BY <1>5, <3>1 DEF Injected
  <2>. HIDE DEF x, y
  <2>2. z = <<Instance("open_gate_model", x)>>
    BY <2>1
  <2>3. Len(z) = 1 /\ z[1].master = "open_gate_model"
    BY <1>1, <1>2, <2>2
  <2>4. n = <<c.nodes[1], c.nodes[2], c.nodes[3]>>
    <3>1. Len(n) # 1 /\ d.kind = "open"
      BY <1>5 DEF IsOpenGate
    <3>. QED  BY <1>1, <3>1 DEF Suits
  <2>. HIDE DEF z, n
  <2>. QED  BY <1>5, <2>3, <2>4 DEF Marked, Model, IsOpenGate, z, n
<1>6. CASE d.kind = "open" /\ ~ IsOpenGate(d)
  <2>. DEFINE x == <<Opened(n[1]), n[1]>>
              y == Renamed(c, n[1], Opened(n[1]))
  <2>1. Injected(d, c) = <<y, <<Instance("open_model", x)>> >>
    BY <1>6 DEF Injected
  <2>2. x[2] = n[1]
    OBVIOUS
  <2>. HIDE DEF x, y
  <2>3. z = <<Instance("open_model", x)>>
    BY <2>1
  <2>4. Len(z) = 1 /\ z[1].master = "open_model" /\ z[1].nodes[2] = n[1]
    BY <1>1, <1>2, <2>2, <2>3
  <2>5. \E w : n = <<w>>
    <3>1. Len(<<c.nodes[1], c.nodes[2], c.nodes[3]>>) = 3
      OBVIOUS
    <3>2. Len(n) # 3
      BY <1>6 DEF IsOpenGate
    <3>. QED  BY <1>6, <3>1, <3>2 DEF Suits
  <2>. HIDE DEF z, n
  <2>. QED  BY <1>6, <2>4, <2>5 DEF Marked, Model, IsOpenGate, z, n
<1>7. d.kind \in {"short", "open", "parametric"}
  BY DEF Suits
<1>. QED  BY <1>3, <1>4, <1>5, <1>6, <1>7

LEMMA ToldByModel ==
  ASSUME NEW c, NEW d, NEW e, Suits(c, d), Suits(c, e), Injected(d, c) = Injected(e, c)
  PROVE  d.kind = e.kind /\ (d.kind # "parametric" => d.subject = e.subject)
<1>. DEFINE z == Injected(d, c)[2]
<1>1. /\ d.kind \in {"short", "open", "parametric"} /\ e.kind \in {"short", "open", "parametric"}
      /\ Marked(d, c, z) /\ Marked(e, c, z)
  BY Additions
<1>. HIDE DEF z
<1>2. d.kind = "parametric" <=> e.kind = "parametric"
  BY <1>1 DEF Marked
<1>3. CASE d.kind = "parametric"
  BY <1>2, <1>3
<1>4. CASE d.kind # "parametric"
  <2>1. Model(d) = Model(e)
    BY <1>1, <1>2, <1>4 DEF Marked
  <2>2. d.kind = e.kind /\ (IsOpenGate(d) <=> IsOpenGate(e))
    BY <1>1, <1>2, <1>4, <2>1 DEF Model, IsOpenGate
  <2>3. CASE d.kind = "short"
    BY <1>1, <2>2, <2>3 DEF Marked
  <2>4. CASE IsOpenGate(d)
    BY <1>1, <2>2, <2>4 DEF Marked
  <2>5. CASE d.kind = "open" /\ ~ IsOpenGate(d)
    <3>1. d.subject[1] = e.subject[1] /\ (\E x : d.subject = <<x>>) /\ (\E x : e.subject = <<x>>)
      BY <1>1, <2>2, <2>5 DEF Marked
    <3>2. PICK x : d.subject = <<x>>
      BY <3>1
    <3>3. PICK y : e.subject = <<y>>
      BY <3>1
    <3>4. x = y
      BY <3>1, <3>2, <3>3
    <3>. QED  BY <2>2, <3>2, <3>3, <3>4
  <2>. QED  BY <1>1, <1>4, <2>2, <2>3, <2>4, <2>5
<1>. QED  BY <1>3, <1>4

LEMMA ToldByParameter ==
  ASSUME NEW c \in Component, NEW d, NEW e, Suits(c, d), Suits(c, e), Adjustable(c, d), Adjustable(c, e),
         d.kind = "parametric", e.kind = "parametric", Injected(d, c) = Injected(e, c)
  PROVE  d.subject = e.subject /\ (IsMin(d) <=> IsMin(e))
<1>1. Marked(d, c, Injected(d, c)[2]) /\ Marked(e, c, Injected(e, c)[2])
  BY Additions
<1>2. Deviated(c, d.subject[1], IsMin(d)) = Deviated(c, e.subject[1], IsMin(e))
  BY <1>1 DEF Marked
<1>3. PICK i \in DOMAIN c.params : d.subject = <<c.params[i].name>>
  BY DEF Suits
<1>4. PICK i2 \in DOMAIN c.params : e.subject = <<c.params[i2].name>>
  BY DEF Suits
<1>. DEFINE p == c.params[i].name
            r == c.params[i2].name
            a == Deviated(c, p, IsMin(d))
            b == Deviated(c, r, IsMin(e))
<1>5. d.subject[1] = p /\ e.subject[1] = r /\ Has(c, p)
  BY <1>3, <1>4 DEF Has
<1>6. a = b
  BY <1>2, <1>5
<1>7. \A k \in DOMAIN c.params : c.params[k].name = p => c.params[k].value \in Nat
  BY <1>5 DEF Adjustable
<1>. HIDE DEF p
<1>8. PICK j \in DOMAIN c.params :
           /\ c.params[j].name = p /\ c.params[j].value \in Nat
           /\ \A low : Deviated(c, p, low).params[j].value =
                         IF low THEN c.params[j].value - 1 ELSE c.params[j].value + 1
  BY <1>5, <1>7, FirstDeviates
<1>. HIDE DEF r
<1>9. p = r
  <2>. SUFFICES ASSUME p # r  PROVE FALSE
    OBVIOUS
  <2>1. b.params[j] = c.params[j]
    BY <1>8, DeviatesAlone
  <2>2. a.params[j].value # c.params[j].value
    BY <1>8
  <2>. HIDE DEF a, b
  <2>. QED  BY <1>6, <2>1, <2>2
<1>10. IsMin(d) <=> IsMin(e)
  <2>1. /\ a.params[j].value = IF IsMin(d) THEN c.params[j].value - 1 ELSE c.params[j].value + 1
        /\ b.params[j].value = IF IsMin(e) THEN c.params[j].value - 1 ELSE c.params[j].value + 1
    BY <1>8, <1>9
  <2>. DEFINE v == c.params[j].value
  <2>2. v - 1 # v + 1
    BY <1>8
  <2>. HIDE DEF a, b, v
  <2>. QED  BY <1>6, <2>1, <2>2 DEF v
<1>. QED  BY <1>3, <1>4, <1>9, <1>10 DEF p, r

-----------------------------------------------------------------------------
(* Where a defect of a component of the netlist is listed.                 *)
LEMMA ListedPlace ==
  ASSUME InjectionInv, pc = "done", NEW x \in AllDetails,
         NEW i \in DOMAIN netlist, NEW q \in DOMAIN netlist[i], netlist[i][q].name = x.instance
  PROVE  /\ i \in DOMAIN circuit
         /\ \E k \in DOMAIN details[i] : x = details[i][k]
         /\ \E p \in DOMAIN circuit[i] : circuit[i][p] \in {netlist[i][q], Merged(netlist[i], q)}
<1>1. Order /\ netlist \in Seq(Seq(Component)) /\ DOMAIN netlist = DOMAIN circuit
  BY DEF InjectionInv, CollapseInv, Parsed
<1>2. PICK j \in DOMAIN circuit : \E k \in DOMAIN details[j] : x = details[j][k]
  BY DEF AllDetails
<1>3. PICK k \in DOMAIN details[j] : x = details[j][k]
  BY <1>2
<1>4. PICK p \in DOMAIN circuit[j] : Owner(j, k, p)
  BY <1>1 DEF Order, Owned
<1>5. circuit[j][p].name = x.instance
  BY <1>3, <1>4 DEF Owner
<1>6. netlist[j] \in Seq(Component)
  BY <1>1
<1>7. \E l \in DOMAIN netlist[j] : /\ netlist[j][l].name = x.instance
                                   /\ circuit[j][p] \in {netlist[j][l], Merged(netlist[j], l)}
  <2>1. CASE circuit[j] = netlist[j]
    BY <1>5, <2>1
  <2>2. CASE \E l \in DOMAIN netlist[j] : circuit[j][p] = Merged(netlist[j], l)
    <3>1. PICK l \in DOMAIN netlist[j] : circuit[j][p] = Merged(netlist[j], l)
      BY <2>2
    <3>2. From(Merged(netlist[j], l), netlist[j][l])
      BY <1>6, FromMerged
    <3>. QED  BY <1>5, <3>1, <3>2 DEF From
  <2>. QED  BY <2>1, <2>2 DEF InjectionInv, Drift
<1>8. PICK l \in DOMAIN netlist[j] : /\ netlist[j][l].name = x.instance
                                     /\ circuit[j][p] \in {netlist[j][l], Merged(netlist[j], l)}
  BY <1>7
<1>9. j = i /\ l = q
  BY <1>1, <1>8 DEF InjectionInv, Parsed
<1>. QED  BY <1>3, <1>8, <1>9

(* Two defects of a component that say the same are the two deviations of  *)
(* a parameter, and only of one is there a later one.                      *)
LEMMA SameIsDeviated ==
  ASSUME InjectionInv, pc = "done", NEW d \in AllDetails, NEW e \in AllDetails, d # e,
         d.kind # "none", d.instance = e.instance, d.kind = e.kind, d.subject = e.subject,
         NEW i \in DOMAIN netlist, NEW q \in DOMAIN netlist[i], netlist[i][q].name = d.instance,
         Distinct(netlist[i][q].nodes), Distinct(ParamsOf(netlist[i][q]))
  PROVE  d.kind = "parametric" /\ ~ (IsMin(d) <=> IsMin(e))
<1>. DEFINE c == netlist[i][q]
<1>1. /\ i \in DOMAIN circuit /\ netlist[i] \in Seq(Component)
      /\ details[i] \in Seq(Listing) /\ IdsAreDistinct
  BY ListedPlace DEF InjectionInv, CollapseInv, Typed, IdInv, Parsed
<1>2. PICK k \in DOMAIN details[i] : d = details[i][k]
  BY ListedPlace
<1>3. PICK l \in DOMAIN details[i] : e = details[i][l]
  BY ListedPlace
<1>4. k # l
  BY <1>2, <1>3
<1>5. PICK p \in DOMAIN circuit[i] : circuit[i][p] \in {netlist[i][q], Merged(netlist[i], q)}
  BY ListedPlace
<1>. DEFINE b == circuit[i][p]
<1>6. Distinct(b.nodes) /\ Distinct(ParamsOf(b))
  BY <1>1, <1>5, MergedDistinct
<1>7. b.name = d.instance
  BY <1>1, <1>5, FromMerged DEF From
<1>8. Told(b, details[i])
  BY <1>1, <1>5 DEF InjectionInv, Catalogue
<1>. HIDE DEF b
<1>9. /\ d.kind = "parametric"
      /\ \A m \in DOMAIN details[i] :
           (/\ details[i][m].instance = d.instance /\ details[i][m].kind = "parametric"
            /\ details[i][m].subject = d.subject) => m = k \/ m = l
  BY <1>2, <1>3, <1>4, <1>6, <1>7, <1>8 DEF Told
<1>10. d.id # e.id
  BY <1>1, <1>2, <1>3, <1>4 DEF IdsAreDistinct
<1>11. d.id \in Int /\ e.id \in Int
  <2>1. \A x \in Listing : x.id \in Int
    BY DEF Listing
  <2>2. d \in Listing /\ e \in Listing
    BY <1>1, <1>2, <1>3
  <2>. QED  BY <2>1, <2>2
<1>12. IsMin(d) <=> e.id > d.id
  <2>1. ASSUME NEW x \in AllDetails, x.instance = d.instance, x.subject = d.subject,
               x.kind = "parametric"
        PROVE  x = d \/ x = e
    <3>1. PICK m \in DOMAIN details[i] : x = details[i][m]
      BY <2>1, ListedPlace
    <3>. QED  BY <1>2, <1>3, <1>9, <2>1, <3>1
  <2>2. ~ (d.id > d.id)
    BY <1>11
  <2>3. IsMin(d) => e.id > d.id
    BY <2>1, <2>2 DEF IsMin
  <2>4. e.id > d.id => IsMin(d)
    BY <1>9 DEF IsMin
  <2>. QED  BY <2>3, <2>4
<1>13. IsMin(e) <=> d.id > e.id
  <2>1. ASSUME NEW x \in AllDetails, x.instance = e.instance, x.subject = e.subject,
               x.kind = "parametric"
        PROVE  x = d \/ x = e
    <3>1. PICK m \in DOMAIN details[i] : x = details[i][m]
      BY <2>1, ListedPlace
    <3>. QED  BY <1>2, <1>3, <1>9, <2>1, <3>1
  <2>2. ~ (e.id > e.id)
    BY <1>11
  <2>3. IsMin(e) => d.id > e.id
    BY <2>1, <2>2 DEF IsMin
  <2>4. d.id > e.id => IsMin(e)
    BY <1>9 DEF IsMin
  <2>. QED  BY <2>3, <2>4
<1>. QED  BY <1>9, <1>10, <1>11, <1>12, <1>13

(* Two defects of a component whose terminals are on different nets, and   *)
(* whose parameters have different names, are two different circuits.      *)
THEOREM DefectsDiffer == SpecInjection => []DefectsAreToldApart
<1>1. InjectionInv => DefectsAreToldApart
  <2>. SUFFICES ASSUME InjectionInv, pc = "done", NEW d \in universe, NEW e \in universe,
                       d.instance = e.instance, d # e, Undotted(d.instance), NEW p \in Places(d.instance),
                       NEW c, c = netlist[p[1]][p[2]], Distinct(c.nodes), Distinct(ParamsOf(c)),
                       Injected(d, c) = Injected(e, c)
                PROVE  FALSE
    BY DEF DefectsAreToldApart
  <2>1. d \in AllDetails /\ e \in AllDetails
    BY DEF InjectionInv, CollapseInv, Kept, Drawn
  <2>2. PICK i \in DOMAIN netlist : \E q \in DOMAIN netlist[i] :
           /\ Sited(netlist[i][q], d) /\ Places(d.instance) = {<<i, q>>}
           /\ netlist[i][q] \in Component /\ netlist[i] \in Seq(Component)
    BY OneSite DEF InjectionInv
  <2>3. PICK q \in DOMAIN netlist[i] :
           /\ Sited(netlist[i][q], d) /\ Places(d.instance) = {<<i, q>>}
           /\ netlist[i][q] \in Component /\ netlist[i] \in Seq(Component)
    BY <2>2
  <2>4. p[1] = i /\ p[2] = q /\ c = netlist[i][q] /\ c \in Component
    BY <2>3
  <2>5. PICK j \in DOMAIN netlist : \E r \in DOMAIN netlist[j] :
           /\ Sited(netlist[j][r], e) /\ Places(e.instance) = {<<j, r>>}
           /\ netlist[j][r] \in Component /\ netlist[j] \in Seq(Component)
    BY OneSite DEF InjectionInv
  <2>6. PICK r \in DOMAIN netlist[j] : Sited(netlist[j][r], e) /\ Places(e.instance) = {<<j, r>>}
    BY <2>5
  <2>7. Sited(c, d) /\ Sited(c, e)
    <3>1. <<i, q>> = <<j, r>>
      BY <2>3, <2>6
    <3>2. i = j /\ q = r
      BY <3>1
    <3>. QED  BY <2>3, <2>4, <2>6, <3>2
  <2>8. d.kind = e.kind /\ (d.kind # "parametric" => d.subject = e.subject)
    BY <2>7, ToldByModel DEF Sited
  <2>9. d.kind = "parametric" => d.subject = e.subject /\ (IsMin(d) <=> IsMin(e))
    BY <2>4, <2>7, <2>8, ToldByParameter DEF Sited
  <2>10. d.kind = "parametric" /\ ~ (IsMin(d) <=> IsMin(e))
    <3>1. d.kind # "none" /\ netlist[i][q].name = d.instance
      BY <2>4, <2>7 DEF Sited
    <3>. QED  BY <2>1, <2>4, <2>8, <2>9, <3>1, SameIsDeviated
  <2>. QED  BY <2>9, <2>10
<1>. QED  BY <1>1, InjectionInvariant, PTL

=============================================================================
