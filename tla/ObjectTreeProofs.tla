-------------------------- MODULE ObjectTreeProofs --------------------------
(***************************************************************************)
(* Proofs about ObjectTree, for every set of lists, pairs and leaves and   *)
(* every choice of what the types let hold what.                           *)
(*                                                                         *)
(* Every operation first rearranges the references and the parents, and    *)
(* then lets reference counting free what nobody refers to any more.  The  *)
(* invariant is therefore stated of any references it, sl and parents pa,  *)
(* so that the two halves of an operation can be treated one by one.       *)
(***************************************************************************)
EXTENDS ObjectTree, TLAPS

(* References and parents lead to objects of A, and only they have any.    *)
Shape(A, it, sl, pa) ==
  /\ it \in [List -> Seq(Object)]
  /\ sl \in [Pair -> [1 .. 2 -> Object \cup {Nobody}]]
  /\ pa \in [Object -> Object \cup {Nobody}]
  /\ \A l \in List : \A i \in 1 .. Len(it[l]) : it[l][i] \in A
  /\ \A l \in List : l \notin A => Len(it[l]) = 0
  /\ \A p \in Pair, k \in 1 .. 2 : sl[p][k] \in A \cup {Nobody}
  /\ \A p \in Pair, k \in 1 .. 2 : p \notin A => sl[p][k] = Nobody
  /\ \A o \in Object : pa[o] \in A \cup {Nobody}
  /\ \A o \in Object : o \notin A => pa[o] = Nobody

(* An object sits where its parent pointer says.                           *)
Home(it, sl, pa) ==
  \A o \in Object : pa[o] # Nobody =>
    \/ pa[o] \in List /\ \E i \in 1 .. Len(it[pa[o]]) : it[pa[o]][i] = o
    \/ pa[o] \in Pair /\ \E k \in 1 .. 2 : sl[pa[o]][k] = o

(* An object outside L sits in one place at most, where its parent is.     *)
Sole(it, sl, pa, L) ==
  \A o \in Object \ L :
    /\ \A l \in List : \A i \in 1 .. Len(it[l]) :
         it[l][i] = o =>
           /\ pa[o] = l
           /\ \A j \in 1 .. Len(it[l]) : it[l][j] = o => j = i
    /\ \A p \in Pair, k \in 1 .. 2 :
         sl[p][k] = o => pa[o] = p /\ sl[p][3 - k] # o

Tree(A, it, sl, pa, L) ==
  Shape(A, it, sl, pa) /\ Home(it, sl, pa) /\ Sole(it, sl, pa, L)

(* The program's references and the histories are about living objects.    *)
Refs == alive \subseteq Object /\ held \subseteq alive /\ loose \subseteq alive
        /\ owned \subseteq List \cap alive

IInv == Refs /\ Tree(alive, items, slot, parent, loose)

(* The elementary rearrangements.                                          *)
With(it, l, o) == [it EXCEPT ![l] = Append(@, o)]
Without(it, l, i) == [it EXCEPT ![l] = RemoveAt(@, i)]
Reparented(pa, o, w) == [pa EXCEPT ![o] = w]
Filled(sl, p, a, b) == [sl EXCEPT ![p] = [k \in 1 .. 2 |-> IF k = 1 THEN a ELSE b]]

-----------------------------------------------------------------------------
(* Taking item i out of a sequence closes the gap (vector::erase).         *)
LEMMA RemoveAtFacts ==
  ASSUME NEW S, NEW s \in Seq(S), NEW i \in 1 .. Len(s)
  PROVE  /\ RemoveAt(s, i) \in Seq(S)
         /\ Len(RemoveAt(s, i)) = Len(s) - 1
         /\ \A j \in 1 .. Len(s) - 1 :
              RemoveAt(s, i)[j] = IF j < i THEN s[j] ELSE s[j + 1]
<1>. DEFINE front == SubSeq(s, 1, i - 1)
            back == SubSeq(s, i + 1, Len(s))
            n == Len(s)
<1>1. front \in Seq(S) /\ back \in Seq(S) /\ n \in Nat /\ i \in 1 .. n
  OBVIOUS
<1>2. Len(front) = i - 1 /\ Len(back) = n - i
  OBVIOUS
<1>3. /\ \A j \in 1 .. i - 1 : front[j] = s[j]
      /\ \A j \in 1 .. n - i : back[j] = s[j + i]
  OBVIOUS
<1>4. RemoveAt(s, i) = front \o back
  BY DEF RemoveAt
<1>. HIDE DEF front, back, n
<1>5. front \o back \in Seq(S) /\ Len(front \o back) = n - 1
  BY <1>1, <1>2
<1>6. ASSUME NEW j \in 1 .. n - 1
      PROVE  (front \o back)[j] = IF j < i THEN s[j] ELSE s[j + 1]
  <2>1. CASE j < i
    BY <2>1, <1>1, <1>2, <1>3
  <2>2. CASE ~(j < i)
    <3>1. (front \o back)[j] = back[j - (i - 1)]
      BY <2>2, <1>1, <1>2
    <3>2. j - (i - 1) \in 1 .. n - i /\ (j - (i - 1)) + i = j + 1
      BY <2>2, <1>1
    <3>3. back[j - (i - 1)] = s[(j - (i - 1)) + i]
      BY <3>2, <1>3
    <3>. QED  BY <2>2, <3>1, <3>2, <3>3
  <2>. QED  BY <2>1, <2>2
<1>. QED  BY <1>4, <1>5, <1>6 DEF n

(* Adding an item to a sequence (vector::emplace_back).                    *)
LEMMA AppendFacts ==
  ASSUME NEW S, NEW s \in Seq(S), NEW o \in S
  PROVE  /\ Append(s, o) \in Seq(S)
         /\ Len(Append(s, o)) = Len(s) + 1
         /\ \A j \in 1 .. Len(s) : Append(s, o)[j] = s[j]
         /\ Append(s, o)[Len(s) + 1] = o
OBVIOUS

(* The null pointer is no object, and no object is of two kinds.           *)
LEMMA Kinds ==
  /\ Nobody \notin Object /\ List \subseteq Object /\ Pair \subseteq Object
  /\ List \cap Pair = {} /\ Leaf \subseteq Object
  /\ \A k \in 1 .. 2 : 3 - k \in 1 .. 2 /\ 3 - k # k
BY ObjectTreeAssumption DEF Object

-----------------------------------------------------------------------------
(* The rearrangements.                                                     *)

(* New objects and a longer history change nothing.                        *)
LEMMA Grown ==
  ASSUME NEW A, NEW B \in SUBSET Object, NEW it, NEW sl, NEW pa, NEW L, NEW M,
         Tree(A, it, sl, pa, L), A \subseteq B, L \subseteq M
  PROVE  Tree(B, it, sl, pa, M)
<1>1. Shape(B, it, sl, pa)
  BY DEF Tree, Shape
<1>2. Sole(it, sl, pa, M)
  BY DEF Tree, Sole
<1>. QED  BY <1>1, <1>2 DEF Tree

(* A constructor that is given children.                                   *)
LEMMA Stored ==
  ASSUME NEW A \in SUBSET Object, NEW it, NEW sl, NEW pa, NEW L,
         Tree(A, it, sl, pa, L),
         NEW p \in Pair, p \notin A, NEW a \in A \cup {Nobody}, NEW b \in A \cup {Nobody},
         NEW t, t = Filled(sl, p, a, b)
  PROVE  Tree(A \cup {p}, it, t, pa, L \cup ({a, b} \ {Nobody}))
<1>1. /\ t \in [Pair -> [1 .. 2 -> Object \cup {Nobody}]]
      /\ t[p][1] = a /\ t[p][2] = b
      /\ \A q \in Pair : q # p => t[q] = sl[q]
  BY DEF Tree, Shape, Filled
<1>2. Shape(A \cup {p}, it, t, pa)
  BY <1>1, Kinds DEF Tree, Shape
<1>3. Home(it, t, pa)
  BY <1>1, Kinds DEF Tree, Shape, Home
<1>4. Sole(it, t, pa, L \cup ({a, b} \ {Nobody}))
  <2>. SUFFICES ASSUME NEW o \in Object \ (L \cup ({a, b} \ {Nobody})),
                       NEW q \in Pair, NEW k \in 1 .. 2, t[q][k] = o
                PROVE  pa[o] = q /\ t[q][3 - k] # o
    BY DEF Tree, Sole
  <2>1. q # p
    BY <1>1, Kinds
  <2>. QED  BY <2>1, <1>1 DEF Tree, Sole
<1>. QED  BY <1>2, <1>3, <1>4 DEF Tree

(* push_back of an object without a parent.                                *)
LEMMA Placed ==
  ASSUME NEW A \in SUBSET Object, NEW it, NEW sl, NEW pa, NEW L,
         Tree(A, it, sl, pa, L),
         NEW l \in List \cap A, NEW o \in A, pa[o] = Nobody,
         NEW w, w = l \/ w = Nobody,
         NEW M, L \subseteq M, w = Nobody => o \in M,
         NEW t, t = With(it, l, o),
         NEW q, q = Reparented(pa, o, w)
  PROVE  Tree(A, t, sl, q, M)
<1>1. /\ t \in [List -> Seq(Object)]
      /\ Len(t[l]) = Len(it[l]) + 1 /\ Len(it[l]) \in Nat
      /\ \A j \in 1 .. Len(it[l]) : t[l][j] = it[l][j]
      /\ t[l][Len(it[l]) + 1] = o
      /\ \A k \in List : k # l => t[k] = it[k]
  <2>1. it \in [List -> Seq(Object)] /\ o \in Object
    BY DEF Tree, Shape
  <2>2. it[l] \in Seq(Object)
    BY <2>1
  <2>. QED  BY <2>1, <2>2, AppendFacts DEF With
<1>2. /\ q \in [Object -> Object \cup {Nobody}] /\ q[o] = w
      /\ \A x \in Object : x # o => q[x] = pa[x]
  BY Kinds DEF Tree, Shape, Reparented
<1>3. Shape(A, t, sl, q)
  <2>1. \A k \in List : \A i \in 1 .. Len(t[k]) : t[k][i] \in A
    <3>. SUFFICES ASSUME NEW k \in List, NEW i \in 1 .. Len(t[k]) PROVE t[k][i] \in A
      OBVIOUS
    <3>1. CASE k = l
      <4>1. i \in 1 .. Len(it[l]) \/ i = Len(it[l]) + 1
        BY <1>1, <3>1
      <4>. QED  BY <4>1, <3>1, <1>1 DEF Tree, Shape
    <3>2. CASE k # l
      BY <3>2, <1>1 DEF Tree, Shape
    <3>. QED  BY <3>1, <3>2
  <2>2. \A k \in List : k \notin A => Len(t[k]) = 0
    BY <1>1 DEF Tree, Shape
  <2>3. /\ \A x \in Object : q[x] \in A \cup {Nobody}
        /\ \A x \in Object : x \notin A => q[x] = Nobody
    BY <1>2 DEF Tree, Shape
  <2>. QED  BY <2>1, <2>2, <2>3, <1>1, <1>2 DEF Tree, Shape
<1>4. Home(t, sl, q)
  <2>. SUFFICES ASSUME NEW x \in Object, q[x] # Nobody
                PROVE  \/ q[x] \in List /\ \E i \in 1 .. Len(t[q[x]]) : t[q[x]][i] = x
                       \/ q[x] \in Pair /\ \E k \in 1 .. 2 : sl[q[x]][k] = x
    BY DEF Home
  <2>1. CASE x = o
    BY <2>1, <1>1, <1>2
  <2>2. CASE x # o
    <3>1. q[x] = pa[x]
      BY <2>2, <1>2
    <3>2. CASE pa[x] \in Pair
      BY <3>1, <3>2, Kinds DEF Tree, Home
    <3>3. CASE pa[x] \in List
      <4>1. PICK i \in 1 .. Len(it[pa[x]]) : it[pa[x]][i] = x
        BY <3>1, <3>3, Kinds DEF Tree, Home
      <4>2. i \in 1 .. Len(t[pa[x]]) /\ t[pa[x]][i] = x
        BY SMTT(30), <4>1, <3>3, <1>1
      <4>. QED  BY <3>1, <3>3, <4>2
    <3>. QED  BY <3>1, <3>2, <3>3 DEF Tree, Home
  <2>. QED  BY <2>1, <2>2
<1>5. Sole(t, sl, q, M)
  <2>. SUFFICES ASSUME NEW x \in Object \ M
                PROVE  /\ \A k \in List : \A i \in 1 .. Len(t[k]) : t[k][i] = x =>
                            /\ q[x] = k
                            /\ \A j \in 1 .. Len(t[k]) : t[k][j] = x => j = i
                       /\ \A p \in Pair, k \in 1 .. 2 :
                            sl[p][k] = x => q[x] = p /\ sl[p][3 - k] # x
    BY DEF Sole
  <2>1. CASE x = o
    <3>1. w = l
      BY <2>1
    <3>2. /\ \A k \in List : \A i \in 1 .. Len(it[k]) : it[k][i] # o
          /\ \A p \in Pair, k \in 1 .. 2 : sl[p][k] # o
      BY <2>1, Kinds DEF Tree, Sole
    <3>3. \A i \in 1 .. Len(t[l]) : t[l][i] = o => i = Len(it[l]) + 1
      BY SMTT(30), <3>2, <1>1
    <3>. QED  BY <2>1, <3>1, <3>2, <3>3, <1>1, <1>2
  <2>2. CASE x # o
    <3>1. q[x] = pa[x] /\ x \in Object \ L
      BY <2>2, <1>2
    <3>2. \A k \in List : \A i \in 1 .. Len(t[k]) :
             t[k][i] = x => i \in 1 .. Len(it[k]) /\ it[k][i] = x
      <4>. SUFFICES ASSUME NEW k \in List, NEW i \in 1 .. Len(t[k]), t[k][i] = x
                    PROVE  i \in 1 .. Len(it[k]) /\ it[k][i] = x
        OBVIOUS
      <4>1. CASE k = l
        BY <4>1, <2>2, <1>1
      <4>2. CASE k # l
        BY <4>2, <1>1
      <4>. QED  BY <4>1, <4>2
    <3>. QED  BY <3>1, <3>2 DEF Tree, Sole
  <2>. QED  BY <2>1, <2>2
<1>. QED  BY <1>3, <1>4, <1>5 DEF Tree

(* remove, pop_back and the first half of transfer_to: an item leaves.     *)
LEMMA Taken ==
  ASSUME NEW A \in SUBSET Object, NEW it, NEW sl, NEW pa, NEW L,
         Tree(A, it, sl, pa, L),
         NEW l \in List, NEW i \in 1 .. Len(it[l]), NEW o, it[l][i] = o,
         NEW t, t = Without(it, l, i),
         NEW q, q = Reparented(pa, o, Nobody)
  PROVE  Tree(A, t, sl, q, L) /\ o \in A /\ q[o] = Nobody
<1>1. /\ t \in [List -> Seq(Object)]
      /\ Len(t[l]) = Len(it[l]) - 1 /\ Len(it[l]) \in Nat
      /\ \A j \in 1 .. Len(it[l]) - 1 : t[l][j] = IF j < i THEN it[l][j] ELSE it[l][j + 1]
      /\ \A k \in List : k # l => t[k] = it[k]
  <2>1. it \in [List -> Seq(Object)]
    BY DEF Tree, Shape
  <2>2. it[l] \in Seq(Object)
    BY <2>1
  <2>3. t[l] = RemoveAt(it[l], i) /\ \A k \in List : k # l => t[k] = it[k]
    BY <2>1 DEF Without
  <2>4. /\ RemoveAt(it[l], i) \in Seq(Object)
        /\ Len(RemoveAt(it[l], i)) = Len(it[l]) - 1
        /\ \A j \in 1 .. Len(it[l]) - 1 :
             RemoveAt(it[l], i)[j] = IF j < i THEN it[l][j] ELSE it[l][j + 1]
    BY <2>2, RemoveAtFacts
  <2>5. Len(it[l]) \in Nat
    BY <2>2
  <2>6. t \in [List -> Seq(Object)]
    BY <2>1, <2>4 DEF Without
  <2>. QED  BY <2>3, <2>4, <2>5, <2>6
<1>2. o \in A /\ o \in Object
  BY DEF Tree, Shape
<1>3. /\ q \in [Object -> Object \cup {Nobody}] /\ q[o] = Nobody
      /\ \A x \in Object : x # o => q[x] = pa[x]
  BY <1>2 DEF Tree, Shape, Reparented
<1>4. ASSUME NEW k \in List, NEW j \in 1 .. Len(t[k])
      PROVE  \E m \in 1 .. Len(it[k]) : /\ t[k][j] = it[k][m]
                                        /\ m # i \/ k # l
                                        /\ m = j \/ m = j + 1
  <2>1. CASE k # l
    BY <2>1, <1>1
  <2>2. CASE k = l /\ j < i
    BY <2>2, <1>1
  <2>3. CASE k = l /\ ~(j < i)
    <3>1. j + 1 \in 1 .. Len(it[l]) /\ j + 1 # i /\ t[l][j] = it[l][j + 1]
      BY <2>3, <1>1
    <3>. QED  BY <3>1, <2>3
  <2>. QED  BY <2>1, <2>2, <2>3
<1>5. ASSUME NEW k \in List, NEW m \in 1 .. Len(it[k]), m # i \/ k # l
      PROVE  \E j \in 1 .. Len(t[k]) : t[k][j] = it[k][m]
  <2>1. CASE k # l
    BY <2>1, <1>1
  <2>2. CASE k = l /\ m < i
    <3>1. m \in 1 .. Len(it[l]) - 1 /\ t[l][m] = it[l][m]
      BY <2>2, <1>1
    <3>. QED  BY <3>1, <2>2, <1>1
  <2>3. CASE k = l /\ ~(m < i)
    <3>1. m - 1 \in 1 .. Len(it[l]) - 1 /\ ~(m - 1 < i) /\ (m - 1) + 1 = m
      BY <2>3, <1>1, <1>5
    <3>2. t[l][m - 1] = it[l][m]
      BY <3>1, <1>1
    <3>. QED  BY <3>1, <3>2, <2>3, <1>1
  <2>. QED  BY <1>5, <2>1, <2>2, <2>3
<1>6. Shape(A, t, sl, q)
  <2>1. \A k \in List : \A j \in 1 .. Len(t[k]) : t[k][j] \in A
    BY <1>4 DEF Tree, Shape
  <2>2. \A k \in List : k \notin A => Len(t[k]) = 0
    BY <1>1 DEF Tree, Shape
  <2>. QED  BY <2>1, <2>2, <1>1, <1>3 DEF Tree, Shape
<1>7. Home(t, sl, q)
  <2>. SUFFICES ASSUME NEW x \in Object, q[x] # Nobody
                PROVE  \/ q[x] \in List /\ \E j \in 1 .. Len(t[q[x]]) : t[q[x]][j] = x
                       \/ q[x] \in Pair /\ \E k \in 1 .. 2 : sl[q[x]][k] = x
    BY DEF Home
  <2>1. x # o /\ q[x] = pa[x]
    BY <1>3
  <2>2. CASE pa[x] \in Pair
    BY <2>1, <2>2, Kinds DEF Tree, Home
  <2>3. CASE pa[x] \in List
    <3>1. PICK m \in 1 .. Len(it[pa[x]]) : it[pa[x]][m] = x
      BY <2>1, <2>3, Kinds DEF Tree, Home
    <3>2. m # i \/ pa[x] # l
      BY <3>1, <2>1
    <3>. QED  BY SMTT(30), <2>1, <2>3, <3>1, <3>2, <1>5
  <2>. QED  BY <2>1, <2>2, <2>3 DEF Tree, Home
<1>8. Sole(t, sl, q, L)
  <2>. SUFFICES ASSUME NEW x \in Object \ L
                PROVE  /\ \A k \in List : \A j \in 1 .. Len(t[k]) : t[k][j] = x =>
                            /\ q[x] = k
                            /\ \A n \in 1 .. Len(t[k]) : t[k][n] = x => n = j
                       /\ \A p \in Pair, k \in 1 .. 2 :
                            sl[p][k] = x => q[x] = p /\ sl[p][3 - k] # x
    BY DEF Sole
  <2>1. CASE x = o
    <3>1. /\ \A k \in List : \A m \in 1 .. Len(it[k]) : it[k][m] = x => k = l /\ m = i
          /\ \A p \in Pair, k \in 1 .. 2 : sl[p][k] # x
      BY <2>1, Kinds DEF Tree, Sole
    <3>2. \A k \in List : \A j \in 1 .. Len(t[k]) : t[k][j] # x
      BY <3>1, <1>4
    <3>. QED  BY <3>1, <3>2
  <2>2. CASE x # o
    <3>1. q[x] = pa[x]
      BY <2>2, <1>3
    <3>2. ASSUME NEW k \in List, NEW j \in 1 .. Len(t[k]), t[k][j] = x
          PROVE  pa[x] = k /\ \A n \in 1 .. Len(t[k]) : t[k][n] = x => n = j
      <4>1. \A m, n \in 1 .. Len(it[k]) : it[k][m] = x /\ it[k][n] = x => pa[x] = k /\ m = n
        BY DEF Tree, Sole
      <4>2. PICK m \in 1 .. Len(it[k]) : it[k][m] = x
        BY <3>2, <1>4
      <4>3. ASSUME NEW n \in 1 .. Len(t[k]), t[k][n] = x  PROVE  n = j
        <5>1. CASE k # l
          BY <5>1, <4>1, <4>3, <3>2, <1>1
        <5>2. CASE k = l
          <6>1. /\ j \in 1 .. Len(it[l]) - 1 /\ n \in 1 .. Len(it[l]) - 1
                /\ i \in 1 .. Len(it[l])
            BY <5>2, <1>1
          <6>. DEFINE before(a) == IF a < i THEN a ELSE a + 1
          <6>2. before(j) \in 1 .. Len(it[l]) /\ it[l][before(j)] = x
            BY <5>2, <6>1, <3>2, <1>1
          <6>3. before(n) \in 1 .. Len(it[l]) /\ it[l][before(n)] = x
            BY <5>2, <6>1, <4>3, <1>1
          <6>4. before(j) = before(n)
            BY <6>2, <6>3, <4>1, <5>2
          <6>. QED  BY <6>1, <6>4
        <5>. QED  BY <5>1, <5>2
      <4>. QED  BY <4>1, <4>2, <4>3
    <3>. QED  BY <3>1, <3>2 DEF Tree, Sole
  <2>. QED  BY <2>1, <2>2
<1>. QED  BY <1>2, <1>3, <1>6, <1>7, <1>8 DEF Tree

(* clear: every item of l leaves it, and has no parent any more.           *)
LEMMA Emptied ==
  ASSUME NEW A \in SUBSET Object, NEW it, NEW sl, NEW pa, NEW L,
         Tree(A, it, sl, pa, L), NEW l \in List,
         NEW t, t = [it EXCEPT ![l] = <<>>],
         NEW q, q = [o \in Object |-> IF o \in ToSet(it[l]) THEN Nobody ELSE pa[o]]
  PROVE  Tree(A, t, sl, q, L)
<1>1. /\ t \in [List -> Seq(Object)] /\ Len(t[l]) = 0
      /\ \A k \in List : k # l => t[k] = it[k]
  BY DEF Tree, Shape
<1>2. \A o \in Object : o \in ToSet(it[l]) <=> \E i \in 1 .. Len(it[l]) : it[l][i] = o
  <2>1. it[l] \in Seq(Object)
    BY DEF Tree, Shape
  <2>. QED  BY <2>1 DEF ToSet
<1>3. /\ q \in [Object -> Object \cup {Nobody}]
      /\ \A o \in Object : q[o] = pa[o] \/ q[o] = Nobody
      /\ \A o \in Object : q[o] = pa[o] \/ \E i \in 1 .. Len(it[l]) : it[l][i] = o
      /\ \A o \in Object : q[o] # Nobody => \A i \in 1 .. Len(it[l]) : it[l][i] # o
  BY <1>2 DEF Tree, Shape
<1>4. Shape(A, t, sl, q)
  BY <1>1, <1>3 DEF Tree, Shape
<1>5. Home(t, sl, q)
  <2>. SUFFICES ASSUME NEW x \in Object, q[x] # Nobody
                PROVE  \/ q[x] \in List /\ \E j \in 1 .. Len(t[q[x]]) : t[q[x]][j] = x
                       \/ q[x] \in Pair /\ \E k \in 1 .. 2 : sl[q[x]][k] = x
    BY DEF Home
  <2>. QED  BY <1>1, <1>3, Kinds DEF Tree, Home
<1>6. Sole(t, sl, q, L)
  <2>. SUFFICES ASSUME NEW x \in Object \ L
                PROVE  /\ \A k \in List : \A j \in 1 .. Len(t[k]) : t[k][j] = x =>
                            /\ q[x] = k
                            /\ \A n \in 1 .. Len(t[k]) : t[k][n] = x => n = j
                       /\ \A p \in Pair, k \in 1 .. 2 :
                            sl[p][k] = x => q[x] = p /\ sl[p][3 - k] # x
    BY DEF Sole
  <2>1. /\ \A k \in List : \A j \in 1 .. Len(t[k]) : k # l /\ t[k] = it[k]
    BY <1>1
  <2>2. ASSUME NEW i \in 1 .. Len(it[l]), it[l][i] = x
        PROVE  /\ \A k \in List : \A j \in 1 .. Len(t[k]) : t[k][j] # x
               /\ \A p \in Pair, k \in 1 .. 2 : sl[p][k] # x
    BY <2>1, <2>2, Kinds DEF Tree, Sole
  <2>3. CASE \E i \in 1 .. Len(it[l]) : it[l][i] = x
    BY <2>2, <2>3
  <2>4. CASE q[x] = pa[x]
    BY <2>1, <2>4 DEF Tree, Sole
  <2>. QED  BY <2>3, <2>4, <1>3
<1>. QED  BY <1>4, <1>5, <1>6 DEF Tree

(* setChild: v, which has no parent, takes the place of the old child.     *)
LEMMA Replaced ==
  ASSUME NEW A \in SUBSET Object, NEW it, NEW sl, NEW pa, NEW L,
         Tree(A, it, sl, pa, L),
         NEW p \in Pair \cap A, NEW k \in 1 .. 2, NEW v \in A \cup {Nobody},
         sl[p][k] # v, v # Nobody => pa[v] = Nobody,
         NEW t, t = [sl EXCEPT ![p] = [@ EXCEPT ![k] = v]],
         NEW q, q = [o \in Object |-> IF o = sl[p][k] THEN Nobody
                                       ELSE IF o = v THEN p ELSE pa[o]]
  PROVE  Tree(A, it, t, q, L)
<1>1. /\ t \in [Pair -> [1 .. 2 -> Object \cup {Nobody}]]
      /\ t[p][k] = v /\ t[p][3 - k] = sl[p][3 - k]
      /\ \A r \in Pair : r # p => t[r] = sl[r]
      /\ \A j \in 1 .. 2 : j = k \/ j = 3 - k
  BY Kinds DEF Tree, Shape
<1>2. /\ q \in [Object -> Object \cup {Nobody}]
      /\ \A o \in Object : o = sl[p][k] => q[o] = Nobody
      /\ \A o \in Object : o = v => q[o] = p
      /\ \A o \in Object : o # sl[p][k] /\ o # v => q[o] = pa[o]
  BY Kinds DEF Tree, Shape
<1>3. Shape(A, it, t, q)
  <2>1. \A r \in Pair, j \in 1 .. 2 : t[r][j] \in A \cup {Nobody}
    BY <1>1 DEF Tree, Shape
  <2>2. \A r \in Pair, j \in 1 .. 2 : r \notin A => t[r][j] = Nobody
    BY <1>1 DEF Tree, Shape
  <2>3. \A o \in Object : q[o] \in A \cup {Nobody}
    BY <1>2 DEF Tree, Shape
  <2>4. \A o \in Object : o \notin A => q[o] = Nobody
    BY <1>2, Kinds DEF Tree, Shape
  <2>. QED  BY <2>1, <2>2, <2>3, <2>4, <1>1, <1>2 DEF Tree, Shape
<1>4. Home(it, t, q)
  <2>. SUFFICES ASSUME NEW x \in Object, q[x] # Nobody
                PROVE  \/ q[x] \in List /\ \E j \in 1 .. Len(it[q[x]]) : it[q[x]][j] = x
                       \/ q[x] \in Pair /\ \E j \in 1 .. 2 : t[q[x]][j] = x
    BY DEF Home
  <2>1. CASE x = v
    BY <2>1, <1>1, <1>2
  <2>2. CASE x # v
    <3>1. x # sl[p][k] /\ q[x] = pa[x]
      BY <2>2, <1>2
    <3>2. CASE pa[x] \in List
      BY <3>1, <3>2, Kinds DEF Tree, Home
    <3>3. CASE pa[x] \in Pair
      <4>1. PICK j \in 1 .. 2 : sl[pa[x]][j] = x
        BY <3>1, <3>3, Kinds DEF Tree, Home
      <4>2. t[pa[x]][j] = x
        BY <4>1, <3>1, <3>3, <1>1
      <4>. QED  BY <3>1, <3>3, <4>2
    <3>. QED  BY <3>1, <3>2, <3>3 DEF Tree, Home
  <2>. QED  BY <2>1, <2>2
<1>5. Sole(it, t, q, L)
  <2>. SUFFICES ASSUME NEW x \in Object \ L
                PROVE  /\ \A l \in List : \A j \in 1 .. Len(it[l]) : it[l][j] = x =>
                            /\ q[x] = l
                            /\ \A n \in 1 .. Len(it[l]) : it[l][n] = x => n = j
                       /\ \A r \in Pair, j \in 1 .. 2 :
                            t[r][j] = x => q[x] = r /\ t[r][3 - j] # x
    BY DEF Sole
  <2>1. CASE x = v
    <3>1. /\ \A l \in List : \A j \in 1 .. Len(it[l]) : it[l][j] # x
          /\ \A r \in Pair, j \in 1 .. 2 : sl[r][j] # x
      BY <2>1, Kinds DEF Tree, Sole
    <3>2. \A r \in Pair, j \in 1 .. 2 : t[r][j] = x => r = p /\ j = k
      BY <3>1, <1>1
    <3>. QED  BY <2>1, <3>1, <3>2, <1>2, Kinds
  <2>2. CASE x # v /\ x = sl[p][k]
    <3>1. /\ \A l \in List : \A j \in 1 .. Len(it[l]) : it[l][j] # x
          /\ \A r \in Pair, j \in 1 .. 2 : sl[r][j] = x => r = p
          /\ sl[p][3 - k] # x
      BY <2>2, Kinds DEF Tree, Sole
    <3>2. \A r \in Pair, j \in 1 .. 2 : t[r][j] # x
      BY <3>1, <2>2, <1>1
    <3>. QED  BY <3>1, <3>2
  <2>3. CASE x # v /\ x # sl[p][k]
    <3>1. q[x] = pa[x]
      BY <2>3, <1>2
    <3>2. \A r \in Pair, j \in 1 .. 2 : t[r][j] = x => sl[r][j] = x
      BY <2>3, <1>1
    <3>3. \A r \in Pair, j \in 1 .. 2 : sl[r][j] # x => t[r][j] # x
      BY <3>2
    <3>. QED  BY <3>1, <3>2, <3>3, Kinds DEF Tree, Sole
  <2>. QED  BY <2>1, <2>2, <2>3
<1>. QED  BY <1>3, <1>4, <1>5 DEF Tree

-----------------------------------------------------------------------------
(* Reference counting frees no object the program or a survivor refers to. *)
LEMMA GarbageFacts ==
  ASSUME NEW H, NEW it, NEW sl
  PROVE  /\ Garbage(H, it, sl) \subseteq alive \ H
         /\ \A o \in Garbage(H, it, sl), q \in alive :
              o \in ChildrenIn(it, sl, q) => q \in Garbage(H, it, sl)
<1>. DEFINE D == Garbage(H, it, sl)
            Closed(S) == \A o \in alive \ (H \cup S) :
                           \E q \in alive \ S : o \in ChildrenIn(it, sl, q)
            E == {o \in alive \ H : \A q \in alive : o \in ChildrenIn(it, sl, q) => q \in D}
<1>1. D \subseteq alive \ H
  BY DEF Garbage
<1>2. \A o \in alive \ H : o \in D <=> \A S \in SUBSET (alive \ H) : Closed(S) => o \in S
  BY Zenon DEF Garbage
<1>. HIDE DEF D
<1>3. Closed(D)
  <2>. SUFFICES ASSUME NEW o \in alive \ (H \cup D)
                PROVE  \E q \in alive \ D : o \in ChildrenIn(it, sl, q)
    OBVIOUS
  <2>1. PICK S \in SUBSET (alive \ H) : Closed(S) /\ o \notin S
    BY <1>2
  <2>2. PICK q \in alive \ S : o \in ChildrenIn(it, sl, q)
    BY <2>1
  <2>3. q \notin D
    BY <1>1, <1>2, <2>1, <2>2
  <2>. QED  BY <2>2, <2>3
<1>4. E \subseteq D
  BY <1>3
<1>5. Closed(E)
  BY <1>4
<1>6. D \subseteq E
  <2>1. E \in SUBSET (alive \ H)
    OBVIOUS
  <2>. HIDE DEF E
  <2>. QED  BY <1>1, <1>2, <1>5, <2>1
<1>. QED  BY <1>1, <1>6 DEF D

(* Destructors keep the tree of what survives.                             *)
LEMMA Settled ==
  ASSUME NEW H \in SUBSET alive, NEW it, NEW sl, NEW pa, Refs,
         Tree(alive, it, sl, pa, loose), Settle(H, it, sl, pa)
  PROVE  IInv'
<1>. DEFINE D == Garbage(H, it, sl)
<1>1. /\ D \subseteq alive \ H
      /\ \A o \in D, q \in alive : o \in ChildrenIn(it, sl, q) => q \in D
  BY GarbageFacts
<1>2. /\ held' = H /\ alive' = alive \ D /\ owned' = owned \ D /\ loose' = loose \ D
      /\ items' = [l \in List |-> IF l \in D THEN <<>> ELSE it[l]]
      /\ slot' = [p \in Pair |-> IF p \in D THEN [k \in 1 .. 2 |-> Nobody] ELSE sl[p]]
      /\ parent' = [o \in Object |->
            IF o \in D \/ pa[o] \in D \/ \E l \in D \cap List : o \in ToSet(it[l])
            THEN Nobody ELSE pa[o]]
  BY DEF Settle
<1>. HIDE DEF D
<1>3. /\ \A l \in List : \A i \in 1 .. Len(it[l]) :
            it[l][i] \in ToSet(it[l]) /\ ChildrenIn(it, sl, l) = ToSet(it[l])
      /\ \A l \in List : \A o : o \in ToSet(it[l]) => \E i \in 1 .. Len(it[l]) : it[l][i] = o
  <2>1. \A l \in List : it[l] \in Seq(Object)
    BY DEF Tree, Shape
  <2>. QED  BY <2>1 DEF ToSet, ChildrenIn
<1>4. /\ \A l \in List : \A i \in 1 .. Len(it[l]) : l \notin D => it[l][i] \notin D
      /\ \A p \in Pair, k \in 1 .. 2 : p \notin D => sl[p][k] \notin D
  <2>1. \A l \in List : \A i \in 1 .. Len(it[l]) : l \in alive
    BY DEF Tree, Shape
  <2>2. \A p \in Pair, k \in 1 .. 2 : sl[p][k] # Nobody => p \in alive /\ sl[p][k] \in ChildrenIn(it, sl, p)
    BY Kinds DEF Tree, Shape, ChildrenIn
  <2>3. Nobody \notin D
    BY <1>1, Kinds DEF Refs
  <2>. QED  BY <1>1, <1>3, <2>1, <2>2, <2>3
<1>5. /\ items' \in [List -> Seq(Object)]
      /\ \A l \in List : IF l \in D THEN Len(items'[l]) = 0 ELSE items'[l] = it[l]
      /\ slot' \in [Pair -> [1 .. 2 -> Object \cup {Nobody}]]
      /\ \A p \in Pair, k \in 1 .. 2 : slot'[p][k] = IF p \in D THEN Nobody ELSE sl[p][k]
      /\ parent' \in [Object -> Object \cup {Nobody}]
  BY <1>2 DEF Tree, Shape
<1>6. /\ \A o \in Object : parent'[o] = Nobody \/ parent'[o] = pa[o]
      /\ \A o \in Object : parent'[o] # Nobody => o \notin D /\ pa[o] \notin D
      /\ \A o \in Object : \/ parent'[o] = pa[o]
                           \/ o \in D \/ pa[o] \in D
                           \/ \E l \in D \cap List : \E i \in 1 .. Len(it[l]) : it[l][i] = o
  BY <1>2, <1>3
<1>7. Refs'
  BY <1>1, <1>2 DEF Refs
<1>8. Shape(alive', items', slot', parent')
  <2>1. \A l \in List : \A i \in 1 .. Len(items'[l]) : items'[l][i] \in alive'
    BY <1>2, <1>4, <1>5 DEF Tree, Shape
  <2>2. \A l \in List : l \notin alive' => Len(items'[l]) = 0
    BY <1>2, <1>5 DEF Tree, Shape
  <2>3. \A p \in Pair, k \in 1 .. 2 : slot'[p][k] \in alive' \cup {Nobody}
    BY <1>2, <1>4, <1>5 DEF Tree, Shape
  <2>4. \A p \in Pair, k \in 1 .. 2 : p \notin alive' => slot'[p][k] = Nobody
    BY <1>2, <1>5 DEF Tree, Shape
  <2>5. \A o \in Object : /\ parent'[o] \in alive' \cup {Nobody}
                          /\ o \notin alive' => parent'[o] = Nobody
    BY <1>2, <1>6 DEF Tree, Shape
  <2>. QED  BY <1>5, <2>1, <2>2, <2>3, <2>4, <2>5 DEF Shape
<1>9. Home(items', slot', parent')
  <2>. SUFFICES ASSUME NEW x \in Object, parent'[x] # Nobody
                PROVE  LET q == parent'[x] IN
                       \/ q \in List /\ \E j \in 1 .. Len(items'[q]) : items'[q][j] = x
                       \/ q \in Pair /\ \E k \in 1 .. 2 : slot'[q][k] = x
    BY DEF Home
  <2>1. parent'[x] = pa[x] /\ pa[x] \notin D
    BY <1>6
  <2>. QED  BY <2>1, <1>5 DEF Tree, Home
<1>10. Sole(items', slot', parent', loose')
  <2>. SUFFICES ASSUME NEW x \in Object \ loose'
                PROVE  /\ \A l \in List : \A j \in 1 .. Len(items'[l]) : items'[l][j] = x =>
                            /\ parent'[x] = l
                            /\ \A n \in 1 .. Len(items'[l]) : items'[l][n] = x => n = j
                       /\ \A r \in Pair, j \in 1 .. 2 :
                            slot'[r][j] = x => parent'[x] = r /\ slot'[r][3 - j] # x
    BY DEF Sole
  <2>1. /\ \A l \in List : \A j \in 1 .. Len(items'[l]) : l \notin D /\ items'[l] = it[l]
        /\ \A r \in Pair, j \in 1 .. 2 : slot'[r][j] # Nobody => r \notin D /\ slot'[r] = sl[r]
    BY <1>2, <1>5
  <2>2. CASE x \in D
    BY <2>1, <2>2, <1>4, Kinds
  <2>3. CASE x \notin D
    <3>1. x \in Object \ loose
      BY <2>3, <1>2
    <3>2. ASSUME NEW l \in List, NEW j \in 1 .. Len(items'[l]), items'[l][j] = x
          PROVE  parent'[x] = l /\ \A n \in 1 .. Len(items'[l]) : items'[l][n] = x => n = j
      <4>1. /\ pa[x] = l /\ l \notin D
            /\ \A n \in 1 .. Len(it[l]) : it[l][n] = x => n = j
        BY <2>1, <3>1, <3>2 DEF Tree, Sole
      <4>2. \A m \in List : \A i \in 1 .. Len(it[m]) : it[m][i] = x => m = l
        BY <3>1, <4>1 DEF Tree, Sole
      <4>. QED  BY <4>1, <4>2, <2>1, <2>3, <1>6
    <3>3. ASSUME NEW r \in Pair, NEW j \in 1 .. 2, slot'[r][j] = x
          PROVE  parent'[x] = r /\ slot'[r][3 - j] # x
      <4>1. r \notin D /\ slot'[r] = sl[r]
        BY <2>1, <3>3, Kinds
      <4>2. pa[x] = r /\ sl[r][3 - j] # x
        BY <3>1, <3>3, <4>1 DEF Tree, Sole
      <4>3. \A m \in List : \A i \in 1 .. Len(it[m]) : it[m][i] # x
        BY <3>1, <4>2, Kinds DEF Tree, Sole
      <4>. QED  BY <4>1, <4>2, <4>3, <2>3, <1>6
    <3>. QED  BY <3>2, <3>3
  <2>. QED  BY <2>2, <2>3
<1>. QED  BY <1>7, <1>8, <1>9, <1>10 DEF IInv, Tree

-----------------------------------------------------------------------------
(* The empty tree.                                                         *)
LEMMA InitIInv == Init => IInv
BY Kinds DEF Init, IInv, Refs, Tree, Shape, Home, Sole

(* Every operation is one of the rearrangements, or two, and what          *)
(* reference counting makes of it.                                         *)
LEMMA NextIInv == IInv /\ [Next]_vars => IInv'
<1>. SUFFICES ASSUME IInv, [Next]_vars  PROVE IInv'
  OBVIOUS
<1>. USE DEF IInv
<1>1. ASSUME NEW o \in Object, NewLeaf(o)  PROVE IInv'
  <2>1. Refs'
    BY <1>1, Kinds DEF NewLeaf, Construct, Refs
  <2>2. Tree(alive \cup {o}, items, slot, parent, loose)
    BY Grown DEF Refs
  <2>. QED  BY <1>1, <2>1, <2>2 DEF NewLeaf, Construct
<1>2. ASSUME NEW l \in List, NewList(l)  PROVE IInv'
  <2>1. Refs'
    BY <1>2, Kinds DEF NewList, Construct, Refs
  <2>2. Tree(alive \cup {l}, items, slot, parent, loose)
    BY Grown, Kinds DEF Refs
  <2>. QED  BY <1>2, <2>1, <2>2 DEF NewList, Construct
<1>3. ASSUME NEW p \in Pair, NEW a \in Object \cup {Nobody}, NEW b \in Object \cup {Nobody},
             NewPair(p, a, b)
      PROVE  IInv'
  <2>1. a \in alive \cup {Nobody} /\ b \in alive \cup {Nobody} /\ p \notin alive
    BY <1>3 DEF NewPair, Construct, Refs
  <2>2. Tree(alive \cup {p}, items, slot', parent, loose \cup ({a, b} \ {Nobody}))
    <3>1. slot' = Filled(slot, p, a, b)
      BY <1>3 DEF NewPair, Filled
    <3>. QED  BY <2>1, <3>1, Stored DEF Refs
  <2>3. Refs'
    BY <1>3, <2>1, Kinds DEF NewPair, Construct, Refs
  <2>. QED  BY <1>3, <2>2, <2>3 DEF NewPair, Construct
<1>4. ASSUME NEW o \in Object, Fetch(o)  PROVE IInv'
  BY <1>4 DEF Fetch, Refs
<1>5. ASSUME NEW o \in Object, Drop(o)  PROVE IInv'
  BY <1>5, Settled DEF Drop, Refs
<1>6. ASSUME NEW l \in List, NEW o \in Object, PushBack(l, o)  PROVE IInv'
  <2>1. o \in alive /\ l \in List \cap alive
    BY <1>6 DEF PushBack, Refs
  <2>2. /\ Owner(l) = l \/ Owner(l) = Nobody
        /\ loose \subseteq loose'
        /\ Owner(l) = Nobody => o \in loose'
    BY <1>6, Kinds DEF PushBack, Owner
  <2>3. Tree(alive, items', slot, parent', loose')
    <3>1. items' = With(items, l, o) /\ parent' = Reparented(parent, o, Owner(l)) /\ parent[o] = Nobody
      BY <1>6 DEF PushBack, With, Reparented
    <3>. QED  BY <2>1, <2>2, <3>1, Placed DEF Refs
  <2>4. Refs'
    BY <1>6, <2>1 DEF PushBack, Refs
  <2>. QED  BY <1>6, <2>3, <2>4 DEF PushBack
<1>7. ASSUME NEW l \in List, PopBack(l)  PROVE IInv'
  <2>. DEFINE last == Len(items[l])
              o == items[l][last]
  <2>1. last \in 1 .. Len(items[l])
    <3>1. items[l] \in Seq(Object) /\ items[l] # <<>>
      BY <1>7 DEF PopBack, Tree, Shape
    <3>. QED  BY <3>1
  <2>2. Tree(alive, items', slot, parent', loose) /\ o \in alive
    <3>1. items' = Without(items, l, last) /\ parent' = Reparented(parent, o, Nobody)
      BY <1>7 DEF PopBack, TakenOut, Without, Reparented
    <3>2. items[l][last] = o
      OBVIOUS
    <3>. HIDE DEF last, o
    <3>. QED  BY <2>1, <3>1, <3>2, Taken DEF Refs
  <2>3. Refs'
    BY <1>7, <2>2 DEF PopBack, Refs
  <2>. QED  BY <1>7, <2>2, <2>3 DEF PopBack
<1>8. ASSUME NEW l \in List, NEW o \in Object, NEW r \in Object \cup {Nobody}, RemoveItem(l, o, r)
      PROVE  IInv'
  <2>1. PICK i \in 1 .. Len(items[l]) :
          FirstAt(items[l], o, i) /\ r \in Returned(items[l], i) /\ items' = TakenOut(l, i)
    BY <1>8 DEF RemoveItem
  <2>2. Tree(alive, items', slot, parent', loose) /\ o \in alive
    <3>1. items' = Without(items, l, i) /\ parent' = Reparented(parent, o, Nobody) /\ items[l][i] = o
      BY <1>8, <2>1 DEF RemoveItem, TakenOut, FirstAt, Without, Reparented
    <3>. QED  BY <3>1, Taken DEF Refs
  <2>3. r \in alive \cup {Nobody}
    <3>1. items[l] \in Seq(Object)
      BY DEF Tree, Shape
    <3>2. CASE i < Len(items[l])
      <4>1. i + 1 \in 1 .. Len(items[l]) /\ r = items[l][i + 1]
        BY <3>1, <3>2, <2>1 DEF Returned
      <4>. QED  BY <4>1 DEF Tree, Shape
    <3>3. CASE ~(i < Len(items[l]))
      BY <3>3, <2>1 DEF Returned, Tree, Shape
    <3>. QED  BY <3>2, <3>3
  <2>4. Refs'
    BY <1>8, <2>3 DEF RemoveItem, Refs
  <2>. QED  BY <1>8, <2>2, <2>4 DEF RemoveItem
<1>9. ASSUME NEW l \in List, NEW o \in Object, NEW k \in List, TransferTo(l, o, k)  PROVE IInv'
  <2>1. PICK i \in 1 .. Len(items[l]) :
          /\ FirstAt(items[l], o, i)
          /\ \/ /\ items' = [TakenOut(l, i) EXCEPT ![k] = Append(@, o)]
                /\ parent' = [parent EXCEPT ![o] = Owner(k)]
                /\ loose' = IF k \in owned THEN loose ELSE loose \cup {o}
             \/ /\ items' = TakenOut(l, i)
                /\ parent' = [parent EXCEPT ![o] = Nobody]
                /\ loose' = loose
    BY <1>9 DEF TransferTo
  <2>. DEFINE pa == Reparented(parent, o, Nobody)
  <2>2. Tree(alive, TakenOut(l, i), slot, pa, loose) /\ o \in alive /\ pa[o] = Nobody
    <3>1. TakenOut(l, i) = Without(items, l, i) /\ items[l][i] = o
      BY <2>1 DEF TakenOut, FirstAt, Without
    <3>. QED  BY <3>1, Taken DEF Refs
  <2>3. Tree(alive, items', slot, parent', loose') /\ loose' \in {loose, loose \cup {o}}
    <3>1. CASE items' = TakenOut(l, i) /\ parent' = [parent EXCEPT ![o] = Nobody] /\ loose' = loose
      BY <3>1, <2>2 DEF Reparented
    <3>2. CASE /\ items' = [TakenOut(l, i) EXCEPT ![k] = Append(@, o)]
               /\ parent' = [parent EXCEPT ![o] = Owner(k)]
               /\ loose' = IF k \in owned THEN loose ELSE loose \cup {o}
      <4>1. k \in List \cap alive
        BY <1>9 DEF TransferTo, Refs
      <4>2. /\ Owner(k) = k \/ Owner(k) = Nobody
            /\ loose \subseteq loose'
            /\ Owner(k) = Nobody => o \in loose'
        BY <3>2, Kinds DEF Owner
      <4>3. parent' = Reparented(pa, o, Owner(k))
        <5>1. parent \in [Object -> Object \cup {Nobody}]
          BY DEF Tree, Shape
        <5>. QED  BY <3>2, <5>1 DEF Reparented
      <4>4. items' = With(TakenOut(l, i), k, o)
        BY <3>2 DEF With
      <4>5. alive \in SUBSET Object
        BY DEF Refs
      <4>. DEFINE it == TakenOut(l, i)
                  w == Owner(k)
      <4>6. /\ Tree(alive, it, slot, pa, loose) /\ o \in alive /\ pa[o] = Nobody
            /\ items' = With(it, k, o) /\ parent' = Reparented(pa, o, w)
            /\ w = k \/ w = Nobody
            /\ w = Nobody => o \in loose'
        BY <2>2, <4>2, <4>3, <4>4
      <4>. HIDE DEF pa, it, w
      <4>7. Tree(alive, items', slot, parent', loose')
        BY <4>1, <4>2, <4>5, <4>6, Placed
      <4>. QED  BY <4>7, <3>2
    <3>. QED  BY <2>1, <3>1, <3>2
  <2>4. Refs'
    BY <1>9, <2>2, <2>3 DEF TransferTo, Refs
  <2>. QED  BY <1>9, <2>3, <2>4 DEF TransferTo
<1>10. ASSUME NEW l \in List, ClearList(l)  PROVE IInv'
  <2>. DEFINE it == [items EXCEPT ![l] = <<>>]
              pa == [o \in Object |-> IF o \in ToSet(items[l]) THEN Nobody ELSE parent[o]]
  <2>1. Tree(alive, it, slot, pa, loose)
    BY Emptied DEF Refs
  <2>2. Settle(held, it, slot, pa) /\ held \in SUBSET alive
    BY <1>10 DEF ClearList, Refs
  <2>. HIDE DEF it, pa
  <2>. QED  BY <2>1, <2>2, Settled
<1>11. ASSUME NEW p \in Pair \cap alive, NEW k \in 1 .. 2, NEW v \in alive \cup {Nobody},
              NEW H \in SUBSET alive, ReplaceChild(p, k, v, H)
       PROVE  IInv'
  <2>. DEFINE sl == [slot EXCEPT ![p] = [@ EXCEPT ![k] = v]]
              pa == [o \in Object |-> IF o = slot[p][k] THEN Nobody
                                      ELSE IF o = v THEN p ELSE parent[o]]
  <2>1. Tree(alive, items, sl, pa, loose)
    BY <1>11, Replaced DEF ReplaceChild, Refs
  <2>2. Settle(H, items, sl, pa)
    BY <1>11 DEF ReplaceChild
  <2>. HIDE DEF sl, pa
  <2>. QED  BY <2>1, <2>2, Settled
<1>12. ASSUME NEW p \in Pair, NEW k \in 1 .. 2, NEW v \in Object \cup {Nobody},
              SetChild(p, k, v)
       PROVE  IInv'
  BY <1>11, <1>12 DEF SetChild, Refs
<1>13. ASSUME NEW l \in List, NEW p \in Pair, NEW v \in Object \cup {Nobody},
              SetParameter(l, p, v)
       PROVE  IInv'
  <2>1. p \in alive
    <3>1. items[l] \in Seq(Object)
      BY DEF Tree, Shape
    <3>. QED  BY <3>1, <1>13 DEF SetParameter, ToSet, Tree, Shape
  <2>2. /\ v \in alive \cup {Nobody} /\ held \cup {p} \in SUBSET alive
        /\ ReplaceChild(p, 2, v, held \cup {p}) /\ 2 \in 1 .. 2
    BY <1>13, <2>1 DEF SetParameter, Refs
  <2>. QED  BY <1>11, <2>1, <2>2
<1>14. ASSUME NEW l \in List, NEW p \in Pair, NEW n \in Leaf, NEW v \in Object \cup {Nobody},
              AddParameter(l, p, n, v)
       PROVE  IInv'
  <2>. DEFINE A == alive \cup {p, n}
              L == loose \cup ({n, v} \ {Nobody})
  <2>1. /\ l \in List \cap alive /\ v \in alive \cup {Nobody}
        /\ p \notin alive /\ n \notin alive /\ p # n /\ n \in Object
    BY <1>14, Kinds, ObjectTreeAssumption DEF AddParameter, Refs
  <2>2. Tree(alive \cup {n}, items, slot, parent, loose)
    BY <2>1, Grown DEF Refs
  <2>3. Tree((alive \cup {n}) \cup {p}, items, slot', parent, L)
    <3>1. slot' = Filled(slot, p, n, v)
      BY <1>14 DEF AddParameter, Filled
    <3>2. /\ alive \cup {n} \in SUBSET Object /\ p \notin alive \cup {n}
          /\ n \in (alive \cup {n}) \cup {Nobody} /\ v \in (alive \cup {n}) \cup {Nobody}
      BY <2>1 DEF Refs
    <3>. QED  BY <2>2, <3>1, <3>2, Stored
  <2>4. (alive \cup {n}) \cup {p} = A /\ A \in SUBSET Object
    BY <2>1, Kinds DEF Refs
  <2>5. parent[p] = Nobody
    BY <2>1, Kinds DEF Tree, Shape
  <2>6. /\ Owner(l) = l \/ Owner(l) = Nobody
        /\ L \subseteq loose'
        /\ Owner(l) = Nobody => p \in loose'
    BY <1>14, <2>1, Kinds DEF AddParameter, Owner
  <2>7. Tree(A, items', slot', parent', loose')
    <3>1. items' = With(items, l, p) /\ parent' = Reparented(parent, p, Owner(l))
      BY <1>14 DEF AddParameter, With, Reparented
    <3>2. Tree(A, items, slot', parent, L) /\ l \in List \cap A /\ p \in A
      BY <2>1, <2>3, <2>4
    <3>. HIDE DEF A, L
    <3>. QED  BY <2>4, <2>5, <2>6, <3>1, <3>2, Placed
  <2>8. Refs'
    BY <1>14, <2>1, <2>4 DEF AddParameter, Refs
  <2>. QED  BY <1>14, <2>7, <2>8 DEF AddParameter
<1>15. CASE UNCHANGED vars
  BY <1>15 DEF vars, Refs
<1>. QED
  BY <1>1, <1>2, <1>3, <1>4, <1>5, <1>6, <1>7, <1>8, <1>9, <1>10, <1>12, <1>13, <1>14, <1>15
  DEF Next, ListStep, PairStep

(* The tree is well formed as long as the program runs.                    *)
THEOREM Invariance == Spec => []IInv
BY InitIInv, NextIInv, PTL DEF Spec

(* Lists, children and parents hold objects of the library, or null.       *)
THEOREM TypeCorrect == Spec => []TypeOK
<1>1. IInv => TypeOK
  BY Kinds DEF IInv, Refs, Tree, Shape, TypeOK
<1>. QED  BY <1>1, Invariance, PTL

(* Whatever OwnedList, setChild and the destructors are made to do, an     *)
(* object that has a parent is one of that parent's children.              *)
THEOREM UpAgreesWithDown == Spec => []ParentIsHome
<1>1. IInv => ParentIsHome
  <2>. SUFFICES ASSUME IInv, NEW o \in Object, parent[o] # Nobody
                PROVE  o \in Children(parent[o])
    BY DEF ParentIsHome
  <2>1. CASE parent[o] \in List
    <3>1. PICK i \in 1 .. Len(items[parent[o]]) : items[parent[o]][i] = o
      BY <2>1, Kinds DEF IInv, Tree, Home
    <3>2. items[parent[o]] \in Seq(Object)
      BY <2>1 DEF IInv, Tree, Shape
    <3>. QED  BY <2>1, <3>1, <3>2 DEF Children, ChildrenIn, ToSet
  <2>2. CASE parent[o] \in Pair
    BY <2>2, Kinds DEF IInv, Tree, Home, Children, ChildrenIn
  <2>. QED  BY <2>1, <2>2 DEF IInv, Tree, Home
<1>. QED  BY <1>1, Invariance, PTL

(* push_back and setChild let no object sit in two places, but for those   *)
(* that a constructor or a list without an owner took without a parent.    *)
THEOREM OnePlaceOnly == Spec => []SoleHome
<1>1. IInv => SoleHome
  BY DEF IInv, Tree, Sole, SoleHome
<1>. QED  BY <1>1, Invariance, PTL

=============================================================================
