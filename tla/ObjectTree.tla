----------------------------- MODULE ObjectTree -----------------------------
(***************************************************************************)
(* Ownership in the circuit tree of libedacurry: structure::Object with    *)
(* its weak parent pointer, features::OwnedList, and the objects that hold *)
(* children of their own (Expression, ExpressionUnary, ValuePair,          *)
(* Parameter), as a program that uses the Python bindings can drive them.  *)
(*                                                                         *)
(* Objects are reference counted (std::shared_ptr, shared with Python): an *)
(* object lives while the program or a living object refers to it, and a   *)
(* cycle of objects is never freed.  A parent pointer to an object that is *)
(* gone reads as no parent (weak_ptr::lock), which is what parent records. *)
(*                                                                         *)
(* Each list stands for an object with one OwnedList; the binding of       *)
(* Object.parent that assigns the pointer directly is left out.            *)
(***************************************************************************)
EXTENDS Integers, SequencesExt

CONSTANTS
  List,      (* objects with a list: Subckt, Component, ValueList, ...     *)
  Pair,      (* objects with two children: Expression, Parameter, ...      *)
  Leaf,      (* objects without: Node, String, Number, Identifier, ...     *)
  Fits,      (* <<q, o>>: the C++ types let q hold o                       *)
  Nobody,    (* a null pointer                                             *)
  MaxItems   (* bound of the model on the length of a list                 *)

Object == List \cup Pair \cup Leaf

ASSUME ObjectTreeAssumption ==
  /\ List \cap Pair = {} /\ List \cap Leaf = {} /\ Pair \cap Leaf = {}
  /\ Nobody \notin Object
  /\ Fits \subseteq Object \X Object
  /\ MaxItems \in Nat

VARIABLES
  alive,     (* objects that have been constructed and not destroyed       *)
  held,      (* objects the program holds a reference to                   *)
  owned,     (* lists whose setOwner has been called                       *)
  items,     (* OwnedList::_objects                                        *)
  slot,      (* _first and _second, or _left and _right                    *)
  parent,    (* Object::_parent                                            *)
  loose      (* history: objects passed to a constructor, or put in a list *)
             (* without an owner, both of which leave parent unset         *)

vars == <<alive, held, owned, items, slot, parent, loose>>

(* The objects q refers to, when it and sl are the lists and the children. *)
ChildrenIn(it, sl, q) ==
  IF q \in List THEN ToSet(it[q])
  ELSE IF q \in Pair THEN {sl[q][k] : k \in 1 .. 2} \ {Nobody}
  ELSE {}

Children(q) == ChildrenIn(items, slot, q)

(* OwnedList::_owner *)
Owner(l) == IF l \in owned THEN l ELSE Nobody

-----------------------------------------------------------------------------
Init ==
  /\ alive = {} /\ held = {} /\ owned = {} /\ loose = {}
  /\ items = [l \in List |-> <<>>]
  /\ slot = [p \in Pair |-> [k \in 1 .. 2 |-> Nobody]]
  /\ parent = [o \in Object |-> Nobody]

(* What reference counting frees when the program holds H and the objects  *)
(* refer to one another as it and sl say: the least set that contains each *)
(* object nobody refers to but its members.                                *)
Garbage(H, it, sl) ==
  LET children == [q \in alive |-> ChildrenIn(it, sl, q)]
      Closed(S) == \A o \in alive \ (H \cup S) : \E q \in alive \ S : o \in children[q]
      ClosedSets == {S \in SUBSET (alive \ H) : Closed(S)}
  IN  {o \in alive \ H : \A S \in ClosedSets : o \in S}

(* The state after the references have become H, it, sl and the parents    *)
(* pa: destructors run, and ~OwnedList clears the parent of every item it  *)
(* holds, be it the list that item belongs to or not.                      *)
Settle(H, it, sl, pa) ==
  LET D == Garbage(H, it, sl)
      Cleared(o) == o \in D \/ pa[o] \in D \/ \E l \in D \cap List : o \in ToSet(it[l])
  IN  /\ held' = H
      /\ alive' = alive \ D
      /\ owned' = owned \ D
      /\ items' = [l \in List |-> IF l \in D THEN <<>> ELSE it[l]]
      /\ slot' = [p \in Pair |-> IF p \in D THEN [k \in 1 .. 2 |-> Nobody] ELSE sl[p]]
      /\ parent' = [o \in Object |-> IF Cleared(o) THEN Nobody ELSE pa[o]]
      /\ loose' = loose \ D

-----------------------------------------------------------------------------
(* Construction.                                                           *)

Construct(o) ==
  /\ o \notin alive
  /\ alive' = alive \cup {o}
  /\ held' = held \cup {o}

NewLeaf(o) ==
  /\ o \in Leaf
  /\ Construct(o)
  /\ UNCHANGED <<owned, items, slot, parent, loose>>

(* The constructors give their lists weak_from_this() as owner, which is   *)
(* still empty then; the factory and the bindings set it afterwards, for   *)
(* all lists but Analysis::content, which the factory leaves without one.  *)
NewList(l) ==
  /\ Construct(l)
  /\ owned' \in {owned, owned \cup {l}}
  /\ UNCHANGED <<items, slot, parent, loose>>

(* The children given to a constructor are stored as they are: whether     *)
(* they have a parent is not asked, and their parent is not set.           *)
NewPair(p, a, b) ==
  /\ Construct(p)
  /\ \A o \in {a, b} \ {Nobody} : o \in held /\ <<p, o>> \in Fits
  /\ slot' = [slot EXCEPT ![p] = [k \in 1 .. 2 |-> IF k = 1 THEN a ELSE b]]
  /\ loose' = loose \cup ({a, b} \ {Nobody})
  /\ UNCHANGED <<owned, items, parent>>

-----------------------------------------------------------------------------
(* References of the program.                                              *)

(* Indexing, iterating, the getters and Object.parent.                     *)
Fetch(o) ==
  /\ o \in alive \ held
  /\ \E q \in held : o \in Children(q) \/ o = parent[q]
  /\ held' = held \cup {o}
  /\ UNCHANGED <<alive, owned, items, slot, parent, loose>>

Drop(o) ==
  /\ o \in held
  /\ Settle(held \ {o}, items, slot, parent)

-----------------------------------------------------------------------------
(* OwnedList.                                                              *)

(* The loop of remove(object) stops at the first occurrence.               *)
FirstAt(s, o, i) == s[i] = o /\ \A j \in 1 .. i - 1 : s[j] # o

(* Item i of l is taken out and has no parent any more.                    *)
TakenOut(l, i) == [items EXCEPT ![l] = RemoveAt(@, i)]

(* Fault: an object that has a parent is accepted.                         *)
PushBackUnchecked(l, o) ==
  /\ {l, o} \subseteq held /\ <<l, o>> \in Fits
  /\ Len(items[l]) < MaxItems
  /\ items' = [items EXCEPT ![l] = Append(@, o)]
  /\ parent' = [parent EXCEPT ![o] = Owner(l)]
  /\ loose' = IF l \in owned THEN loose ELSE loose \cup {o}
  /\ UNCHANGED <<alive, held, owned, slot>>

(* push_back throws when the object has a parent.                          *)
PushBack(l, o) ==
  /\ {l, o} \subseteq held /\ <<l, o>> \in Fits
  /\ Len(items[l]) < MaxItems
  /\ parent[o] = Nobody
  /\ items' = [items EXCEPT ![l] = Append(@, o)]
  /\ parent' = [parent EXCEPT ![o] = Owner(l)]
  /\ loose' = IF l \in owned THEN loose ELSE loose \cup {o}
  /\ UNCHANGED <<alive, held, owned, slot>>

PopBack(l) ==
  LET last == Len(items[l])
      o == items[l][last]
  IN
  /\ l \in held /\ items[l] # <<>>
  /\ items' = TakenOut(l, last)
  /\ parent' = [parent EXCEPT ![o] = Nobody]
  /\ held' = held \cup {o}
  /\ UNCHANGED <<alive, owned, slot, loose>>

(* What remove(object) returns when it has removed the item at i of s: it  *)
(* reads through the iterator it has just erased, so the item after it; or *)
(* the vector's destroyed last element, which may still hold the pointer.  *)
Returned(s, i) == IF i < Len(s) THEN {s[i + 1]} ELSE {s[i], Nobody}

(* Fault: the null pointer of a failed remove is taken for an object.      *)
RemoveItemNullIsHeld(l, o, r) ==
  /\ {l, o} \subseteq held
  /\ \E i \in 1 .. Len(items[l]) :
       /\ FirstAt(items[l], o, i)
       /\ r \in Returned(items[l], i)
       /\ items' = TakenOut(l, i)
  /\ parent' = [parent EXCEPT ![o] = Nobody]
  /\ held' = held \cup {r}
  /\ UNCHANGED <<alive, owned, slot, loose>>

RemoveItem(l, o, r) ==
  /\ {l, o} \subseteq held
  /\ \E i \in 1 .. Len(items[l]) :
       /\ FirstAt(items[l], o, i)
       /\ r \in Returned(items[l], i)
       /\ items' = TakenOut(l, i)
  /\ parent' = [parent EXCEPT ![o] = Nobody]
  /\ held' = held \cup ({r} \ {Nobody})
  /\ UNCHANGED <<alive, owned, slot, loose>>

(* transfer_to adds the object to the other list only if remove returned   *)
(* something.                                                              *)
TransferTo(l, o, k) ==
  /\ {l, o, k} \subseteq held /\ <<k, o>> \in Fits
  /\ \E i \in 1 .. Len(items[l]) :
       /\ FirstAt(items[l], o, i)
       /\ \/ /\ Len(TakenOut(l, i)[k]) < MaxItems
             /\ items' = [TakenOut(l, i) EXCEPT ![k] = Append(@, o)]
             /\ parent' = [parent EXCEPT ![o] = Owner(k)]
             /\ loose' = IF k \in owned THEN loose ELSE loose \cup {o}
          \/ /\ Nobody \in Returned(items[l], i)
             /\ items' = TakenOut(l, i)
             /\ parent' = [parent EXCEPT ![o] = Nobody]
             /\ UNCHANGED loose
  /\ UNCHANGED <<alive, held, owned, slot>>

(* Fault: the items of the list keep their parent.                         *)
ClearListKeepsParents(l) ==
  /\ l \in held
  /\ Settle(held, [items EXCEPT ![l] = <<>>], slot, parent)

ClearList(l) ==
  /\ l \in held
  /\ Settle(held, [items EXCEPT ![l] = <<>>], slot,
            [o \in Object |-> IF o \in ToSet(items[l]) THEN Nobody ELSE parent[o]])

-----------------------------------------------------------------------------
(* Object::setChild, through setFirst, setSecond, setValue, setLeft and    *)
(* setRight; Component::setParameter.                                      *)

(* It throws when the new child has a parent; the new child's parent is    *)
(* set before the old one's is cleared.                                    *)
ReplaceChild(p, k, v, H) ==
  /\ slot[p][k] # v
  /\ v # Nobody => <<p, v>> \in Fits /\ parent[v] = Nobody
  /\ Settle(H, items, [slot EXCEPT ![p] = [@ EXCEPT ![k] = v]],
            [o \in Object |-> IF o = slot[p][k] THEN Nobody
                              ELSE IF o = v THEN p ELSE parent[o]])

SetChild(p, k, v) ==
  /\ p \in held /\ v \in held \cup {Nobody}
  /\ ReplaceChild(p, k, v, held)

(* A parameter of that name exists: its right-hand side is replaced.       *)
SetParameter(l, p, v) ==
  /\ l \in held /\ v \in held \cup {Nobody}
  /\ p \in ToSet(items[l]) /\ slot[p][1] \in Leaf
  /\ ReplaceChild(p, 2, v, held \cup {p})

(* None does: the constructor takes the right-hand side as it is, and the  *)
(* new parameter joins the list.                                           *)
AddParameter(l, p, n, v) ==
  /\ l \in held /\ v \in held \cup {Nobody}
  /\ {p, n} \cap alive = {}
  /\ {<<l, p>>, <<p, n>>} \subseteq Fits /\ (v # Nobody => <<p, v>> \in Fits)
  /\ Len(items[l]) < MaxItems
  /\ alive' = alive \cup {p, n}
  /\ held' = held \cup {p}
  /\ slot' = [slot EXCEPT ![p] = [k \in 1 .. 2 |-> IF k = 1 THEN n ELSE v]]
  /\ items' = [items EXCEPT ![l] = Append(@, p)]
  /\ parent' = [parent EXCEPT ![p] = Owner(l)]
  /\ loose' = loose \cup ({n, v} \ {Nobody}) \cup (IF l \in owned THEN {} ELSE {p})
  /\ UNCHANGED owned

-----------------------------------------------------------------------------
ListStep(l) ==
  \/ NewList(l) \/ PopBack(l) \/ ClearList(l)
  \/ \E o \in Object :
       \/ PushBack(l, o)
       \/ \E r \in Object \cup {Nobody} : RemoveItem(l, o, r)
       \/ \E k \in List : TransferTo(l, o, k)
  \/ \E p \in Pair, v \in Object \cup {Nobody} :
       \/ SetParameter(l, p, v)
       \/ \E n \in Leaf : AddParameter(l, p, n, v)

PairStep(p) ==
  \/ \E a, b \in Object \cup {Nobody} : NewPair(p, a, b)
  \/ \E k \in 1 .. 2, v \in Object \cup {Nobody} : SetChild(p, k, v)

Next ==
  \/ \E l \in List : ListStep(l)
  \/ \E p \in Pair : PairStep(p)
  \/ \E o \in Object : NewLeaf(o) \/ Fetch(o) \/ Drop(o)

Spec == Init /\ [][Next]_vars

-----------------------------------------------------------------------------
(* Type invariant.                                                         *)
TypeOK ==
  /\ alive \subseteq Object /\ held \subseteq Object
  /\ owned \subseteq List /\ loose \subseteq Object
  /\ items \in [List -> Seq(Object)]
  /\ slot \in [Pair -> [1 .. 2 -> Object \cup {Nobody}]]
  /\ parent \in [Object -> Object \cup {Nobody}]

(* Going up agrees with going down: an object whose parent is q is one of  *)
(* the objects q holds.  No operation takes an object out of its place and *)
(* leaves it a parent, which would bar it from every other place.          *)
ParentIsHome ==
  \A o \in Object : parent[o] # Nobody => o \in Children(parent[o])

(* "Cannot add the same object to two lists": an object that was never     *)
(* given to a constructor nor put in a list without an owner sits in one   *)
(* place at most, once, and its parent is the object it sits in.           *)
SoleHome ==
  \A o \in Object \ loose :
    /\ \A l \in List : \A i \in 1 .. Len(items[l]) :
         items[l][i] = o =>
           /\ parent[o] = l
           /\ \A j \in 1 .. Len(items[l]) : items[l][j] = o => j = i
    /\ \A p \in Pair, k \in 1 .. 2 :
         slot[p][k] = o => parent[o] = p /\ slot[p][3 - k] # o

=============================================================================
