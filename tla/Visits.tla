------------------------------- MODULE Visits -------------------------------
(***************************************************************************)
(* What a visit function of a netlist frontend does with the context it is *)
(* given, as a plan: what it needs of the object on top of the stack, what *)
(* it adds, opens and reads, which children it visits and what it returns. *)
(* A context is its rule and the word of its children.                     *)
(***************************************************************************)
EXTENDS Naturals, Sequences, FiniteSets

(* An object under construction: its class and the places still free in it. *)
Object(c, free) == [class |-> c, free |-> free]
Nothing == Object("none", <<>>)

(* The places of an object that holds a fixed number of values. *)
Places(c) == CASE c = "Expression"      -> <<"first", "second">>
               [] c = "ExpressionUnary" -> <<"value">>
               [] c = "Parameter"       -> <<"left", "right">>
               [] OTHER                 -> <<>>

(* The subclasses of Value that a frontend creates. *)
Values == {"Number", "Identifier", "String", "Expression", "ExpressionUnary",
           "FunctionCall", "ValueList"}

(* Where symbol t is in a word; the occurrences numbered K, from zero. *)
All(w, t) == {i \in DOMAIN w : w[i] = t}
At(w, t, K) == {i \in All(w, t) : Cardinality({j \in All(w, t) : j < i}) \in K}
Has(w, t) == All(w, t) # {}
Count(w, t) == Cardinality(All(w, t))

(* A child to visit: through accept, through visitChildren on it, or inside *)
(* a parameter opened for it; whether its text is kept by the visitor that  *)
(* visits it; the tokens one of which that visitor takes from it; and how   *)
(* deep in the netlist it is.                                               *)
Item(s, how, text) ==
  [rule |-> s, how |-> how, text |-> text, must |-> {}, lacking |-> "",
   depth |-> 0]
Reading(s, tokens, fault) ==
  [Item(s, "read", TRUE) EXCEPT !.must = tokens, !.lacking = fault]
Accept(s) == Item(s, "accept", FALSE)

(* A pointer that is null and is dereferenced. *)
Null == Item("null", "accept", FALSE)

(* All children named t, or the first one, which the code takes unguarded. *)
Each(w, t, how)  == [i \in 1..Count(w, t) |-> Item(t, how, FALSE)]
First(w, t, how) == IF Has(w, t) THEN <<Item(t, how, FALSE)>> ELSE <<Null>>

(* visitChildren; the text of the symbols at K goes into the tree. *)
Visit(w, K) ==
  [needs |-> {}, fault |-> "", adds |-> "none", opens |-> Nothing,
   attached |-> TRUE, sets |-> "", kept |-> K,
   visits |-> [i \in DOMAIN w |-> Item(w[i], "accept", i \in K)],
   after |-> "none", returns |-> "children", casts |-> FALSE]

(* advance_visit with a new object of class c. *)
Opening(c, w, K) == [Visit(w, K) EXCEPT !.opens = Object(c, Places(c))]

(* The object on top is cast to one of the classes C and changed. *)
Setting(C, w, K) == [Visit(w, K) EXCEPT !.needs = C]

(* A new object of class c is added to the one on top, and not opened. *)
Adding(c, w, K) == [Visit(w, K) EXCEPT !.adds = c]

(* The visit fails at once, by an exception or a null dereference. *)
Failing(fault, w) == [Visit(w, {}) EXCEPT !.fault = fault]
=============================================================================
