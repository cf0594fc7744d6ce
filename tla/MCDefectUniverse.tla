-------------------------- MODULE MCDefectUniverse --------------------------
(* DefectUniverse for TLC: circuits of at most three components of all     *)
(* kinds, in one content or two.                                           *)
EXTENDS DefectUniverse, TLC

Strings == STRING

P(n, v) == [name |-> n, value |-> v]
C(k, m, n, p) == [kind |-> k, master |-> m, nodes |-> n, params |-> p]

ResistorR == C("resistor", "", <<"a", "b">>, << P("r", 3) >>)
ResistorM == C("resistor", "", <<"a", "b">>, << P("r", 3), P("m", 2) >>)
ResistorT == C("resistor", "", <<"b", "c">>, << P("tc", 1), P("r", 2) >>)
Bare      == C("inductor", "", <<"a", "c">>, <<>>)
Capacitor == C("capacitor", "", <<"a", "c">>, << P("c", 2) >>)
Nmos      == C("mosfet", "nch", <<"a", "b", "c", "s">>, << P("w", 4), P("l", 1), P("m", 1) >>)
Tied      == C("mosfet", "nch", <<"a", "b", "s", "s">>, << P("l", 3), P("w", 4) >>)
NoWidth   == C("mosfet", "nch", <<"a", "b", "c", "s">>, << P("l", 1) >>)
Junction  == C("diode", "d", <<"a", "s">>, << P("area", 2), P("is", 1) >>)
Supply    == C("source", "", <<"a", "s">>, << P("dc", Symbolic) >>)
Bipolar   == C("other", "q", <<"a", "b", "s">>, <<>>)
Nameless  == C("unknown", "z", <<"a", "b">>, << P("r", 1) >>)
NamedValue == C("capacitor", "", <<"a", "b">>, << P("c", Symbolic) >>)
Dangling  == C("mosfet", "nch", <<"a", "b", "c">>, << P("w", 4) >>)
Unnamed   == C("resistor", "", <<"a", "b">>, << P("", 3) >>)

Parts == {ResistorR, ResistorM, ResistorT, Bare, Capacitor, Nmos, Tied, NoWidth,
          Junction, Supply, Bipolar, Nameless, NamedValue, Unnamed, Dangling}
Few   == {ResistorR, ResistorT, Bare, Nmos, Junction, Supply}

SubcktOf(i)  == "X" \o ToString(i)
PartNames    == <<"Y1", "Y2", "Y3">>

(* Parts as the content of a subcircuit, each with a name of its own.      *)
InstancesAs(names, i, parts) ==
  [k \in DOMAIN parts |->
     [name |-> SubcktOf(i) \o "." \o names[k], kind |-> parts[k].kind, master |-> parts[k].master,
      nodes |-> parts[k].nodes, params |-> parts[k].params]]

Instances(i, parts) == InstancesAs(PartNames, i, parts)

OneContent == {<< Instances(1, s) >> : s \in UNION {[1 .. n -> Parts] : n \in 1 .. 3}}
TwoContents == {<< Instances(1, s), Instances(2, t) >> : s \in [1 .. 2 -> Few], t \in [1 .. 1 -> Few]}
AllCircuits == OneContent \cup TwoContents

M(m, c, b, x) == [merge |-> m, collapse |-> c, bulk |-> b, excluded |-> x]
AllManifests == {M(TRUE, TRUE, TRUE, {}), M(TRUE, TRUE, FALSE, {"l"}), M(FALSE, TRUE, TRUE, {"r"}),
                 M(FALSE, FALSE, TRUE, {})}

(* Circuits small enough to show what goes wrong.                          *)
TransistorWithoutWidth == {<< Instances(1, << NoWidth >>) >>}
ResistorAndCapacitor   == {<< Instances(1, << ResistorR, Capacitor >>) >>}
Optimised              == {M(TRUE, TRUE, TRUE, {})}
=============================================================================
