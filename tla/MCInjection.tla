----------------------------- MODULE MCInjection -----------------------------
(* Injection for TLC, on the circuits of MCDefectUniverse and on some with *)
(* a component that has the name of a subcircuit, or dots in its name.     *)
EXTENDS Injection, MCDefectUniverse

MCOpened(n) == n \o "_open"

(* X1.X1 has the name of the subcircuit; Y.Y1 is looked for in no          *)
(* subcircuit and X1.Y1 in the first, where both are taken for Y1.         *)
OddNames == {"X1", "Y.Y1", "X1.Y1"}
OddCircuits == {<< InstancesAs(<<"Y1", odd>>, 1, s) >> : s \in [1 .. 2 -> Few], odd \in OddNames}
MCCircuits  == AllCircuits \cup OddCircuits

MCSubcircuits == {SubcktOf(1), SubcktOf(2)}

Addresses == {<<SubcktOf(i), n>> : i \in 1 .. 2,
                                   n \in OddNames \cup {PartNames[k] : k \in DOMAIN PartNames}}
MCAddress(instance) == CHOOSE a \in Addresses : a[1] \o "." \o a[2] = instance
MCSplit(instance) ==
  CASE MCAddress(instance)[2] = "Y.Y1"  -> <<"Y", "Y1">>
    [] MCAddress(instance)[2] = "X1.Y1" -> <<"X1", "Y1">>
    [] OTHER -> MCAddress(instance)
=============================================================================
