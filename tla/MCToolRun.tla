----------------------------- MODULE MCToolRun -----------------------------
(* ToolRun for TLC: a circuit of two defects, one of the same names (other *)
(* values, other nets: serial numbers do not tell), and one with a part    *)
(* less, of whose defects a report too many, or another's, may be found.   *)
EXTENDS ToolRun, TLC

CONSTANTS a, b

SameCircuit == ("asIs" :> {a, b})
Edits       == SameCircuit @@ ("sameNames" :> {a, b}) @@ ("partLess" :> {a})
=============================================================================
