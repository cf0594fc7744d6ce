----------------------------- MODULE MCFrontend -----------------------------
EXTENDS Frontend

MCLangs == {"eldo", "spectre"}

(* Every cycle of the two grammars has one of these steps. *)
MCDeepens ==
  ({"netlist_entity"} \X {"subckt", "library", "library_def", "section"})
    \cup ({"analysis"} \X {"sweep", "montecarlo", "reliability"})
    \cup ({"control"} \X {"altergroup", "alter"})
    \cup ({"statistics_content"} \X {"process", "mismatch"})
    \cup {<<"if_body", "if_statement">>}
    \cup ({"expression"} \X {"expression", "expression_unary",
            "expression_function_call", "expression_list", "expression_scope"})
    \cup {<<"node", "node">>}

(* A recovered context is cut off, and may end in a stray token of a kind   *)
(* that visitors look for.                                                  *)
MCSkipped == {<<>>, <<"ID">>}
=============================================================================
