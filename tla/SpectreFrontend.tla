--------------------------- MODULE SpectreFrontend ---------------------------
(***************************************************************************)
(* The visit functions of the Spectre frontend (spectre_frontend.cpp): the *)
(* plan each of them follows on a context.  A rule that is not named calls *)
(* visitChildren and no more.                                              *)
(***************************************************************************)
EXTENDS SpectreGrammar, Visits

(* The operators that to_operator_internal knows. *)
Operators == {w[1] : w \in expression_operator}
               \ {"LOGIC_XOR", "POWER_OPERATOR"}

(* An atom becomes a value by the first of its children that is not null. *)
VisitAtom(w) ==
  LET Leaf(c) == [Adding(c, w, DOMAIN w) EXCEPT !.visits = <<>>,
                    !.returns = IF c = "Number" THEN "Value" ELSE "other"]
      words == {"keyword", "analysis_type", "component_type", "PERCENTAGE"}
  IN  CASE Has(w, "NUMBER") -> Leaf("Number")
        [] ~Has(w, "NUMBER") /\ Has(w, "ID") -> Leaf("Identifier")
        [] ~Has(w, "NUMBER") /\ ~Has(w, "ID") /\ Has(w, "STRING") ->
             Leaf("String")
        [] OTHER -> IF \E s \in words : Has(w, s) THEN Leaf("Identifier")
                    ELSE [Visit(w, {}) EXCEPT !.visits = <<>>,
                            !.returns = "null"]

(* A number that stod refuses, such as one beyond the doubles, is no value. *)
VisitUnread(w) == [Visit(w, {}) EXCEPT !.visits = <<>>, !.returns = "null"]

(* Two operands and the operator between them, read before they are visited. *)
VisitBinary(w) ==
  [Opening("Expression", w, All(w, "expression_operator")) EXCEPT
     !.visits = (IF Has(w, "expression_operator")
                 THEN <<Reading("expression_operator", Operators, "thrown")>>
                 ELSE <<Null>>) \o Each(w, "expression", "accept"),
     !.returns = "other"]

VisitExpressions(r, w) ==
  CASE r = "expression" /\ Count(w, "expression") = 2 -> VisitBinary(w)
    [] r = "expression_unary" ->
         IF w = <<>> THEN Failing("crashed", w)
         ELSE IF w[1] \notin {"PLUS", "MINUS"} THEN Failing("thrown", w)
         ELSE [Opening("ExpressionUnary", w, {}) EXCEPT
                 !.visits = First(w, "expression", "accept"),
                 !.returns = "other"]
    [] r = "expression_function_call" ->
         IF ~Has(w, "ID") THEN Failing("crashed", w)
         ELSE [Opening("FunctionCall", w, All(w, "ID")) EXCEPT
                 !.visits = Each(w, "expression", "accept"),
                 !.returns = "other"]
    [] r = "expression_scope" ->
         IF Count(w, "expression") = 1
         THEN [Visit(w, {}) EXCEPT !.visits = Each(w, "expression", "accept"),
                                   !.returns = "last"]
         ELSE [Opening("ValueList", w, {}) EXCEPT !.returns = "other"]
    [] r \in {"expression_atom", "array_item"} -> VisitAtom(w)
    [] r = "array_expression" -> Opening("ValueList", w, {})
    [] OTHER -> Visit(w, {})

(* A parameter: its name is the left value, what is visited the right one. *)
VisitParameter(w) ==
  LET value == CASE Has(w, "array_expression") -> "array_expression"
                 [] ~Has(w, "array_expression") /\ Has(w, "expression") ->
                      "expression"
                 [] OTHER -> "none"
      path == value = "none" /\ Has(w, "filepath")
  IN  IF ~Has(w, "parameter_id") THEN Failing("crashed", w)
      ELSE [Opening("Parameter", w,
                    All(w, "parameter_id") \cup All(w, "filepath")) EXCEPT
              !.opens.free = IF path THEN <<>> ELSE <<"right">>,
              !.visits = Each(w, value, "accept")]

VisitNodes(r, w) ==
  CASE r \in {"parameter_assign", "parameter_list_item"} -> VisitParameter(w)
    [] r \in {"node", "node_branch"} -> Opening("Node", w, DOMAIN w)
    [] r = "node_list_item" ->
         [Adding("Node", w, DOMAIN w) EXCEPT !.visits = <<>>]
    [] OTHER -> VisitExpressions(r, w)

(* Control statements, models and components.  What visit(...) returns for *)
(* the value of a component must be held as a pointer to Value.            *)
VisitComponents(r, w) ==
  LET Lacks(S) == \E s \in S : ~Has(w, s)
  IN  CASE r = "lang" /\ Has(w, "ID") -> Opening("Control", w, All(w, "ID"))
        [] r \in {"option", "info"} ->
             Opening(IF r = "info" THEN "Analysis" ELSE "Control", w,
                     All(w, "ID"))
        [] r = "save" ->
             [Opening("Control", w, All(w, "ID")) EXCEPT
                !.visits = Each(w, "parameter_list", "accept")]
        [] r = "model" ->
             IF Lacks({"model_name", "model_master"}) THEN Failing("crashed", w)
             ELSE [Opening("Model", w,
                           All(w, "model_name") \cup All(w, "model_master"))
                     EXCEPT !.visits = Each(w, "parameter_assign", "accept")]
        [] r = "component" ->
             IF Lacks({"component_id"}) THEN Failing("crashed", w)
             ELSE Opening("Component", w,
                          All(w, "component_id") \cup All(w, "component_master"))
        [] r = "component_value" ->
             [Visit(w, {}) EXCEPT !.visits = First(w, "expression", "accept"),
                                  !.casts = TRUE, !.returns = "last"]
        [] r = "component_value_list" ->
             [Opening("ValueList", w, {}) EXCEPT
                !.visits = Each(w, "expression", "accept")]
        [] OTHER -> VisitNodes(r, w)

(* Analyses are named by an identifier or by their keyword; those with a    *)
(* body take the name from its header.                                      *)
VisitAnalyses(r, w) ==
  CASE r \in {"ac", "acmatch", "dc", "dcmatch", "envlp", "sp", "stb", "tdr",
              "tran", "xf", "pac", "pdisto", "pnoise", "psp", "pss", "pxf",
              "pz", "qpac", "qpnoise", "qpsp", "qpss", "qpxf", "noise",
              "checklimit"} -> Opening("Analysis", w, All(w, "ID"))
    [] r \in {"sweep", "montecarlo", "reliability", "sens"} ->
         Opening("Analysis", w, {})
    [] r \in {"sweep_header", "montecarlo_header"} -> Visit(w, All(w, "ID"))
    [] OTHER -> VisitComponents(r, w)

(* The netlist, files, libraries and subcircuits.  The name of a library or *)
(* of a subcircuit is taken from its header, unguarded.                     *)
Plan(r, w, top) ==
  LET Named(c, header) ==
        IF ~Has(w, header) THEN Failing("crashed", w)
        ELSE [Opening(c, w, {}) EXCEPT
                !.visits = [i \in DOMAIN w |->
                  IF i \in At(w, header, {0})
                  THEN [Accept(w[i]) EXCEPT !.must = {"ID"}, !.lacking = "crashed"]
                  ELSE Accept(w[i])]]
  IN  CASE r = "netlist" -> [Opening("Circuit", w, {}) EXCEPT !.attached = FALSE]
        [] r = "netlist_title" ->
             [Visit(w, DOMAIN w) EXCEPT !.visits = <<>>]
        [] r \in {"standard_include", "cpp_include", "ahdl_include"} ->
             Opening("Include", w, All(w, "filepath"))
        [] r = "library" -> Named("Library", "library_header")
        [] r = "subckt" -> Named("Circuit", "subckt_header")
        [] r \in {"library_header", "subckt_header"} -> Visit(w, All(w, "ID"))
        [] OTHER -> VisitAnalyses(r, w)
=============================================================================
