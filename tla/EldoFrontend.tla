---------------------------- MODULE EldoFrontend ----------------------------
(***************************************************************************)
(* The visit functions of the Eldo frontend (eldo_frontend.cpp): the plan  *)
(* each of them follows on a context, from the last section of the file to *)
(* the first.  A rule that is not named calls visitChildren and no more.   *)
(***************************************************************************)
EXTENDS EldoGrammar, Visits

Operators == {w[1] : w \in expression_operator}

(* Expressions, nodes and parameters. *)
VisitValues(r, w) ==
  CASE r = "expression" /\ Count(w, "expression") = 2
                        /\ Has(w, "expression_operator") ->
         [Opening("Expression", w, All(w, "expression_operator")) EXCEPT
            !.visits = [i \in DOMAIN w |->
                          IF w[i] = "expression_operator"
                          THEN Reading(w[i], Operators, "thrown")
                          ELSE Accept(w[i])]]
    [] r = "expression_unary" -> Opening("ExpressionUnary", w, {})
    [] r = "expression_function_call" ->
         Opening("FunctionCall", w, All(w, "ID"))
    [] r = "expression_list" ->
         IF \E t \in {"OPEN_ROUND", "OPEN_SQUARE", "OPEN_CURLY"} : Has(w, t)
         THEN Opening("ValueList", w, {})
         ELSE Failing("thrown", w)
    [] r = "expression_atom" ->
         IF Has(w, "NUMBER") THEN Opening("Number", w, At(w, "NUMBER", {0}))
         ELSE IF \E t \in {"ID", "PERCENTAGE", "STRING"} : Has(w, t)
              THEN Opening("Identifier", w, DOMAIN w)
              ELSE Failing("thrown", w)
    [] r = "node_mapping" ->
         [Adding("Parameter", w, All(w, "node")) EXCEPT
            !.visits = [i \in 1..Count(w, "node") |->
                          Reading("node", {"ID", "NUMBER"}, "thrown")]]
    [] r = "node" ->
         IF Has(w, "ID") \/ Has(w, "NUMBER") THEN Opening("Node", w, DOMAIN w)
         ELSE Failing("thrown", w)
    [] r = "parameter" -> Opening("Parameter", w, {})
    [] r = "parameter_lhs" ->
         [Setting({"Parameter"}, w, All(w, "ID")) EXCEPT
            !.sets = IF \E t \in {"ID", "MOD", "MODEL"} : Has(w, t)
                     THEN "left" ELSE ""]
    [] OTHER -> Visit(w, {})

(* The types of component: they name the component on top of the stack. *)
Named == {"RESISTOR", "CAPACITOR", "INDUCTOR", "COUPLED_INDUCTOR",
          "DIFFUSION_RESISTOR", "TRANSMISSION_LINE",
          "LOSSY_TRANSMISSION_LINE", "LTL_W_MODEL", "LTL_U_MODEL",
          "JUNCTION_DIODE", "BJT", "JFET", "MOSFET", "SUBCK_INSTANCE",
          "IVSOURCE", "ICSOURCE", "VCVS", "CCCS", "VCCS", "CCVS", "NOISE",
          "SW", "OPA", "DIG_NAND", "DIG_AND", "DIG_OR", "DIG_NOR", "DIG_XOR"}
VisitComponentTypes(r, w) ==
  LET name == {i \in DOMAIN w : w[i] \in Named}
      IsComponent(K) == Setting({"Component"}, w, name \cup K)
  IN  CASE r \in {"resistor", "capacitor", "diffusion_resistor", "jfet",
                  "mosfet", "subckt_instance", "sw",
                  "operational_amplifier"} -> IsComponent(At(w, "ID", {0}))
        [] r = "coupled_inductor" -> IsComponent(At(w, "ID", {0, 1}))
        [] r = "two_input_gate" ->
             IsComponent(At(w, "ID", IF Count(w, "ID") = 3 THEN 0..2
                                     ELSE IF Count(w, "ID") = 1 THEN {0}
                                     ELSE {0, 1}))
        [] r \in {"inductor", "transmission_line", "junction_diode", "bjt",
                  "lossy_transmission_line", "ltl_w_model", "ltl_u_model",
                  "ivsource", "icsource", "vcvs", "cccs", "vccs", "ccvs",
                  "noise_function"} -> IsComponent({})
        [] OTHER -> VisitValues(r, w)

(* A component and its attributes.  A table and a list of values are built *)
(* on the stack and added in a parameter when they are complete.           *)
VisitComponents(r, w) ==
  LET Marked(token) == IF Has(w, token) THEN Adding("Parameter", w, {})
                       ELSE Visit(w, {})
      Listing(items) == [Opening("ValueList", w, {}) EXCEPT
                           !.attached = FALSE, !.visits = items,
                           !.after = "Parameter"]
  IN  CASE r = "component" -> Opening("Component", w, {})
        [] r = "component_value" /\ Has(w, "STRING") ->
             Adding("Parameter", w, All(w, "STRING"))
        [] r = "component_parameter_list"    -> Marked("PARAM_LIST_START")
        [] r = "component_positional_keywork" -> Marked("NOISE")
        [] r = "component_pin_list"          -> Marked("PIN_LIST_START")
        [] r = "component_port_list"         -> Marked("PORT_LIST_START")
        [] r = "component_net_list"          -> Marked("NET_LIST_START")
        [] r = "component_coupling_list"     -> Marked("COUPLING_LIST_START")
        [] r = "component_table" -> Listing(First(w, "expression", "children"))
        [] r = "component_value_list" ->
             Listing(Each(w, "expression", "children"))
        [] OTHER -> VisitComponentTypes(r, w)

(* .meas: each configuration is a parameter of the control statement. *)
VisitMeasures(r, w) ==
  CASE r = "meas" -> Opening("Control", w, {})
    [] r \in {"meas_info", "meas_label_name"} ->
         Adding("Parameter", w, At(w, "ID", {0}))
    [] r \in {"meas_vect", "meas_catvect", "meas_trig", "meas_targ"} ->
         Adding("Parameter", w, {})
    [] r \in {"meas_find", "meas_at", "meas_when", "meas_derivative",
              "meas_param"} ->
         [Visit(w, {}) EXCEPT !.visits = First(w, "expression", "Parameter")]
    [] OTHER -> VisitComponents(r, w)

(* The other control statements. *)
VisitControls(r, w) ==
  CASE r = "alter_definition" -> Opening("ControlScope", w, {})
    [] r = "alter_header" -> Setting({"ControlScope"}, w, All(w, "ID"))
    [] r \in {"save", "option", "nodeset", "defmac"} ->
         Opening("Control", w, {})
    [] r \in {"print", "plot", "probe"} ->
         Opening("Control", w, At(w, "ID", {0}))
    [] r = "temp" -> Opening("Control", w, All(w, "NUMBER"))
    [] r = "save_file" ->
         Adding("Parameter", w, At(w, "ID", {0}) \cup All(w, "filepath"))
    [] r = "save_when" /\ Has(w, "ID") ->
         Adding("Parameter", w, At(w, "ID", {0}))
    [] r = "chrent" ->
         [Opening("Control", w, All(w, "node")) EXCEPT
            !.visits =
              [i \in 1..Count(w, "node") |->
                 Reading("node", {"ID", "NUMBER"}, "thrown")]
              \o First(w, "chrent_behaviour", "children")]
    [] r = "chrent_point" ->
         Setting({"Control", "ControlScope"}, w, At(w, "NUMBER", {0}))
    [] r = "chrent_pair" ->
         [Adding("Parameter", w, At(w, "NUMBER", {0, 1})) EXCEPT
            !.needs = {"Control", "ControlScope"}]
    [] OTHER -> VisitMeasures(r, w)

(* Fault: a model is added, but not pushed. *)
VisitModelsUnopened(r, w) ==
  CASE r = "model" -> Adding("Model", w, {})
    [] r \in {"model_lib", "model_name", "model_master", "model_lib_type"} ->
         Setting({"Model"}, w, At(w, "ID", {0}))
    [] OTHER -> VisitControls(r, w)

(* Models. *)
VisitModels(r, w) ==
  CASE r = "model" -> Opening("Model", w, {})
    [] r \in {"model_lib", "model_name", "model_master", "model_lib_type"} ->
         Setting({"Model"}, w, At(w, "ID", {0}))
    [] OTHER -> VisitControls(r, w)

(* Analyses whose visit function does more than to take tokens in order.   *)
(* .op takes the identifier after the one it has counted, and visits each  *)
(* expression a second time with all the children.                         *)
VisitOpSelective(w) ==
  LET ids == Count(w, "ID")
      times == Each(w, "expression", "Parameter")
  IN  [Setting({"Analysis"}, w, At(w, "ID", 1..Len(times))) EXCEPT
         !.visits = IF ids \in 1..Len(times)
                    THEN SubSeq(times, 1, ids - 1) \o <<Null>>
                    ELSE times \o [i \in DOMAIN w |-> Accept(w[i])]]

VisitTranParameterized(w) ==
  LET pairs == Count(w, "expression") \div 2
  IN  IF pairs = 0 THEN Failing("thrown", w)
      ELSE [Setting({"Analysis"}, w, {}) EXCEPT
              !.visits = SubSeq(Each(w, "expression", "Parameter"), 1, 2 * pairs)
                         \o Each(w, "parameter_list", "children")]

(* Fault: the name of the second source is taken for the third identifier, *)
(* although the type before it is optional.                                *)
VisitDcSourceTyped(w) ==
  IF Count(w, "NUMBER") = 6 /\ Count(w, "ID") <= 2 THEN Failing("crashed", w)
  ELSE Setting({"Analysis"}, w, All(w, "ID") \cup All(w, "NUMBER"))

(* .dc with a second source: the name of that source is read unguarded. *)
VisitDcSource(w) ==
  LET ids == Count(w, "ID")
      second == Count(w, "NUMBER") = 6
      name2 == IF ids = 3 THEN 2 ELSE 1
      type == IF (second /\ ids = 3) \/ (~second /\ ids = 2) THEN {1} ELSE {}
  IN  IF second /\ ids <= name2 THEN Failing("crashed", w)
      ELSE Setting({"Analysis"}, w,
             At(w, "ID", {0} \cup type \cup (IF second THEN {name2} ELSE {}))
             \cup At(w, "NUMBER", IF second THEN 0..5 ELSE 0..2))

(* Fault: one value too few is taken. *)
VisitTranPointDrivenShort(w) ==
  IF Count(w, "NUMBER") < 2 THEN Failing("thrown", w)
  ELSE Setting({"Analysis"}, w, At(w, "NUMBER", 0..(Count(w, "NUMBER") - 2)))

VisitTranPointDriven(w) ==
  IF Count(w, "NUMBER") < 2 THEN Failing("thrown", w)
  ELSE Setting({"Analysis"}, w, All(w, "NUMBER"))

(* Analyses: the tokens that become parameters, by kind and index. *)
VisitAnalyses(r, w) ==
  LET Analysis(ids, numbers) ==
        Setting({"Analysis"}, w, At(w, "ID", ids) \cup At(w, "NUMBER", numbers))
      Optional(t, n, K) == IF Count(w, t) = n THEN K ELSE {}
  IN  CASE r = "analysis" -> Opening("Analysis", w, {})
        [] r \in {"ac_parameter_driven", "ac_adaptive"} -> Analysis({0}, 0..2)
        [] r \in {"ac_list_driven", "dsp", "four", "wcase"} -> Analysis({0}, {})
        [] r = "dc_component_analysis" -> Analysis(0..2, 0..2)
        [] r = "dc_source_analysis" -> VisitDcSource(w)
        [] r = "dc_temperature_analysis" -> Analysis({}, 0..2)
        [] r = "dc_parameter_analysis" -> Analysis(0..1, 0..2)
        [] r \in {"lstb", "pz"} ->
             Setting({"Analysis"}, w, All(w, "filepath"))
        [] r \in {"mc", "noise"} -> Analysis({}, {0})
        [] r = "op_selective" -> VisitOpSelective(w)
        [] r = "ramp" -> Analysis({0} \cup Optional("ID", 2, {1}),
                                  {0} \cup Optional("NUMBER", 2, {1}))
        [] r = "solve_parameter" -> Analysis({0}, 0..1)
        [] r \in {"solve_object", "solve_component"} -> Analysis(0..1, 0..1)
        [] r = "tran_point_driven" -> VisitTranPointDriven(w)
        [] r = "tran_parameterized" -> VisitTranParameterized(w)
        [] r \in {"ac_data_driven", "age", "checksoa",
                  "dc_data_driven_analysis", "dchiz", "dcmismatch", "dex",
                  "dspmod", "noisetran", "op_time_based", "op_dc_based",
                  "optfour", "optimize", "optnoise", "sens", "sensac",
                  "sensparam", "snf", "tf", "tran_data_driven", "extract"} ->
             Analysis({}, {})
        [] OTHER -> VisitModels(r, w)

(* The netlist, files, libraries and subcircuits; top is the class of the  *)
(* object on top of the stack.                                             *)
Plan(r, w, top) ==
  CASE r = "netlist" -> Opening("Circuit", w, {})
    [] r = "netlist_title" -> Setting({"Circuit"}, w, All(w, "ID"))
    [] r \in {"standard_include", "verilog_include", "dspf_include"} ->
         Opening("Include", w, All(w, "filepath"))
    [] r = "library" -> Opening("Library", w, {})
    [] r = "library_path" -> Setting({"Library"}, w, All(w, "filepath"))
    [] r = "library_name" ->
         Visit(w, IF top \in {"Library", "LibraryDef"} THEN All(w, "ID") ELSE {})
    [] r = "library_def" -> Opening("LibraryDef", w, {})
    [] r = "subckt" -> Opening("Subckt", w, {})
    [] r = "subckt_header" -> Setting({"Subckt"}, w, At(w, "ID", {0}))
    [] OTHER -> VisitAnalyses(r, w)
=============================================================================
