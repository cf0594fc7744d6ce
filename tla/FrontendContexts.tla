-------------------------- MODULE FrontendContexts --------------------------
(***************************************************************************)
(* Where a visit may take place: for each symbol of the two grammars, the  *)
(* classes that the object on top of the stack may have when a context of  *)
(* the rule is visited, and for each class what may be added to it.  The   *)
(* casts of the visitors hold because no visit leaves these bounds, which  *)
(* the invariant at the end of the module says.                            *)
(***************************************************************************)
EXTENDS Frontend

(* Eldo: the rules by where they are visited.                               *)
EldoScopes == {"Circuit", "ControlScope", "LibraryDef", "Subckt"}

EldoStatements ==
  {"alter", "alter_definition", "analysis", "call_tcl", "call_tcl_when",
   "chrent", "component", "connect", "control", "defmac", "defwave",
   "dspf_include", "ffile", "ffile_singleline", "ffile_storage_format",
   "ffile_tabulation", "ffile_unit", "global", "global_declarations", "ic",
   "ic_content", "ic_subckt", "include", "library", "library_def", "meas",
   "model", "netlist_entity", "nodeset", "option", "plot", "print", "probe",
   "save", "standard_include", "subckt", "temp", "use_tcl",
   "verilog_include"}

EldoLibraryParts ==
  {"library_key", "library_path"}

EldoLibraryDefParts ==
  {"library_def_content", "library_def_footer", "library_def_header"}

EldoSubcktParts ==
  {"subckt_content", "subckt_footer", "subckt_header"}

EldoAlterParts ==
  {"alter_content", "alter_header"}

EldoAnalyses ==
  {"ac", "ac_adaptive", "ac_data_driven", "ac_list_driven",
   "ac_parameter_driven", "age", "checksoa", "dc", "dc_component_analysis",
   "dc_data_driven_analysis", "dc_parameter_analysis", "dc_source_analysis",
   "dc_temperature_analysis", "dchiz", "dcmismatch", "dex", "dsp", "dspmod",
   "extract", "four", "lstb", "mc", "noise", "noisetran", "op",
   "op_dc_based", "op_selective", "op_time_based", "optfour", "optimize",
   "optnoise", "pz", "ramp", "sens", "sensac", "sensparam", "snf", "solve",
   "solve_component", "solve_object", "solve_parameter", "tf", "tran",
   "tran_data_driven", "tran_parameterized", "tran_point_driven", "wcase"}

EldoComponents ==
  {"bjt", "capacitor", "cccs", "ccvs", "component_analysis",
   "component_attribute", "component_coupling_list", "component_net_list",
   "component_parameter_list", "component_pin_list", "component_port_list",
   "component_positional_keywork", "component_table", "component_type",
   "component_value", "component_value_list", "coupled_inductor",
   "diffusion_resistor", "icsource", "inductor", "interp_type", "ivsource",
   "jfet", "junction_diode", "lossy_transmission_line", "ltl_u_model",
   "ltl_w_model", "mosfet", "noise_function", "operational_amplifier",
   "resistor", "subckt_instance", "sw", "transmission_line",
   "two_input_gate", "vccs", "vcvs"}

EldoControls ==
  {"chrent_behaviour", "chrent_pair", "chrent_point", "meas_at",
   "meas_catvect", "meas_configuration", "meas_derivative", "meas_find",
   "meas_info", "meas_label_name", "meas_param", "meas_targ", "meas_trig",
   "meas_vect", "meas_when", "save_file", "save_when"}

EldoModelParts ==
  {"model_lib", "model_lib_type", "model_master", "model_name"}

EldoParameters ==
  {"parameter", "parameter_list", "parameter_list_item"}

EldoParameterParts ==
  {"parameter_lhs", "parameter_rhs"}

EldoNodes ==
  {"node_list", "node_list_item", "node_mapping"}

EldoExpressions ==
  {"expression", "expression_atom", "expression_function_call",
   "expression_list", "expression_unary"}

(* The classes that may be on top where parameters, nodes and expressions   *)
(* are visited.                                                             *)
EldoParameterHomes ==
  EldoScopes \cup {"Analysis", "Component", "Control", "Include", "Model"}
EldoNodeHomes == EldoScopes \cup {"Component"}
EldoExpressionHomes ==
  EldoScopes \cup {"Analysis", "Component", "Expression", "ExpressionUnary",
                   "FunctionCall", "Parameter", "ValueList"}

(* The classes that may be on top when a symbol is visited.                 *)
EldoHome(s) ==
  {c \in Classes :
     /\ s = "netlist" => c = "none"
     /\ s = "netlist_title" => c = "Circuit"
     /\ s \in EldoStatements => c \in EldoScopes
     /\ s \in EldoLibraryParts => c = "Library"
     /\ s = "library_name" => c \in {"Library", "LibraryDef"}
     /\ s \in EldoLibraryDefParts => c = "LibraryDef"
     /\ s \in EldoSubcktParts => c = "Subckt"
     /\ s \in EldoAlterParts => c = "ControlScope"
     /\ s \in EldoAnalyses => c = "Analysis"
     /\ s \in EldoComponents => c = "Component"
     /\ s \in EldoControls => c = "Control"
     /\ s \in EldoModelParts => c = "Model"
     /\ s \in EldoParameters => c \in EldoParameterHomes
     /\ s \in EldoParameterParts => c = "Parameter"
     /\ s \in EldoNodes => c \in EldoNodeHomes
     /\ s = "node" => c \in EldoNodeHomes \cup {"Node"}
     /\ s \in EldoExpressions => c \in EldoExpressionHomes}

(* The classes that may be on top when all the children of a context are    *)
(* visited: that of the object which its visitor opens, or the same as for  *)
(* the context.  Where a visitor picks its children, there are none.        *)
EldoInside(r) ==
  CASE r = "netlist" -> {"Circuit"}
    [] r \in {"standard_include", "verilog_include", "dspf_include"} ->
         {"Include"}
    [] r = "library" -> {"Library"}
    [] r = "library_def" -> {"LibraryDef"}
    [] r = "subckt" -> {"Subckt"}
    [] r = "analysis" -> {"Analysis"}
    [] r = "model" -> {"Model"}
    [] r = "alter_definition" -> {"ControlScope"}
    [] r \in {"save", "option", "nodeset", "defmac", "print", "plot",
              "probe", "temp", "meas"} -> {"Control"}
    [] r = "component" -> {"Component"}
    [] r = "expression_list" -> {"ValueList"}
    [] r = "expression_unary" -> {"ExpressionUnary"}
    [] r = "expression_function_call" -> {"FunctionCall"}
    [] r = "expression_atom" -> {"Number", "Identifier"}
    [] r = "node" -> {"Node"}
    [] r = "parameter" -> {"Parameter"}
    [] r \in {"chrent", "meas_find", "meas_at", "meas_when",
              "meas_derivative", "meas_param", "component_table",
              "component_value_list", "node_mapping"} -> {}
    [] OTHER -> EldoHome(r)
-----------------------------------------------------------------------------
(* Spectre: likewise.                                                       *)
SpectreScopes == {"Analysis", "Circuit", "Library"}

SpectreStatements ==
  {"ac", "acmatch", "ahdl_include", "alter", "altergroup",
   "altergroup_content", "altergroup_header", "analogmodel", "analysis",
   "assert_statement", "check_statement", "checklimit", "component",
   "control", "correlate", "cpp_include", "dc", "dcmatch", "envlp",
   "global", "global_declarations", "ic", "include", "info", "library",
   "mismatch", "model", "montecarlo", "netlist_entity", "nodeset", "noise",
   "option", "pac", "parameter_access", "parameter_id", "pdisto", "pnoise",
   "process", "psp", "pss", "pxf", "pz", "qpac", "qpnoise", "qpsp", "qpss",
   "qpxf", "reliability", "save", "section", "section_content",
   "section_footer", "section_header", "sens", "set", "shell", "sp",
   "standard_include", "statistics", "statistics_content", "stb", "subckt",
   "sweep", "tdr", "tran", "truncate", "vary", "xf"}

SpectreAnalysisParts ==
  {"montecarlo_content", "montecarlo_export", "montecarlo_header",
   "reliability_content", "reliability_control", "reliability_header",
   "sens_design_parameters_list", "sens_output_variables_list",
   "sweep_content", "sweep_header"}

SpectreSubcktParts ==
  {"lang", "subckt_content", "subckt_footer", "subckt_header"}

SpectreLibraryParts ==
  {"library_content", "library_footer", "library_header"}

SpectreComponents ==
  {"component_analysis", "component_attribute", "component_id",
   "component_master", "component_value", "component_value_list"}

SpectreParameters ==
  {"parameter_list", "parameter_list_item"}

SpectreNodes ==
  {"node_list", "node_list_item"}

SpectreExpressions ==
  {"expression", "expression_atom", "expression_function_call",
   "expression_pair", "expression_scope", "expression_unary"}

(* Rules that are never visited.                                           *)
SpectreUnvisited ==
  {"if_alternative", "if_body", "if_statement", "node", "node_branch",
   "node_mapping", "node_pair", "sens_analyses_list", "time_pair",
   "time_point", "value_access", "value_access_assign"}

SpectreParameterHomes == SpectreScopes \cup {"Control"}
SpectreNodeHomes == SpectreScopes \cup {"Component"}
SpectreExpressionHomes ==
  SpectreScopes \cup {"Component", "Expression", "ExpressionUnary",
                      "FunctionCall", "Parameter", "ValueList"}

SpectreHome(s) ==
  {c \in Classes :
     /\ s = "netlist" => c = "none"
     /\ s \in SpectreStatements => c \in SpectreScopes
     /\ s \in SpectreAnalysisParts => c = "Analysis"
     /\ s \in SpectreSubcktParts => c = "Circuit"
     /\ s \in SpectreLibraryParts => c = "Library"
     /\ s \in SpectreComponents => c = "Component"
     /\ s = "parameter_assign" =>
          c \in SpectreScopes \cup {"Component", "Include", "Model"}
     /\ s \in SpectreParameters => c \in SpectreParameterHomes
     /\ s \in SpectreNodes => c \in SpectreNodeHomes
     /\ s = "array_expression" => c = "Parameter"
     /\ s = "array_item" => c = "ValueList"
     /\ s \in SpectreExpressions => c \in SpectreExpressionHomes
     /\ s \notin SpectreUnvisited}

SpectreInside(r) ==
  CASE r \in {"netlist", "subckt"} -> {"Circuit"}
    [] r \in {"standard_include", "cpp_include", "ahdl_include"} ->
         {"Include"}
    [] r = "library" -> {"Library"}
    [] r \in {"ac", "acmatch", "dc", "dcmatch", "envlp", "sp", "stb", "tdr",
              "tran", "xf", "pac", "pdisto", "pnoise", "psp", "pss", "pxf",
              "pz", "qpac", "qpnoise", "qpsp", "qpss", "qpxf", "noise",
              "checklimit", "sweep", "montecarlo", "reliability", "sens",
              "info"} -> {"Analysis"}
    [] r = "option" -> {"Control"}
    [] r = "lang" -> {"Circuit", "Control"}
    [] r = "component" -> {"Component"}
    [] r = "array_expression" -> {"ValueList"}
    [] r \in {"save", "model", "component_value", "component_value_list",
              "expression_unary", "expression_function_call",
              "parameter_assign", "parameter_list_item", "node_list_item",
              "expression_atom", "array_item", "netlist_title"} -> {}
    [] OTHER -> SpectreHome(r)
-----------------------------------------------------------------------------
Home(l, s) == IF l = "eldo" THEN EldoHome(s) ELSE SpectreHome(s)
Inside(l, r) == IF l = "eldo" THEN EldoInside(r) ELSE SpectreInside(r)

(* An object of class c may be added to one of class p.                     *)
Takes(l, p, c) ==
  LET value == c \in V!Values
  IN  \/ p \in Scopes \cup {"none"}
      \/ p = "Analysis" /\ (l = "spectre" \/ value \/ c = "Parameter")
      \/ p = "Component" /\ (value \/ c \in {"Node", "Parameter"})
      \/ p = "FunctionCall" /\ (value \/ c = "Parameter")
      \/ p \in {"Control", "Include", "Model"} /\ c = "Parameter"
      \/ p \in {"ValueList", "Expression", "ExpressionUnary", "Parameter"}
         /\ value
      \/ p = "Node" /\ c = "Node"
      \/ p = "Library" /\ l = "spectre"

(* Item i can be visited with an object of class c on top of the stack.     *)
Fits(l, i, c) ==
  \/ i.how = "read" \/ i.rule = "null"
  \/ i.how = "accept" /\ c \in Home(l, i.rule)
  \/ i.how = "children" /\ c \in Inside(l, i.rule)
  \/ /\ i.how = "Parameter" /\ Takes(l, c, "Parameter")
     /\ "Parameter" \in Inside(l, i.rule)

(* An item that waits in a frame, with that class on top.                   *)
Waits(l, i, c) ==
  /\ i = [rule |-> i.rule, how |-> i.how, text |-> i.text, must |-> i.must,
          lacking |-> i.lacking, depth |-> i.depth]
  /\ i.depth \in 0..MaxDepth
  /\ i.how = "read" \/ i.rule = "null" \/ IsRule(l, i.rule)
  /\ Fits(l, i, c)

ClassAt(s, n) == IF n = 0 THEN "none" ELSE s[n].class

PlaceNames == {"first", "second", "value", "left", "right"}
Ways == {"null", "Value", "other", "children", "last"}

(* Every object has the places of some class.                               *)
Placed(s) ==
  \A i \in 1..Len(s) :
    s[i].class \in Classes /\ s[i].free \in PlacesLeft

(* What waits in frame f to be visited or to be added can be, with the      *)
(* object on top that there will be then.                                   *)
Ready(l, f, s) ==
  /\ f.opens \in Classes /\ f.returns \in Ways
  /\ f.after # "none" => Takes(l, ClassAt(s, f.height), f.after)
  /\ \A j \in 1..Len(f.todo) :
       Waits(l, f.todo[j], ClassAt(s, f.height + Opens(f)))

AllReady(l, fs, s) == \A i \in 1..Len(fs) : Ready(l, fs[i], s)

(* The invariant: inductive together with the well-formedness of frames and *)
(* objects, which FrontendProofs has.                                       *)
InContext ==
  /\ Placed(stack) /\ AllReady(language, frames, stack)
  /\ language \in Langs /\ result \in {"null", "Value", "other"}
  /\ errors \in 0..MaxErrors
  /\ outcome \in {"parsing", "done", "thrown", "crashed"}
  /\ NothingIsDropped
=============================================================================
