--------------------------- MODULE SpectreGrammar ---------------------------
(***************************************************************************)
(* The Spectre netlist language, as the generated parser                   *)
(* (SPECTREParser.cpp) accepts it.  One definition per rule: the sequences *)
(* of children that the rule's function gives its context, tokens in       *)
(* capitals and rules in small letters.  A repetition is bounded by        *)
(* MaxRepeat.                                                              *)
(***************************************************************************)
EXTENDS Words


(* The netlist: statements, each ended by line ends. *)
netlist ==
  Many({<<"NL">>}) ++ Opt({<<"lang">>} ++ Some({<<"NL">>}))
    ++ Many({<<"netlist_entity">>} ++ Many({<<"NL">>})) ++ {<<"EOF">>}
netlist_title == Some({<<"ID">>}) ++ ({<<"EOF">>} \cup Many({<<"NL">>}))
netlist_entity ==
  OneOf({"include", "library", "subckt", "analysis", "global", "model",
    "global_declarations", "control", "component", "section", "analogmodel",
    "statistics"})

(* Files, libraries and sections. *)
include == OneOf({"standard_include", "cpp_include", "ahdl_include"})
standard_include ==
  {<<"INCLUDE", "filepath">>} ++ Opt({<<"parameter_assign">>})
    ++ ({<<"EOF">>} \cup Many({<<"NL">>}))
cpp_include ==
  {<<"CPP_INCLUDE", "filepath">>} ++ ({<<"EOF">>} \cup Many({<<"NL">>}))
ahdl_include ==
  {<<"AHDL_INCLUDE", "filepath">>} ++ Opt({<<"MINUS">>}) ++ Opt({<<"ID">>})
    ++ ({<<"EOF">>} \cup Many({<<"NL">>}))
lang ==
  {<<"SIMULATOR", "LANGUAGE", "EQUAL", "SPICE">>}
    \cup ({<<"SIMULATOR", "LANGUAGE", "EQUAL", "SPECTRE">>}
    ++ Opt({<<"INSENSITIVE", "EQUAL", "ID">>}))
library ==
  {<<"library_header">>} ++ Some({<<"library_content">>})
    ++ {<<"library_footer">>}
library_header == {<<"LIBRARY", "ID">>} ++ ({<<"EOF">>} \cup Many({<<"NL">>}))
library_content == {<<"netlist_entity">>}
library_footer ==
  {<<"LIBRARY_END">>} ++ Opt({<<"ID">>}) ++ ({<<"EOF">>}
    \cup Many({<<"NL">>}))
section ==
  {<<"section_header">>} ++ Some({<<"section_content">>})
    ++ {<<"section_footer">>}
section_header == {<<"SECTION", "ID">>} ++ ({<<"EOF">>} \cup Many({<<"NL">>}))
section_content == {<<"netlist_entity">>}
section_footer ==
  {<<"SECTION_END">>} ++ Opt({<<"ID">>}) ++ ({<<"EOF">>}
    \cup Many({<<"NL">>}))
analogmodel ==
  ({<<"ID", "node_list", "ANALOGMODEL", "parameter_list">>} ++ ({<<"EOF">>}
    \cup Many({<<"NL">>}))) \cup ({<<"ID", "node_list", "ANALOGMODEL">>}
    ++ ({<<"EOF">>} \cup Many({<<"NL">>})))

(* Subcircuits and conditional statements. *)
subckt ==
  {<<"subckt_header">>} ++ Some({<<"subckt_content">>})
    ++ {<<"subckt_footer">>}
subckt_header ==
  OneOf({"INLINE_SUBCKT", "SUBCKT"}) ++ {<<"ID">>} ++ Opt({<<"node_list">>})
    ++ Some({<<"NL">>})
subckt_content == {<<"netlist_entity">>}
subckt_footer ==
  {<<"SUBCKT_END">>} ++ Opt({<<"ID">>}) ++ ({<<"EOF">>}
    \cup Many({<<"NL">>}))
if_statement ==
  {<<"IF", "expression", "if_body">>} ++ Opt({<<"if_alternative">>})
if_alternative == {<<"ELSE", "if_body">>}
if_body ==
  Opt(Many({<<"NL">>}) ++ {<<"OPEN_CURLY">>} ++ Many({<<"NL">>}))
    ++ Some(OneOf({"component", "analysis", "control", "if_statement",
    "NL"})) ++ Opt(Many({<<"NL">>}) ++ {<<"CLOSE_CURLY">>}) ++ ({<<"EOF">>}
    \cup Many({<<"NL">>}))

(* Analyses. *)
analysis ==
  OneOf({"ac", "acmatch", "dc", "dcmatch", "envlp", "sp", "stb", "sweep",
    "tdr", "tran", "xf", "pac", "pdisto", "pnoise", "psp", "pss", "pxf",
    "pz", "qpac", "qpnoise", "qpsp", "qpss", "qpxf", "sens", "montecarlo",
    "noise", "checklimit", "reliability"})
ac ==
  Opt(OneOf({"ID", "AC"})) ++ {<<"AC">>} ++ Opt({<<"parameter_list">>})
    ++ ({<<"EOF">>} \cup Many({<<"NL">>}))
acmatch ==
  Opt(OneOf({"ID", "ACMATCH"})) ++ Opt({<<"node_list">>}) ++ {<<"ACMATCH">>}
    ++ Opt({<<"parameter_list">>}) ++ ({<<"EOF">>} \cup Many({<<"NL">>}))
dc ==
  Opt(OneOf({"ID", "DC"})) ++ {<<"DC">>} ++ Opt({<<"parameter_list">>})
    ++ ({<<"EOF">>} \cup Many({<<"NL">>}))
dcmatch ==
  Opt(OneOf({"ID", "DCMATCH"})) ++ Opt({<<"node_list">>}) ++ {<<"DCMATCH">>}
    ++ Opt({<<"parameter_list">>}) ++ ({<<"EOF">>} \cup Many({<<"NL">>}))
envlp ==
  Opt(OneOf({"ID", "ENVLP"})) ++ Opt({<<"node_list">>}) ++ {<<"ENVLP">>}
    ++ Opt({<<"parameter_list">>}) ++ ({<<"EOF">>} \cup Many({<<"NL">>}))
sp ==
  Opt(OneOf({"ID", "SP"})) ++ {<<"SP">>} ++ Opt({<<"parameter_list">>})
    ++ ({<<"EOF">>} \cup Many({<<"NL">>}))
stb ==
  Opt(OneOf({"ID", "STB"})) ++ {<<"STB">>} ++ Opt({<<"parameter_list">>})
    ++ ({<<"EOF">>} \cup Many({<<"NL">>}))
sweep ==
  {<<"sweep_header">>} ++ Some({<<"sweep_content">>}) ++ {<<"sweep_footer">>}
sweep_header ==
  Opt(OneOf({"ID", "SWEEP"})) ++ {<<"SWEEP">>} ++ Many({<<"NL">>})
    ++ Many({<<"parameter_list">>}) ++ {<<"OPEN_CURLY">>} ++ ({<<"EOF">>}
    \cup Many({<<"NL">>}))
sweep_content == {<<"netlist_entity">>}
sweep_footer == {<<"CLOSE_CURLY">>} ++ ({<<"EOF">>} \cup Many({<<"NL">>}))
tdr ==
  Opt(OneOf({"ID", "TDR"})) ++ {<<"TDR">>} ++ Opt({<<"parameter_list">>})
    ++ ({<<"EOF">>} \cup Many({<<"NL">>}))
tran ==
  Opt(OneOf({"ID", "TRAN"})) ++ {<<"TRAN">>} ++ Opt({<<"parameter_list">>})
    ++ ({<<"EOF">>} \cup Many({<<"NL">>}))
xf ==
  Opt(OneOf({"ID", "XF"})) ++ Opt({<<"node_list">>}) ++ {<<"XF">>}
    ++ Opt({<<"parameter_list">>}) ++ ({<<"EOF">>} \cup Many({<<"NL">>}))
pac ==
  Opt(OneOf({"ID", "PAC"})) ++ Opt({<<"node_list">>}) ++ {<<"PAC">>}
    ++ Opt({<<"parameter_list">>}) ++ ({<<"EOF">>} \cup Many({<<"NL">>}))
pdisto ==
  Opt(OneOf({"ID", "PDISTO"})) ++ Opt({<<"node_list">>}) ++ {<<"PDISTO">>}
    ++ Opt({<<"parameter_list">>}) ++ ({<<"EOF">>} \cup Many({<<"NL">>}))
pnoise ==
  Opt(OneOf({"ID", "PNOISE"})) ++ Opt({<<"node_list">>}) ++ {<<"PNOISE">>}
    ++ Opt({<<"parameter_list">>}) ++ ({<<"EOF">>} \cup Many({<<"NL">>}))
psp ==
  Opt(OneOf({"ID", "PSP"})) ++ {<<"PSP">>} ++ Opt({<<"parameter_list">>})
    ++ ({<<"EOF">>} \cup Many({<<"NL">>}))
pss ==
  Opt(OneOf({"ID", "PSS"})) ++ Opt({<<"node_list">>}) ++ {<<"PSS">>}
    ++ Opt({<<"parameter_list">>}) ++ ({<<"EOF">>} \cup Many({<<"NL">>}))
pxf ==
  Opt(OneOf({"ID", "PXF"})) ++ Opt({<<"node_list">>}) ++ {<<"PXF">>}
    ++ Opt({<<"parameter_list">>}) ++ ({<<"EOF">>} \cup Many({<<"NL">>}))
pz ==
  Opt(OneOf({"ID", "PZ"})) ++ Opt({<<"node_list">>}) ++ {<<"PZ">>}
    ++ Opt({<<"parameter_list">>}) ++ ({<<"EOF">>} \cup Many({<<"NL">>}))
qpac ==
  Opt(OneOf({"ID", "QPAC"})) ++ {<<"QPAC">>} ++ Opt({<<"parameter_list">>})
    ++ ({<<"EOF">>} \cup Many({<<"NL">>}))
qpnoise ==
  Opt(OneOf({"ID", "QPNOISE"})) ++ Opt({<<"node_list">>}) ++ {<<"QPNOISE">>}
    ++ Opt({<<"parameter_list">>}) ++ ({<<"EOF">>} \cup Many({<<"NL">>}))
qpsp ==
  Opt(OneOf({"ID", "QPSP"})) ++ {<<"QPSP">>} ++ Opt({<<"parameter_list">>})
    ++ ({<<"EOF">>} \cup Many({<<"NL">>}))
qpss ==
  Opt(OneOf({"ID", "QPSS"})) ++ Opt({<<"node_list">>}) ++ {<<"QPSS">>}
    ++ Opt({<<"parameter_list">>}) ++ ({<<"EOF">>} \cup Many({<<"NL">>}))
qpxf ==
  Opt(OneOf({"ID", "QPXF"})) ++ Opt({<<"node_list">>}) ++ {<<"QPXF">>}
    ++ Opt({<<"parameter_list">>}) ++ ({<<"EOF">>} \cup Many({<<"NL">>}))
sens ==
  {<<"SENS">>} ++ Opt({<<"sens_output_variables_list">>})
    ++ Opt({<<"ID", "sens_design_parameters_list">>})
    ++ Opt({<<"ID", "sens_design_parameters_list">>}) ++ ({<<"EOF">>}
    \cup Many({<<"NL">>}))
sens_output_variables_list ==
  {<<"OPEN_ROUND">>} ++ Some({<<"node_list">>}) ++ {<<"CLOSE_ROUND">>}
sens_design_parameters_list ==
  {<<"OPEN_ROUND">>} ++ Some({<<"node_list">>}) ++ {<<"CLOSE_ROUND">>}
sens_analyses_list ==
  {<<"OPEN_ROUND">>} ++ Some({<<"node_list">>}) ++ {<<"CLOSE_ROUND">>}
montecarlo ==
  {<<"montecarlo_header">>} ++ Some({<<"montecarlo_content">>})
    ++ {<<"montecarlo_export", "montecarlo_footer">>}
montecarlo_header ==
  OneOf({"ID", "MONTECARLO"}) ++ {<<"MONTECARLO">>} ++ Many({<<"NL">>})
    ++ Many({<<"parameter_list">>}) ++ {<<"OPEN_CURLY">>} ++ ({<<"EOF">>}
    \cup Many({<<"NL">>}))
montecarlo_content == {<<"netlist_entity">>}
montecarlo_export ==
  {<<"EXPORT", "parameter_list">>} ++ ({<<"EOF">>} \cup Many({<<"NL">>}))
montecarlo_footer ==
  {<<"CLOSE_CURLY">>} ++ ({<<"EOF">>} \cup Many({<<"NL">>}))
noise ==
  OneOf({"ID", "NOISE"}) ++ Opt({<<"node_list">>}) ++ {<<"NOISE">>}
    ++ Opt({<<"parameter_list">>}) ++ ({<<"EOF">>} \cup Many({<<"NL">>}))
checklimit ==
  OneOf({"ID", "CHECKLIMIT"}) ++ {<<"CHECKLIMIT">>}
    ++ Opt({<<"parameter_list">>}) ++ ({<<"EOF">>} \cup Many({<<"NL">>}))

(* Models and control statements. *)
global == {<<"GLOBAL", "node_list">>} ++ ({<<"EOF">>} \cup Many({<<"NL">>}))
model ==
  {<<"MODEL", "model_name", "model_master">>}
    ++ Many({<<"parameter_assign">>}) ++ ({<<"EOF">>} \cup Many({<<"NL">>}))
model_name == {<<"ID">>}
model_master == OneOf({"ID", "component_type"})
control ==
  OneOf({"alter", "altergroup", "assert_statement", "check_statement",
    "save", "option", "set", "shell", "info", "nodeset", "ic"})
alter ==
  ({<<"ID", "ALTER", "parameter_list">>} ++ ({<<"EOF">>}
    \cup Many({<<"NL">>}))) \cup ({<<"ID", "ALTER">>} ++ ({<<"EOF">>}
    \cup Many({<<"NL">>})))
altergroup ==
  {<<"altergroup_header", "global_declarations">>}
    ++ Some({<<"altergroup_content">>}) ++ {<<"altergroup_footer">>}
altergroup_header ==
  {<<"ID", "ALTERGROUP">>} ++ Many({<<"NL">>}) ++ {<<"OPEN_CURLY">>}
    ++ ({<<"EOF">>} \cup Many({<<"NL">>}))
altergroup_content == {<<"netlist_entity">>}
altergroup_footer ==
  {<<"CLOSE_CURLY">>} ++ ({<<"EOF">>} \cup Many({<<"NL">>}))
assert_statement ==
  ({<<"ID", "ASSERT", "parameter_assign", "parameter_list">>} ++ ({<<"EOF">>}
    \cup Many({<<"NL">>}))) \cup ({<<"ID", "ASSERT", "parameter_assign">>}
    ++ ({<<"EOF">>} \cup Many({<<"NL">>})))
check_statement ==
  {<<"ID", "CHECK", "parameter_assign">>} ++ ({<<"EOF">>}
    \cup Many({<<"NL">>}))
save ==
  ({<<"SAVE", "ID", "parameter_list">>} ++ ({<<"EOF">>}
    \cup Many({<<"NL">>}))) \cup ({<<"SAVE", "ID">>} ++ ({<<"EOF">>}
    \cup Many({<<"NL">>})))
option ==
  ({<<"ID", "OPTIONS", "parameter_list">>} ++ ({<<"EOF">>}
    \cup Many({<<"NL">>}))) \cup ({<<"ID", "OPTIONS">>} ++ ({<<"EOF">>}
    \cup Many({<<"NL">>})))
set ==
  ({<<"ID", "SET", "parameter_list">>} ++ ({<<"EOF">>}
    \cup Many({<<"NL">>}))) \cup ({<<"ID", "SET">>} ++ ({<<"EOF">>}
    \cup Many({<<"NL">>})))
shell ==
  ({<<"ID", "SHELL", "parameter_list">>} ++ ({<<"EOF">>}
    \cup Many({<<"NL">>}))) \cup ({<<"ID", "SHELL">>} ++ ({<<"EOF">>}
    \cup Many({<<"NL">>})))
info ==
  ({<<"ID", "INFO", "parameter_list">>} ++ ({<<"EOF">>}
    \cup Many({<<"NL">>}))) \cup ({<<"ID", "INFO">>} ++ ({<<"EOF">>}
    \cup Many({<<"NL">>})))
nodeset ==
  {<<"NODESET">>} ++ Opt({<<"parameter_access">>})
    ++ {<<"EQUAL", "expression">>} ++ ({<<"EOF">>} \cup Many({<<"NL">>}))
ic ==
  ({<<"IC", "parameter_list">>} ++ ({<<"EOF">>} \cup Many({<<"NL">>})))
    \cup ({<<"IC">>} ++ ({<<"EOF">>} \cup Many({<<"NL">>})))

(* Statistics and reliability blocks. *)
statistics ==
  {<<"statistics_header">>} ++ Some({<<"statistics_content">>})
    ++ {<<"statistics_footer">>}
statistics_header ==
  {<<"STATISTICS">>} ++ Many({<<"NL">>}) ++ {<<"OPEN_CURLY">>}
    ++ Many({<<"NL">>})
statistics_content ==
  OneOf({"process", "mismatch", "vary", "correlate", "truncate"})
statistics_footer ==
  {<<"CLOSE_CURLY">>} ++ ({<<"EOF">>} \cup Many({<<"NL">>}))
process ==
  {<<"PROCESS">>} ++ Many({<<"NL">>}) ++ {<<"OPEN_CURLY">>}
    ++ Many({<<"NL">>}) ++ Some({<<"statistics_content">>})
    ++ {<<"CLOSE_CURLY">>} ++ ({<<"EOF">>} \cup Many({<<"NL">>}))
mismatch ==
  {<<"MISMATCH">>} ++ Many({<<"NL">>}) ++ {<<"OPEN_CURLY">>}
    ++ Many({<<"NL">>}) ++ Some({<<"statistics_content">>})
    ++ {<<"CLOSE_CURLY">>} ++ ({<<"EOF">>} \cup Many({<<"NL">>}))
correlate ==
  ({<<"CORRELATE", "ID", "EQUAL", "OPEN_SQUARE">>}
    ++ Some({<<"parameter_id">>}) ++ {<<"CLOSE_SQUARE">>} ++ ({<<"EOF">>}
    \cup Many({<<"NL">>}))) \cup ({<<"CORRELATE">>}
    ++ Some({<<"ID", "EQUAL", "OPEN_SQUARE">>} ++ Some({<<"parameter_id">>})
    ++ {<<"CLOSE_SQUARE">>}) ++ {<<"parameter_assign">>} ++ ({<<"EOF">>}
    \cup Many({<<"NL">>})))
truncate ==
  {<<"TRUNCATE", "parameter_assign">>} ++ ({<<"EOF">>} \cup Many({<<"NL">>}))
vary ==
  ({<<"VARY", "ID", "parameter_list">>} ++ ({<<"EOF">>}
    \cup Many({<<"NL">>}))) \cup ({<<"VARY", "ID">>} ++ ({<<"EOF">>}
    \cup Many({<<"NL">>})))
reliability ==
  {<<"reliability_header">>} ++ Some({<<"reliability_content">>})
    ++ {<<"reliability_footer">>}
reliability_header ==
  {<<"ID", "RELIABILITY">>} ++ Opt({<<"parameter_list">>})
    ++ Many({<<"NL">>}) ++ {<<"OPEN_CURLY">>} ++ Many({<<"NL">>})
reliability_content == OneOf({"reliability_control", "netlist_entity"})
reliability_footer ==
  {<<"CLOSE_CURLY">>} ++ ({<<"EOF">>} \cup Many({<<"NL">>}))
reliability_control ==
  {<<"ID", "parameter_list">>} ++ ({<<"EOF">>} \cup Many({<<"NL">>}))

(* Components. *)
global_declarations ==
  ({<<"PARAMETERS", "OPEN_ROUND">>} ++ Some({<<"parameter_list_item">>})
    ++ {<<"CLOSE_ROUND">>} ++ ({<<"EOF">>} \cup Many({<<"NL">>})))
    \cup ({<<"PARAMETERS">>} ++ Some({<<"parameter_list_item">>})
    ++ ({<<"EOF">>} \cup Many({<<"NL">>})))
component ==
  {<<"component_id">>} ++ Opt({<<"node_list">>})
    ++ Opt({<<"component_master">>}) ++ Many({<<"component_attribute">>})
    ++ ({<<"EOF">>} \cup Many({<<"NL">>}))
component_id == {<<"ID">>}
component_master == OneOf({"ID", "component_type"})
component_attribute ==
  Some(OneOf({"parameter_assign", "component_analysis",
    "component_value_list", "component_value"}))
component_value ==
  Opt({<<"OPEN_CURLY">>}) ++ OneOf({"STRING", "expression"})
    ++ Opt({<<"CLOSE_CURLY">>})
component_value_list ==
  (OneOf({"PWL", "SIN", "SFFM", "PULSE", "WAVE", "COEFFS"})
    ++ Opt({<<"EQUAL">>}) ++ {<<"OPEN_ROUND">>} ++ (Some({<<"time_pair">>})
    \cup Some({<<"expression">>})) ++ {<<"CLOSE_ROUND">>})
    \cup (OneOf({"PWL", "SIN", "SFFM", "PULSE", "WAVE", "COEFFS"})
    ++ Opt({<<"EQUAL">>}) ++ {<<"OPEN_SQUARE">>} ++ (Some({<<"time_pair">>})
    \cup Some({<<"expression">>})) ++ {<<"CLOSE_SQUARE">>})
    \cup (OneOf({"PWL", "SIN", "SFFM", "PULSE", "WAVE", "COEFFS"})
    ++ Opt({<<"EQUAL">>}) ++ {<<"OPEN_CURLY">>} ++ (Some({<<"time_pair">>})
    \cup Some({<<"expression">>})) ++ {<<"OPEN_CURLY">>})
component_analysis ==
  (OneOf({"AC", "DC"}) ++ {<<"OPEN_CURLY">>} ++ Opt({<<"expression">>})
    ++ {<<"CLOSE_CURLY">>}) \cup (OneOf({"AC", "DC"})
    ++ Opt({<<"expression">>}))

(* Nodes. *)
node_list ==
  Some({<<"node_list_item">>}) \cup ({<<"OPEN_ROUND">>}
    ++ Some({<<"node_list_item">>}) ++ {<<"CLOSE_ROUND">>})
node_list_item == OneOf({"node", "node_mapping", "node_branch"})
node_mapping == {<<"node", "EQUAL", "node">>}
node_pair == {<<"node", "COMMA", "node">>}
node_branch == {<<"node", "COLON", "node">>}
node == OneOf({"ID", "NUMBER"}) ++ Opt({<<"DOT", "node">>})

(* Expressions. *)
expression ==
  OneOf({"expression_unary", "expression_function_call", "expression_scope",
    "expression_atom", "expression_pair"})
    \cup ({<<"expression", "expression_operator">>}
    ++ Opt({<<"expression">>}))
    \cup {<<"expression", "QUESTION_MARK", "expression", "COLON", "expression">>}
expression_unary == OneOf({"PLUS", "MINUS"}) ++ {<<"expression">>}
expression_function_call ==
  {<<"ID", "OPEN_ROUND">>} ++ Some({<<"expression">>} ++ Opt({<<"COMMA">>}))
    ++ {<<"CLOSE_ROUND">>}
expression_pair == {<<"expression_atom", "COMMA", "expression_atom">>}
expression_scope ==
  OneOf({"OPEN_ROUND", "OPEN_CURLY", "APEX"}) ++ Some({<<"expression">>}
    ++ Opt({<<"COMMA">>})) ++ OneOf({"CLOSE_ROUND", "CLOSE_CURLY", "APEX"})
expression_operator ==
  OneOf({"PLUS", "MINUS", "STAR", "SLASH", "LOGIC_AND", "LOGIC_BITWISE_AND",
    "LOGIC_OR", "LOGIC_BITWISE_OR", "LOGIC_EQUAL", "LOGIC_NOT_EQUAL",
    "LOGIC_XOR", "LESS_THAN", "LESS_THAN_EQUAL", "GREATER_THAN",
    "GREATER_THAN_EQUAL", "EXCLAMATION_MARK", "BITWISE_SHIFT_LEFT",
    "BITWISE_SHIFT_RIGHT", "POWER_OPERATOR", "CARET", "PERCENT"})
expression_atom ==
  OneOf({"NUMBER", "ID", "STRING", "PERCENTAGE", "keyword", "analysis_type",
    "component_type"})

(* Parameters and values. *)
parameter_list == Some({<<"parameter_list_item">>})
parameter_list_item ==
  {<<"parameter_id">>} \cup {<<"parameter_id", "EQUAL", "array_expression">>}
    \cup {<<"parameter_id", "EQUAL", "expression">>}
    \cup {<<"parameter_id", "EQUAL", "filepath">>}
array_expression ==
  {<<"OPEN_SQUARE">>} ++ Many({<<"array_item">>}) ++ {<<"CLOSE_SQUARE">>}
array_item ==
  OneOf({"NUMBER", "ID", "STRING", "PERCENTAGE", "keyword", "analysis_type",
    "component_type"})
parameter_assign ==
  {<<"parameter_id", "EQUAL", "expression">>}
    \cup {<<"parameter_id", "EQUAL", "filepath">>}
parameter_id ==
  OneOf({"ID", "SECTION", "DC", "SAVE", "DELAY", "PORTS"})
    ++ Many({<<"COLON", "ID">>})
parameter_access == {<<"COLON">>} ++ OneOf({"ID", "NUMBER"})
value_access ==
  Opt({<<"ID">>}) ++ {<<"OPEN_ROUND">>} ++ OneOf({"expression", "node_pair",
    "node"}) ++ {<<"CLOSE_ROUND">>}
value_access_assign == {<<"value_access", "EQUAL", "expression">>}
time_pair ==
  {<<"time_point", "expression">>}
    \cup {<<"time_point", "OPEN_CURLY", "expression", "CLOSE_CURLY">>}
time_point == {<<"expression">>}

(* Paths and keywords. *)
filepath == {<<"filepath_element">>}
filepath_element ==
  OneOf({"ID", "STRING"}) \cup {<<"ID", "filepath_element">>}
    \cup {<<"APEX", "filepath_element", "APEX">>}
    \cup {<<"SLASH", "filepath_element">>}
    \cup {<<"DOT", "filepath_element">>}
    \cup {<<"MINUS", "filepath_element">>}
    \cup {<<"DOLLAR", "filepath_element">>}
keyword ==
  OneOf({"ALTER", "ALTERGROUP", "OPTIONS", "SET", "SHELL", "INFO", "NODESET",
    "IC", "ASSERT", "CHECK", "LANGUAGE", "PORTS", "WAVE", "PWL", "SIN",
    "SFFM", "PULSE", "COEFFS", "INSENSITIVE", "IF", "ELSE", "PARAMETERS",
    "ANALOGMODEL", "CHECKPOINT", "SPECTRE", "SPICE", "STATISTICS", "PROCESS",
    "CORRELATE", "TRUNCATE", "MISMATCH", "VARY", "RELIABILITY"})
analysis_type ==
  OneOf({"AC", "ACMATCH", "DC", "DCMATCH", "ENVLP", "SP", "STB", "SWEEP",
    "TDR", "TRAN", "XF", "PAC", "PDISTO", "PNOISE", "PSP", "PSS", "PXF",
    "PZ", "QPAC", "QPNOISE", "QPSP", "QPSS", "QPXF", "SENS", "MONTECARLO",
    "NOISE", "CHECKLIMIT"})
component_type ==
  OneOf({"A2D", "B3SOIPD", "BJT", "BJT301", "BJT500", "BJT503", "BJT504",
    "BJT504T", "BSIM1", "BSIM2", "BSIM3", "BSIM3V3", "BSIM4", "BSIMSOI",
    "BTASOI", "CAPACITOR", "CCCS", "CCVS", "CKTROM", "CORE", "D2A", "DELAY",
    "DIO500", "DIODE", "EKV", "FOURIER", "GAAS", "HBT", "HISIM", "HVMOS",
    "INDUCTOR", "INTCAP", "IPROBE", "ISOURCE", "JFET", "JUNCAP", "MISNAN",
    "MOS0", "MOS1", "MOS1000", "MOS1100", "MOS11010", "MOS11011", "MOS15",
    "MOS2", "MOS3", "MOS30", "MOS3002", "MOS3100", "MOS40", "MOS705",
    "MOS902", "MOS903", "MSLINE", "MTLINE", "MUTUAL_INDUCTOR", "NODCAP",
    "NODE", "NPORT", "PARAMTEST", "PCCCS", "PCCVS", "PHY_RES", "PORT",
    "PSITFT", "PVCCS", "PVCVS", "QUANTITY", "RDIFF", "RELAY", "RESISTOR",
    "SCCCS", "SCCVS", "SVCCS", "SVCVS", "SWITCH", "TLINE", "TOM2", "TOM3",
    "TRANSFORMER", "VBIC", "VCCS", "VCVS", "VSOURCE", "WINDING", "ZCCCS",
    "ZCCVS", "ZVCCS", "ZVCVS", "BSOURCE"})

(* Every rule by its name, as the parser's table of rule names lists them. *)
Rules == [netlist |-> netlist, netlist_title |-> netlist_title,
  netlist_entity |-> netlist_entity, include |-> include,
  standard_include |-> standard_include, cpp_include |-> cpp_include,
  ahdl_include |-> ahdl_include, lang |-> lang, library |-> library,
  library_header |-> library_header, library_content |-> library_content,
  library_footer |-> library_footer, section |-> section,
  section_header |-> section_header, section_content |-> section_content,
  section_footer |-> section_footer, analogmodel |-> analogmodel,
  subckt |-> subckt, subckt_header |-> subckt_header,
  subckt_content |-> subckt_content, subckt_footer |-> subckt_footer,
  if_statement |-> if_statement, if_alternative |-> if_alternative,
  if_body |-> if_body, analysis |-> analysis, ac |-> ac, acmatch |-> acmatch,
  dc |-> dc, dcmatch |-> dcmatch, envlp |-> envlp, sp |-> sp, stb |-> stb,
  sweep |-> sweep, sweep_header |-> sweep_header,
  sweep_content |-> sweep_content, sweep_footer |-> sweep_footer,
  tdr |-> tdr, tran |-> tran, xf |-> xf, pac |-> pac, pdisto |-> pdisto,
  pnoise |-> pnoise, psp |-> psp, pss |-> pss, pxf |-> pxf, pz |-> pz,
  qpac |-> qpac, qpnoise |-> qpnoise, qpsp |-> qpsp, qpss |-> qpss,
  qpxf |-> qpxf, sens |-> sens,
  sens_output_variables_list |-> sens_output_variables_list,
  sens_design_parameters_list |-> sens_design_parameters_list,
  sens_analyses_list |-> sens_analyses_list, montecarlo |-> montecarlo,
  montecarlo_header |-> montecarlo_header,
  montecarlo_content |-> montecarlo_content,
  montecarlo_export |-> montecarlo_export,
  montecarlo_footer |-> montecarlo_footer, noise |-> noise,
  checklimit |-> checklimit, global |-> global, model |-> model,
  model_name |-> model_name, model_master |-> model_master,
  control |-> control, alter |-> alter, altergroup |-> altergroup,
  altergroup_header |-> altergroup_header,
  altergroup_content |-> altergroup_content,
  altergroup_footer |-> altergroup_footer,
  assert_statement |-> assert_statement, check_statement |-> check_statement,
  save |-> save, option |-> option, set |-> set, shell |-> shell,
  info |-> info, nodeset |-> nodeset, ic |-> ic, statistics |-> statistics,
  statistics_header |-> statistics_header,
  statistics_content |-> statistics_content,
  statistics_footer |-> statistics_footer, process |-> process,
  mismatch |-> mismatch, correlate |-> correlate, truncate |-> truncate,
  vary |-> vary, reliability |-> reliability,
  reliability_header |-> reliability_header,
  reliability_content |-> reliability_content,
  reliability_footer |-> reliability_footer,
  reliability_control |-> reliability_control,
  global_declarations |-> global_declarations, component |-> component,
  component_id |-> component_id, component_master |-> component_master,
  component_attribute |-> component_attribute,
  component_value |-> component_value,
  component_value_list |-> component_value_list,
  component_analysis |-> component_analysis, node_list |-> node_list,
  node_list_item |-> node_list_item, node_mapping |-> node_mapping,
  node_pair |-> node_pair, node_branch |-> node_branch, node |-> node,
  expression |-> expression, expression_unary |-> expression_unary,
  expression_function_call |-> expression_function_call,
  expression_pair |-> expression_pair, expression_scope |-> expression_scope,
  expression_operator |-> expression_operator,
  expression_atom |-> expression_atom, parameter_list |-> parameter_list,
  parameter_list_item |-> parameter_list_item,
  array_expression |-> array_expression, array_item |-> array_item,
  parameter_assign |-> parameter_assign, parameter_id |-> parameter_id,
  parameter_access |-> parameter_access, value_access |-> value_access,
  value_access_assign |-> value_access_assign, time_pair |-> time_pair,
  time_point |-> time_point, filepath |-> filepath,
  filepath_element |-> filepath_element, keyword |-> keyword,
  analysis_type |-> analysis_type, component_type |-> component_type]
=============================================================================
