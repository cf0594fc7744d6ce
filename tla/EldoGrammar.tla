---------------------------- MODULE EldoGrammar ----------------------------
(***************************************************************************)
(* The Eldo netlist language, as the generated parser (ELDOParser.cpp)     *)
(* accepts it.  One definition per rule: the sequences of children that    *)
(* the rule's function gives its context, tokens in capitals and rules in  *)
(* small letters.  A repetition is bounded by MaxRepeat.                   *)
(***************************************************************************)
EXTENDS Words


(* The netlist: a title, statements and ".end". *)
netlist ==
  Opt({<<"netlist_title">>}) ++ {<<"end_of_line">>}
    ++ Many({<<"netlist_entity">>}) ++ Opt({<<"end">>})
    ++ {<<"end_of_line">>}
netlist_title == Some({<<"ID">>})
netlist_entity ==
  OneOf({"include", "library", "library_def", "subckt", "analysis", "global",
    "model", "global_declarations", "control", "component"})

(* Files and libraries. *)
include == OneOf({"standard_include", "dspf_include", "verilog_include"})
standard_include == {<<"INCLUDE", "filepath", "end_of_line">>}
verilog_include == {<<"VERILOG", "filepath", "end_of_line">>}
dspf_include ==
  {<<"DSPF_INCLUDE">>} ++ Opt({<<"ID", "EQUAL">>}) ++ {<<"filepath">>}
    ++ Opt({<<"parameter_list">>}) ++ {<<"end_of_line">>}
library ==
  {<<"LIB">>} ++ Opt({<<"library_key">>}) ++ {<<"library_path">>}
    ++ Opt({<<"library_name">>}) ++ {<<"end_of_line">>}
library_key == {<<"KEY", "EQUAL", "ID">>}
library_path == {<<"filepath">>}
library_name == {<<"ID">>}
library_def ==
  {<<"library_def_header">>} ++ Some({<<"library_def_content">>})
    ++ {<<"library_def_footer", "end_of_line">>}
library_def_header == {<<"LIB", "library_name", "end_of_line">>}
library_def_content == {<<"netlist_entity">>}
library_def_footer == {<<"LIB_END">>} ++ Opt({<<"library_name">>})

(* Subcircuits. *)
subckt ==
  {<<"subckt_header">>} ++ Some({<<"subckt_content">>})
    ++ {<<"subckt_footer">>}
subckt_header ==
  {<<"SUBCKT", "ID">>} ++ Opt({<<"node_list">>})
    ++ Opt(Opt({<<"PARAM_LIST_START">>}) ++ {<<"parameter_list">>})
    ++ {<<"end_of_line">>}
subckt_content == {<<"netlist_entity">>}
subckt_footer == {<<"SUBCKT_END">>} ++ Opt({<<"ID">>}) ++ {<<"end_of_line">>}

(* Analyses. *)
analysis ==
  OneOf({"ac", "age", "checksoa", "dc", "dchiz", "dcmismatch", "dex", "dsp",
    "dspmod", "four", "lstb", "mc", "noise", "noisetran", "op", "optfour",
    "optimize", "optnoise", "pz", "ramp", "sens", "sensac", "sensparam",
    "snf", "solve", "tf", "tran", "wcase", "extract"})
ac ==
  {<<"AC">>} ++ OneOf({"ac_parameter_driven", "ac_data_driven",
    "ac_list_driven", "ac_adaptive"}) ++ {<<"end_of_line">>}
ac_parameter_driven ==
  {<<"ID", "NUMBER", "NUMBER", "NUMBER">>} ++ Opt({<<"parameter_list">>})
ac_data_driven == {<<"parameter">>} ++ Opt({<<"parameter_list">>})
ac_list_driven == {<<"ID">>} ++ Opt({<<"parameter_list">>})
ac_adaptive == {<<"ID", "NUMBER", "NUMBER", "NUMBER">>}
age == {<<"AGE", "parameter_list", "end_of_line">>}
checksoa == {<<"CHECKSOA", "parameter_list", "end_of_line">>}
dc ==
  {<<"DC">>} ++ Opt(OneOf({"dc_component_analysis", "dc_source_analysis",
    "dc_temperature_analysis", "dc_parameter_analysis",
    "dc_data_driven_analysis"})) ++ {<<"end_of_line">>}
dc_component_analysis ==
  {<<"ID">>} ++ Opt({<<"ID">>}) ++ Opt({<<"ID">>})
    ++ {<<"NUMBER", "NUMBER", "NUMBER">>} ++ Opt({<<"parameter_list">>})
dc_source_analysis ==
  {<<"ID">>} ++ Opt({<<"ID">>}) ++ {<<"NUMBER", "NUMBER", "NUMBER">>}
    ++ Opt({<<"ID", "NUMBER", "NUMBER", "NUMBER">>})
    ++ Opt({<<"parameter_list">>})
dc_temperature_analysis ==
  {<<"TEMP", "NUMBER", "NUMBER", "NUMBER">>} ++ Opt({<<"parameter_list">>})
dc_parameter_analysis ==
  {<<"PARAM", "ID">>} ++ Opt({<<"ID">>})
    ++ {<<"NUMBER", "NUMBER", "NUMBER">>} ++ Opt({<<"parameter_list">>})
dc_data_driven_analysis == {<<"parameter">>} ++ Opt({<<"parameter_list">>})
dchiz == {<<"DCHIZ", "parameter", "end_of_line">>}
dcmismatch ==
  {<<"DCMISMATCH">>} ++ Opt({<<"parameter_list">>}) ++ {<<"end_of_line">>}
dex ==
  {<<"DEX", "parameter", "parameter">>} ++ Opt({<<"parameter_list">>})
    ++ {<<"end_of_line">>}
dsp ==
  {<<"DSP", "parameter">>} ++ Opt({<<"parameter">>})
    ++ Opt({<<"parameter">>}) ++ {<<"ID">>} ++ Opt({<<"parameter_list">>})
    ++ {<<"end_of_line">>}
dspmod ==
  {<<"DSPMOD", "parameter", "parameter">>} ++ Opt({<<"parameter_list">>})
    ++ {<<"end_of_line">>}
four ==
  {<<"FOUR", "parameter", "ID">>} ++ Opt({<<"parameter_list">>})
    ++ {<<"end_of_line">>}
lstb == {<<"LSTB", "filepath", "end_of_line">>}
mc ==
  {<<"MC", "NUMBER">>} ++ Opt({<<"parameter_list">>}) ++ {<<"end_of_line">>}
noise == {<<"NOISE", "parameter", "parameter", "NUMBER", "end_of_line">>}
noisetran ==
  {<<"NOISETRAN", "parameter", "parameter", "parameter">>}
    ++ Opt({<<"parameter_list">>}) ++ {<<"end_of_line">>}
op ==
  {<<"OP">>} ++ OneOf({"op_selective", "op_time_based", "op_dc_based"})
    ++ {<<"end_of_line">>}
op_selective == Many(Opt({<<"ID">>}) ++ {<<"expression">>})
op_time_based ==
  {<<"parameter">>} ++ Opt({<<"parameter">>}) ++ Opt({<<"parameter">>})
op_dc_based ==
  {<<"parameter">>} ++ Opt({<<"parameter">>}) ++ Opt({<<"parameter">>})
    ++ Opt({<<"parameter">>})
optfour ==
  {<<"OPTFOUR">>} ++ Opt({<<"parameter_list">>}) ++ {<<"end_of_line">>}
optimize ==
  {<<"OPTIMIZE">>} ++ Opt({<<"parameter_list">>}) ++ {<<"end_of_line">>}
optnoise ==
  {<<"OPTNOISE">>} ++ Opt({<<"parameter_list">>}) ++ {<<"end_of_line">>}
pz == {<<"PZ", "filepath", "end_of_line">>}
ramp ==
  {<<"RAMP", "ID", "NUMBER">>} ++ Opt({<<"NUMBER">>}) ++ Opt({<<"ID">>})
    ++ {<<"end_of_line">>}
sens == {<<"SENS", "parameter_list", "end_of_line">>}
sensac == {<<"SENSAC", "parameter_list", "end_of_line">>}
sensparam ==
  {<<"SENSPARAM", "parameter", "parameter">>} ++ Opt({<<"parameter_list">>})
    ++ {<<"end_of_line">>}
snf ==
  {<<"SNF", "parameter", "parameter">>} ++ Opt({<<"parameter_list">>})
    ++ {<<"end_of_line">>}
solve ==
  {<<"SOLVE">>} ++ OneOf({"solve_parameter", "solve_object",
    "solve_component"}) ++ {<<"end_of_line">>}
solve_parameter ==
  {<<"PARAM", "ID", "NUMBER", "NUMBER", "parameter_list", "end_of_line">>}
solve_object ==
  {<<"PARAM", "ID">>} ++ Opt({<<"ID">>})
    ++ {<<"NUMBER", "NUMBER", "parameter_list", "end_of_line">>}
solve_component ==
  {<<"PARAM", "ID">>} ++ Opt({<<"ID">>})
    ++ {<<"NUMBER", "NUMBER", "parameter_list", "end_of_line">>}
tf == {<<"TF", "parameter", "parameter", "end_of_line">>}
tran ==
  {<<"TRAN">>} ++ OneOf({"tran_point_driven", "tran_parameterized",
    "tran_data_driven"}) ++ {<<"end_of_line">>}
tran_point_driven ==
  {<<"NUMBER", "NUMBER">>} ++ Opt({<<"NUMBER">>} ++ Opt({<<"NUMBER">>}))
    ++ Opt({<<"parameter_list">>})
tran_parameterized ==
  Some({<<"expression", "expression">>}) ++ Opt({<<"parameter_list">>})
tran_data_driven == {<<"parameter_list">>}
wcase ==
  {<<"WCASE", "ID">>} ++ Opt({<<"parameter_list">>}) ++ {<<"end_of_line">>}
extract ==
  {<<"EXTRACT">>} ++ Opt({<<"parameter_list">>}) ++ {<<"end_of_line">>}

(* Models and control statements. *)
global == {<<"GLOBAL">>} ++ Opt({<<"node_list">>}) ++ {<<"end_of_line">>}
model ==
  ({<<"MODEL_DEF", "model_name">>} ++ Opt({<<"model_master">>})
    ++ Opt({<<"NONOISE">>}) ++ Opt({<<"parameter_list">>})
    ++ {<<"end_of_line">>})
    \cup ({<<"MODEL_DEF", "model_lib", "filepath", "model_name">>}
    ++ Opt({<<"model_lib_type">>}) ++ {<<"end_of_line">>})
model_lib == {<<"ID">>}
model_name == {<<"ID">>}
model_master == {<<"ID">>}
model_lib_type == {<<"ID">>}
control ==
  OneOf({"alter", "save", "option", "nodeset", "call_tcl", "use_tcl",
    "defmac", "chrent", "ic", "print", "plot", "ffile", "probe", "defwave",
    "temp", "meas", "connect"})
alter == Some({<<"alter_definition">>}) ++ {<<"alter_footer", "end_of_line">>}
alter_definition == {<<"alter_header">>} ++ Some({<<"alter_content">>})
alter_header == {<<"ALTER">>} ++ Many({<<"ID">>}) ++ {<<"end_of_line">>}
alter_content == {<<"netlist_entity">>}
alter_footer == {<<"NETLIST_END">>}
save ==
  {<<"SAVE">>} ++ Opt({<<"save_file">>}) ++ {<<"save_when">>}
    ++ Opt({<<"parameter_list">>}) ++ {<<"end_of_line">>}
save_file == Opt({<<"ID", "EQUAL">>}) ++ {<<"filepath">>}
save_when == OneOf({"ID", "parameter"})
option == OneOf({"OPTION", "OPT"}) ++ {<<"parameter_list", "end_of_line">>}
nodeset == {<<"NODESET", "parameter_list", "end_of_line">>}
call_tcl ==
  {<<"CALL_TCL">>} ++ Opt({<<"ID">>}) ++ Opt({<<"call_tcl_when">>})
    ++ Opt({<<"parameter_list">>}) ++ Opt({<<"expression">>})
    ++ Opt({<<"ID">>}) ++ {<<"end_of_line">>}
call_tcl_when == {<<"WHEN", "EQUAL", "ID">>}
use_tcl == {<<"USE_TCL", "filepath", "end_of_line">>}
defmac == {<<"DEFMAC", "parameter", "end_of_line">>}
chrent ==
  {<<"CHRENT", "node", "chrent_behaviour">>} ++ Opt({<<"ID">>})
    ++ {<<"end_of_line">>}
chrent_behaviour == Some({<<"chrent_point">>})
chrent_point == Some({<<"chrent_pair">>}) ++ Opt({<<"NUMBER">>})
chrent_pair == {<<"NUMBER", "NUMBER">>}
ic == {<<"IC">>} ++ Some({<<"ic_content">>}) ++ {<<"end_of_line">>}
ic_content == {<<"parameter">>} ++ Opt({<<"ic_subckt">>})
ic_subckt == {<<"SUBCKT", "EQUAL", "ID">>}
print ==
  {<<"PRINT">>} ++ Opt({<<"ID">>}) ++ {<<"parameter_list", "end_of_line">>}
plot ==
  {<<"PLOT">>} ++ Opt({<<"ID">>}) ++ {<<"parameter_list", "end_of_line">>}
ffile ==
  {<<"FFILE", "ffile_tabulation">>} ++ Opt({<<"ffile_singleline">>})
    ++ {<<"filepath">>} ++ Opt({<<"ffile_unit">>})
    ++ Opt({<<"ffile_storage_format">>}) ++ {<<"end_of_line">>}
ffile_tabulation == {<<"ID">>}
ffile_singleline == {<<"ID">>}
ffile_unit == {<<"ID">>}
ffile_storage_format == {<<"ID">>}
probe ==
  {<<"PROBE">>} ++ Opt({<<"ID">>}) ++ Opt({<<"parameter_list">>})
    ++ {<<"end_of_line">>}
defwave ==
  {<<"DEFWAVE">>} ++ Opt({<<"ID">>}) ++ Opt({<<"ID">>})
    ++ {<<"parameter", "end_of_line">>}
temp == {<<"TEMP_SET">>} ++ Some({<<"NUMBER">>}) ++ {<<"end_of_line">>}

(* Measurements. *)
meas ==
  {<<"MEAS">>} ++ Opt({<<"meas_info">>}) ++ Opt({<<"meas_vect">>})
    ++ Opt({<<"meas_catvect">>}) ++ {<<"meas_label_name">>}
    ++ Some({<<"meas_configuration">>}) ++ Opt({<<"parameter_list">>})
    ++ {<<"end_of_line">>}
meas_info == {<<"ID">>}
meas_vect == {<<"VECT">>}
meas_catvect == {<<"CATVECT">>}
meas_label_name == {<<"ID">>}
meas_configuration ==
  OneOf({"meas_find", "meas_at", "meas_when", "meas_derivative",
    "meas_param"}) \cup {<<"meas_trig", "meas_targ">>}
meas_find == {<<"FIND", "expression">>}
meas_at == {<<"AT">>} ++ Opt({<<"EQUAL">>}) ++ {<<"expression">>}
meas_when == {<<"WHEN", "expression">>}
meas_derivative == {<<"DERIVATIVE", "expression">>}
meas_param == {<<"PARAM">>} ++ Opt({<<"EQUAL">>}) ++ {<<"expression">>}
meas_trig == {<<"TRIG", "parameter_list">>}
meas_targ == {<<"TARG", "parameter_list">>}
connect == {<<"CONNECT", "expression", "expression", "end_of_line">>}
global_declarations == {<<"GLOBAL_PARAM", "parameter_list", "end_of_line">>}

(* Components: a type, the nodes after it, and attributes in any order. *)
component ==
  {<<"component_type">>} ++ Many({<<"component_attribute">>})
    ++ {<<"end_of_line">>}
component_type ==
  OneOf({"resistor", "capacitor", "inductor", "coupled_inductor",
    "diffusion_resistor", "transmission_line", "lossy_transmission_line",
    "ltl_w_model", "ltl_u_model", "junction_diode", "bjt", "jfet", "mosfet",
    "subckt_instance", "ivsource", "icsource", "vcvs", "cccs", "vccs",
    "ccvs", "noise_function", "sw", "operational_amplifier",
    "two_input_gate"})
component_attribute ==
  OneOf({"component_parameter_list", "component_value", "component_analysis",
    "component_pin_list", "component_port_list", "component_net_list",
    "component_coupling_list", "component_value_list", "component_table",
    "component_positional_keywork", "interp_type"})
component_value ==
  ({<<"OPEN_CURLY">>} ++ OneOf({"STRING", "expression"})
    ++ {<<"CLOSE_CURLY">>}) \cup OneOf({"STRING", "expression"})
component_parameter_list ==
  OneOf({"PARAM_LIST_START", "GENERIC_LIST_START"})
    \cup Opt(OneOf({"PARAM_LIST_START", "GENERIC_LIST_START"}))
    ++ {<<"parameter_list">>}
component_analysis ==
  (OneOf({"AC", "DC"}) ++ {<<"OPEN_CURLY">>} ++ Opt({<<"expression">>})
    ++ {<<"CLOSE_CURLY">>}) \cup (OneOf({"AC", "DC"})
    ++ Opt({<<"expression">>}))
component_positional_keywork == {<<"NOISE">>}
component_pin_list == {<<"PIN_LIST_START", "node_list">>}
component_port_list == {<<"PORT_LIST_START", "node_list">>}
component_net_list == {<<"NET_LIST_START", "node_list">>}
component_coupling_list ==
  {<<"COUPLING_LIST_START">>} ++ Some({<<"expression">>})
component_table ==
  {<<"TABLE", "expression", "EQUAL">>} ++ Some({<<"expression_list">>})
component_value_list ==
  OneOf({"PWL", "SIN", "SFFM", "PULSE", "EXP"}) ++ {<<"OPEN_ROUND">>}
    ++ Some({<<"expression">>} ++ Opt({<<"COMMA">>})) ++ {<<"CLOSE_ROUND">>}
interp_type == {<<"INTERP", "EQUAL", "ID">>}

(* Component types. *)
resistor == {<<"RESISTOR", "node", "node">>} ++ Opt({<<"ID">>})
capacitor == {<<"CAPACITOR", "node", "node">>} ++ Opt({<<"ID">>})
inductor == {<<"INDUCTOR", "node", "node">>}
coupled_inductor == {<<"COUPLED_INDUCTOR", "ID", "ID">>}
diffusion_resistor ==
  {<<"DIFFUSION_RESISTOR", "node", "node">>} ++ Opt({<<"node">>})
    ++ {<<"ID">>}
transmission_line == {<<"TRANSMISSION_LINE", "node", "node", "node", "node">>}
lossy_transmission_line == {<<"LOSSY_TRANSMISSION_LINE">>}
ltl_w_model == {<<"LTL_W_MODEL">>}
ltl_u_model == {<<"LTL_U_MODEL">>}
junction_diode == {<<"JUNCTION_DIODE", "node", "node">>}
bjt == {<<"BJT", "node", "node", "node">>}
jfet == {<<"JFET", "node", "node", "node", "ID">>}
mosfet ==
  {<<"MOSFET", "node_list">>} ++ Opt(OneOf({"MODEL", "MOD"})
    ++ {<<"EQUAL">>}) ++ {<<"ID">>}
subckt_instance ==
  {<<"SUBCK_INSTANCE", "node_list", "ID">>} \cup ({<<"SUBCK_INSTANCE">>}
    ++ Opt({<<"MODEL", "COLON">>}) ++ {<<"ID">>})
ivsource == {<<"IVSOURCE", "node", "node">>}
icsource == {<<"ICSOURCE", "node", "node">>}
vcvs == {<<"VCVS", "node", "node">>}
cccs == {<<"CCCS", "node", "node">>}
vccs == {<<"VCCS", "node", "node">>}
ccvs == {<<"CCVS", "node", "node">>}
noise_function == {<<"NOISE">>}
sw ==
  {<<"SW", "node", "node", "node">>} ++ Opt({<<"ID">>})
    ++ Opt({<<"expression_atom">>} ++ Opt({<<"expression_atom">>}))
operational_amplifier ==
  {<<"OPA", "node", "node", "node", "node">>} ++ Opt({<<"ID">>})
two_input_gate ==
  OneOf({"DIG_NAND", "DIG_AND", "DIG_OR", "DIG_NOR", "DIG_XOR"})
    ++ {<<"node", "node", "node">>} ++ Opt({<<"ID", "ID">>})
    ++ Opt({<<"ID">>}) ++ {<<"parameter_list">>}

(* Expressions. *)
end == {<<"NETLIST_END", "end_of_line">>}
expression ==
  OneOf({"expression_unary", "expression_function_call", "expression_list",
    "expression_atom"})
    \cup {<<"expression", "OPEN_CURLY", "expression", "CLOSE_CURLY">>}
    \cup ({<<"expression", "expression_operator">>}
    ++ Opt({<<"expression">>}))
    \cup {<<"expression", "QUESTION_MARK", "expression", "COLON", "expression">>}
expression_unary == OneOf({"PLUS", "MINUS"}) ++ {<<"expression">>}
expression_function_call ==
  OneOf({"ID", "MOD", "MODEL"}) ++ OneOf({"OPEN_ROUND", "OPEN_CURLY",
    "OPEN_SQUARE"}) ++ Some({<<"expression">>} ++ Opt({<<"COMMA">>}))
    ++ OneOf({"CLOSE_ROUND", "CLOSE_CURLY", "CLOSE_SQUARE"})
expression_list ==
  OneOf({"OPEN_ROUND", "OPEN_CURLY", "OPEN_SQUARE"})
    ++ Some({<<"expression">>} ++ Opt({<<"COMMA">>}))
    ++ OneOf({"CLOSE_ROUND", "CLOSE_CURLY", "CLOSE_SQUARE"})
expression_operator ==
  OneOf({"EQUAL", "PLUS", "MINUS", "STAR", "SLASH", "LOGIC_AND",
    "LOGIC_BITWISE_AND", "LOGIC_OR", "LOGIC_BITWISE_OR", "LOGIC_EQUAL",
    "LOGIC_NOT_EQUAL", "LOGIC_XOR", "LESS_THAN", "LESS_THAN_EQUAL",
    "GREATER_THAN", "GREATER_THAN_EQUAL", "EXCLAMATION_MARK",
    "BITWISE_SHIFT_LEFT", "BITWISE_SHIFT_RIGHT", "POWER_OPERATOR", "CARET",
    "PERCENT"})
expression_atom == OneOf({"NUMBER", "ID", "STRING", "PERCENTAGE"})

(* Nodes and parameters. *)
node_list ==
  Some({<<"node_list_item">>} ++ Opt({<<"COMMA">>})) \cup ({<<"OPEN_ROUND">>}
    ++ Some({<<"node_list_item">>} ++ Opt({<<"COMMA">>}))
    ++ {<<"CLOSE_ROUND">>})
node_list_item == OneOf({"node", "node_mapping"})
node_mapping == {<<"node", "EQUAL", "node">>}
node == OneOf({"ID", "NUMBER"}) ++ Opt({<<"DOT", "node">>})
parameter_list ==
  Opt({<<"PARAM_LIST_START">>}) ++ Opt({<<"OPEN_ROUND">>})
    ++ Some({<<"parameter_list_item">>}) ++ Opt({<<"CLOSE_ROUND">>})
parameter_list_item == {<<"parameter">>}
parameter == {<<"parameter_lhs">>} ++ Opt({<<"parameter_rhs">>})
parameter_lhs ==
  OneOf({"expression_function_call", "expression_list"}) \cup OneOf({"ID",
    "MOD", "MODEL"})
parameter_rhs == {<<"EQUAL", "expression">>}

(* Paths and line ends. *)
filepath == {<<"filepath_element">>}
filepath_element ==
  OneOf({"ID", "STRING"}) \cup {<<"ID", "filepath_element">>}
    \cup {<<"APEX", "filepath_element", "APEX">>}
    \cup {<<"SLASH", "filepath_element">>}
    \cup {<<"DOT", "filepath_element">>}
    \cup {<<"MINUS", "filepath_element">>}
    \cup {<<"DOLLAR", "filepath_element">>}
end_of_line == {<<"EOF">>} \cup Many({<<"NL">>})

(* Every rule by its name, as the parser's table of rule names lists them. *)
Rules == [netlist |-> netlist, netlist_title |-> netlist_title,
  netlist_entity |-> netlist_entity, include |-> include,
  standard_include |-> standard_include, verilog_include |-> verilog_include,
  dspf_include |-> dspf_include, library |-> library,
  library_key |-> library_key, library_path |-> library_path,
  library_name |-> library_name, library_def |-> library_def,
  library_def_header |-> library_def_header,
  library_def_content |-> library_def_content,
  library_def_footer |-> library_def_footer, subckt |-> subckt,
  subckt_header |-> subckt_header, subckt_content |-> subckt_content,
  subckt_footer |-> subckt_footer, analysis |-> analysis, ac |-> ac,
  ac_parameter_driven |-> ac_parameter_driven,
  ac_data_driven |-> ac_data_driven, ac_list_driven |-> ac_list_driven,
  ac_adaptive |-> ac_adaptive, age |-> age, checksoa |-> checksoa, dc |-> dc,
  dc_component_analysis |-> dc_component_analysis,
  dc_source_analysis |-> dc_source_analysis,
  dc_temperature_analysis |-> dc_temperature_analysis,
  dc_parameter_analysis |-> dc_parameter_analysis,
  dc_data_driven_analysis |-> dc_data_driven_analysis, dchiz |-> dchiz,
  dcmismatch |-> dcmismatch, dex |-> dex, dsp |-> dsp, dspmod |-> dspmod,
  four |-> four, lstb |-> lstb, mc |-> mc, noise |-> noise,
  noisetran |-> noisetran, op |-> op, op_selective |-> op_selective,
  op_time_based |-> op_time_based, op_dc_based |-> op_dc_based,
  optfour |-> optfour, optimize |-> optimize, optnoise |-> optnoise,
  pz |-> pz, ramp |-> ramp, sens |-> sens, sensac |-> sensac,
  sensparam |-> sensparam, snf |-> snf, solve |-> solve,
  solve_parameter |-> solve_parameter, solve_object |-> solve_object,
  solve_component |-> solve_component, tf |-> tf, tran |-> tran,
  tran_point_driven |-> tran_point_driven,
  tran_parameterized |-> tran_parameterized,
  tran_data_driven |-> tran_data_driven, wcase |-> wcase,
  extract |-> extract, global |-> global, model |-> model,
  model_lib |-> model_lib, model_name |-> model_name,
  model_master |-> model_master, model_lib_type |-> model_lib_type,
  control |-> control, alter |-> alter,
  alter_definition |-> alter_definition, alter_header |-> alter_header,
  alter_content |-> alter_content, alter_footer |-> alter_footer,
  save |-> save, save_file |-> save_file, save_when |-> save_when,
  option |-> option, nodeset |-> nodeset, call_tcl |-> call_tcl,
  call_tcl_when |-> call_tcl_when, use_tcl |-> use_tcl, defmac |-> defmac,
  chrent |-> chrent, chrent_behaviour |-> chrent_behaviour,
  chrent_point |-> chrent_point, chrent_pair |-> chrent_pair, ic |-> ic,
  ic_content |-> ic_content, ic_subckt |-> ic_subckt, print |-> print,
  plot |-> plot, ffile |-> ffile, ffile_tabulation |-> ffile_tabulation,
  ffile_singleline |-> ffile_singleline, ffile_unit |-> ffile_unit,
  ffile_storage_format |-> ffile_storage_format, probe |-> probe,
  defwave |-> defwave, temp |-> temp, meas |-> meas, meas_info |-> meas_info,
  meas_vect |-> meas_vect, meas_catvect |-> meas_catvect,
  meas_label_name |-> meas_label_name,
  meas_configuration |-> meas_configuration, meas_find |-> meas_find,
  meas_at |-> meas_at, meas_when |-> meas_when,
  meas_derivative |-> meas_derivative, meas_param |-> meas_param,
  meas_trig |-> meas_trig, meas_targ |-> meas_targ, connect |-> connect,
  global_declarations |-> global_declarations, component |-> component,
  component_type |-> component_type,
  component_attribute |-> component_attribute,
  component_value |-> component_value,
  component_parameter_list |-> component_parameter_list,
  component_analysis |-> component_analysis,
  component_positional_keywork |-> component_positional_keywork,
  component_pin_list |-> component_pin_list,
  component_port_list |-> component_port_list,
  component_net_list |-> component_net_list,
  component_coupling_list |-> component_coupling_list,
  component_table |-> component_table,
  component_value_list |-> component_value_list, interp_type |-> interp_type,
  resistor |-> resistor, capacitor |-> capacitor, inductor |-> inductor,
  coupled_inductor |-> coupled_inductor,
  diffusion_resistor |-> diffusion_resistor,
  transmission_line |-> transmission_line,
  lossy_transmission_line |-> lossy_transmission_line,
  ltl_w_model |-> ltl_w_model, ltl_u_model |-> ltl_u_model,
  junction_diode |-> junction_diode, bjt |-> bjt, jfet |-> jfet,
  mosfet |-> mosfet, subckt_instance |-> subckt_instance,
  ivsource |-> ivsource, icsource |-> icsource, vcvs |-> vcvs, cccs |-> cccs,
  vccs |-> vccs, ccvs |-> ccvs, noise_function |-> noise_function, sw |-> sw,
  operational_amplifier |-> operational_amplifier,
  two_input_gate |-> two_input_gate, end |-> end, expression |-> expression,
  expression_unary |-> expression_unary,
  expression_function_call |-> expression_function_call,
  expression_list |-> expression_list,
  expression_operator |-> expression_operator,
  expression_atom |-> expression_atom, node_list |-> node_list,
  node_list_item |-> node_list_item, node_mapping |-> node_mapping,
  node |-> node, parameter_list |-> parameter_list,
  parameter_list_item |-> parameter_list_item, parameter |-> parameter,
  parameter_lhs |-> parameter_lhs, parameter_rhs |-> parameter_rhs,
  filepath |-> filepath, filepath_element |-> filepath_element,
  end_of_line |-> end_of_line]
=============================================================================
