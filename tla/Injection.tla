------------------------------ MODULE Injection ------------------------------
(***************************************************************************)
(* A defect of the universe is put into the circuit: DefectModel.inject of *)
(* the four models, with find_subckt, find_component, find_parameter and   *)
(* rename_node.  The universe is that of the circuit after merging; each   *)
(* injection parses the netlist again, as it was before.                   *)
(***************************************************************************)
EXTENDS DefectUniverse

CONSTANTS
  Opened(_),     (* the name of a net with "_open" after it                *)
  Subcircuits,   (* names of the subcircuits in the file                   *)
  Address(_),    (* the content and the component whose names, with a dot  *)
                 (* between them, are the name of an instance              *)
  Split(_)       (* what inject takes for them: the last two parts of that *)
                 (* name, another pair if a part has dots of its own       *)

ASSUME InjectionAssumption ==
  \A s \in Circuits : \A i, j \in DOMAIN s : \A k \in DOMAIN s[i], l \in DOMAIN s[j] :
    LET m == s[i][k].name  n == s[j][l].name
    IN  Address(m)[1] = Address(n)[1] /\ Address(m)[2] = Address(n)[2] => m = n

VARIABLES
  netlist,    (* the circuit in the file                                   *)
  target,     (* the defect that was injected last, or NoDefect            *)
  outcome,    (* "none", "ok" or "raised"                                  *)
  defected    (* what inject returned: for each content its components,    *)
              (* the defect's instance after them                          *)

injection == <<netlist, target, outcome, defected>>

NoDefect == [id |-> -1, instance |-> "", category |-> "other", kind |-> "none",
             weight |-> 0, subject |-> <<>>]

-----------------------------------------------------------------------------
(* Where find_component gets: to the first component of the name, in the  *)
(* subcircuit that find_subckt found or, if it found none, in the whole    *)
(* circuit.                                                                *)
Places(instance) ==
  LET scope == Split(instance)[1]
      hits == {p \in UNION {{<<i, k>> : k \in DOMAIN netlist[i]} : i \in DOMAIN netlist} :
                 LET address == Address(netlist[p[1]][p[2]].name) IN
                 /\ address[2] = Split(instance)[2]
                 /\ scope \in Subcircuits => address[1] = scope}
  IN  {p \in hits : \A q \in hits : p[1] < q[1] \/ (p[1] = q[1] /\ p[2] <= q[2])}

(* "AST contamination detected", when a subcircuit has the component's     *)
(* name; "Unable to define the proper injection scope".  A deviation needs *)
(* neither.                                                                *)
Refused(d) ==
  /\ d.kind # "parametric"
  /\ Split(d.instance)[2] \in Subcircuits \/ Split(d.instance)[1] \notin Subcircuits

(* Fault: only the first terminal on the net is renamed.                   *)
RenamedFirst(c, old, new) ==
  [c EXCEPT !.nodes = [k \in DOMAIN @ |->
     IF @[k] = old /\ \A j \in 1 .. k - 1 : @[j] # old THEN new ELSE @[k]]]

(* rename_node on a component: every terminal on the net, and every        *)
(* identifier of that name among its parameters.                           *)
Renamed(c, old, new) ==
  LET to(n) == IF n = old THEN new ELSE n
  IN  [c EXCEPT !.nodes  = [k \in DOMAIN @ |-> to(@[k])],
                !.params = [k \in DOMAIN @ |->
                              [name |-> to(@[k].name), value |-> @[k].value]]]

(* The instance of a defect's subcircuit.  Its master says what that       *)
(* subcircuit holds, not what it is called: that of a diode's open is      *)
(* called short_model, and holds the resistance of an open.                *)
Instance(model, nodes) ==
  [name |-> "defect", kind |-> "other", master |-> model, nodes |-> nodes,
   params |-> <<>>]

(* Fault: a gate is opened as any other terminal.                          *)
IsOpenGateNever(d) == FALSE

IsOpenGate(d) == d.kind = "open" /\ Len(d.subject) = 3

(* Fault: the gate is looked for at the component's first node.            *)
FitsFirst(d, c) ==
  CASE IsOpenGate(d) -> Len(c.nodes) > 1 /\ c.nodes[1] = d.subject[2]
    [] d.kind = "parametric" -> Has(c, d.subject[1])
    [] OTHER -> TRUE

(* The model's nodes, or the parameter, are in the component: the gate is  *)
(* its second node.                                                        *)
Fits(d, c) ==
  CASE IsOpenGate(d) -> Len(c.nodes) > 1 /\ c.nodes[2] = d.subject[2]
    [] d.kind = "parametric" -> Has(c, d.subject[1])
    [] OTHER -> TRUE

(* Of the deviations of a parameter, the lower one is listed first.        *)
IsMin(d) == \E e \in AllDetails : /\ e.instance = d.instance /\ e.subject = d.subject
                                  /\ e.kind = "parametric" /\ e.id > d.id

(* A parameter deviates by one.                                            *)
Deviated(c, p, low) ==
  LET deviated(v) == IF low THEN v - 1 ELSE v + 1 IN
  [c EXCEPT !.params = [k \in DOMAIN @ |->
     IF @[k].name = p /\ \A j \in 1 .. k - 1 : @[j].name # p
     THEN [name |-> p, value |-> deviated(@[k].value)] ELSE @[k]]]

(* The component with the defect, and what is added beside it.             *)
Injected(d, c) ==
  LET n == d.subject IN
  CASE IsOpenGate(d) ->
         <<Renamed(c, n[2], Opened(n[2])),
           <<Instance("open_gate_model", <<n[1], Opened(n[2]), n[3]>>)>> >>
    [] d.kind = "open" /\ ~ IsOpenGate(d) ->
         <<Renamed(c, n[1], Opened(n[1])),
           <<Instance("open_model", <<Opened(n[1]), n[1]>>)>> >>
    [] d.kind = "short" -> <<c, <<Instance("short_model", n)>> >>
    [] d.kind = "parametric" -> <<Deviated(c, n[1], IsMin(d)), <<>> >>

(* The circuit with defect d in the component at place p.                  *)
Defected(d, p) ==
  LET c == netlist[p[1]][p[2]] IN
  [netlist EXCEPT ![p[1]] = [@ EXCEPT ![p[2]] = Injected(d, c)[1]] \o Injected(d, c)[2]]

-----------------------------------------------------------------------------
InitInjection ==
  /\ Init
  /\ netlist = circuit
  /\ target = NoDefect
  /\ outcome = "none"
  /\ defected = <<>>

(* The campaign has the universe: any worker injects any defect.  Without  *)
(* a place that fits: "Unable to find component", "Mismatch between gate". *)
Inject ==
  /\ pc = "done" /\ outcome = "none"
  /\ \E d \in universe :
       LET sites == {p \in Places(d.instance) : Fits(d, netlist[p[1]][p[2]])} IN
       /\ target' = d
       /\ \/ /\ Refused(d) \/ sites = {}
             /\ outcome' = "raised" /\ defected' = defected
          \/ /\ ~ Refused(d)
             /\ outcome' = "ok" /\ \E p \in sites : defected' = Defected(d, p)
  /\ UNCHANGED <<vars, netlist>>

NextInjection == (Next /\ UNCHANGED injection) \/ Inject

SpecInjection == InitInjection /\ [][NextInjection]_<<vars, injection>>

FairSpecInjection == SpecInjection /\ WF_vars(Next)
-----------------------------------------------------------------------------
(* inject arrives at the component that the instance's name was made of.   *)
Undotted(instance) == Split(instance) = Address(instance) /\ Address(instance)[1] \in Subcircuits

(* Of the defects of a component without dots in its names, inject refuses *)
(* the shorts and opens of one that has the name of a subcircuit, and no   *)
(* other: what merging and collapsing leave names components, gates and    *)
(* parameters of the netlist, although that is parsed anew and was never   *)
(* merged.                                                                 *)
OnlyNamesakesAreRefused ==
  (outcome # "none" /\ Undotted(target.instance)) =>
    (outcome = "raised" <=>
       target.kind # "parametric" /\ Address(target.instance)[2] \in Subcircuits)

(* An open that is closed again leaves the circuit as it was: nothing but  *)
(* the component's terminals on the net has changed, and they all meet in  *)
(* the defect.  (Unless the new name was in use, or a parameter has the    *)
(* name of the net: rename_node does not tell them apart.  What a name     *)
(* with dots leads to may be another component, here and below.)           *)
NetNames(s) == UNION {{s[k].nodes[j] : j \in DOMAIN s[k].nodes} : k \in DOMAIN s}
ParamNames(s) == UNION {{s[k].params[j].name : j \in DOMAIN s[k].params} : k \in DOMAIN s}

CutNet(d) == d.subject[IF IsOpenGate(d) THEN 2 ELSE 1]
Closed(s, n) == [k \in 1 .. Len(s) - 1 |-> Renamed(s[k], Opened(n), n)]

OpensCanBeClosed ==
  (outcome = "ok" /\ target.kind = "open" /\ Undotted(target.instance)) =>
    \A p \in Places(target.instance) :
      LET s == netlist[p[1]]
          n == CutNet(target)
      IN  (Opened(n) \notin NetNames(s) \cup ParamNames(s) /\ n \notin ParamNames(s)) =>
            /\ Closed(defected[p[1]], n) = s
            /\ n \notin {defected[p[1]][p[2]].nodes[j] : j \in DOMAIN s[p[2]].nodes}
            /\ \A i \in DOMAIN netlist \ {p[1]} : defected[i] = netlist[i]

(* Two defects of a component whose terminals are on different nets, and   *)
(* whose parameters have different names, are two different circuits, so   *)
(* that each is simulated for itself.                                      *)
Distinct(q) == \A i, j \in DOMAIN q : q[i] = q[j] => i = j
ParamsOf(c) == [k \in DOMAIN c.params |-> c.params[k].name]

DefectsAreToldApart ==
  (pc = "done" /\ outcome = "none") =>
    \A d, e \in universe : (d.instance = e.instance /\ d # e /\ Undotted(d.instance)) =>
      \A p \in Places(d.instance) :
        LET c == netlist[p[1]][p[2]] IN
        Distinct(c.nodes) /\ Distinct(ParamsOf(c)) => Injected(d, c) # Injected(e, c)

(* A defect of components that were merged counts as often as there are    *)
(* cards of them in the netlist, and is injected into one while the others *)
(* stay beside it.  These are devices only when each card is one: what     *)
(* multiplicity the cards had is overwritten, and not counted.  (Unless    *)
(* the new name of a net was in use: the model is then a card like others.)*)
OneDeviceIsHit ==
  (/\ outcome = "ok" /\ manifest.merge /\ target.kind # "short"
   /\ Undotted(target.instance)) =>
    \A p \in Places(target.instance) :
      LET s == netlist[p[1]]
          c == s[p[2]]
          left == {k \in DOMAIN defected[p[1]] : Signature(defected[p[1]][k]) = Signature(c)}
          merged == CHOOSE m \in {circuit[p[1]][k] : k \in DOMAIN circuit[p[1]]} : m.name = c.name
          new == target.kind = "open" => Opened(CutNet(target)) \notin NetNames(s)
      IN  HasTwins(s, p[2]) /\ Multiplicity(c) = 1 /\ new =>
            Cardinality(left) = Multiplicity(merged) - 1
=============================================================================
