--------------------------- MODULE DefectUniverse ---------------------------
(***************************************************************************)
(* The defects a circuit can have: Optimizer.optimize_merge merges equal   *)
(* components of the design under test, DefectEngine.process_defects goes  *)
(* through what is left and lists the defects of every component,          *)
(* Optimizer.optimize_collapse replaces the equivalent opens of a          *)
(* component by one, and what keeps a weight is the universe.              *)
(*                                                                         *)
(* Weights are in tenths.  A weight of which nothing but the sign matters  *)
(* is named by the parameter it grows with.                                *)
(***************************************************************************)
EXTENDS Integers, Sequences, FiniteSetsExt

CONSTANTS
  Name,         (* names: of components, models, nets and parameters       *)
  Circuits,     (* circuits: for each content of the design under test,    *)
                (* the sequence of its components                          *)
  Manifests,    (* what the manifest may ask for                           *)
  Symbolic,     (* value of a parameter that is not a number               *)
  LongChannel   (* longest channel whose drain and source can be shorted   *)

Dipole == {"resistor", "capacitor", "inductor"}
Source == {"source"}
Kind   == Dipole \cup Source \cup {"mosfet", "diode", "other", "unknown"}

(* target_parameters: what a defect can make deviate.                      *)
Target == [k \in Kind |->
  CASE k = "resistor"  -> {"r", "value", "l", "w", "rhs"}
    [] k = "capacitor" -> {"c", "cap", "area", "tox", "thick"}
    [] k = "inductor"  -> {"l"}
    [] k = "diode"     -> {"is"}
    [] k = "mosfet"    -> {"w", "l", "vth0", "tox", "thick"}
    [] OTHER           -> {}]

Value == (Nat \ {0}) \cup {Symbolic}

(* The name is the instance's, <content>.<component>; nodes are nets; the   *)
(* parameters are in the order of the netlist.                             *)
Component == [name : Name, kind : Kind, master : Name, nodes : Seq(Name),
              params : Seq([name : Name, value : Value])]

ASSUME DefectUniverseAssumption ==
  /\ "m" \in Name
  /\ Circuits \subseteq Seq(Seq(Component))
  /\ Manifests \subseteq [merge : BOOLEAN, collapse : BOOLEAN, bulk : BOOLEAN,
                          excluded : SUBSET Name]
  /\ \A c \in Circuits : \A n, m \in DOMAIN c : \A i \in DOMAIN c[n], j \in DOMAIN c[m] :
       c[n][i].name = c[m][j].name => n = m /\ i = j
  /\ Symbolic \notin Nat
  /\ LongChannel \in Nat

VARIABLES
  circuit,    (* _circuit                                                  *)
  manifest,   (* _manifest_data                                            *)
  pc,         (* where the program is                                      *)
  content,    (* number of the content in hand                             *)
  index,      (* index: the component in hand; defects_index when          *)
              (* defects are collapsed                                     *)
  number,     (* _defect_number + 1: the identifiers given so far          *)
  ignored,    (* components reported as "Ignored from the defect universe" *)
  details,    (* _universe_details: the defects of each content            *)
  universe    (* defect_universe                                           *)

vars == <<circuit, manifest, pc, content, index, number, ignored, details, universe>>

Init ==
  /\ circuit \in Circuits
  /\ manifest \in Manifests
  /\ pc = "merge"
  /\ content = 1 /\ index = 1
  /\ number = 0
  /\ ignored = {}
  /\ details = [i \in DOMAIN circuit |-> <<>>]
  /\ universe = {}

-----------------------------------------------------------------------------
(* Parameters.                                                             *)

Has(c, p) == \E i \in DOMAIN c.params : c.params[i].name = p
Get(c, p) == c.params[CHOOSE i \in DOMAIN c.params : c.params[i].name = p].value
Multiplicity(c) == IF Has(c, "m") THEN Get(c, "m") ELSE 1

(* float() and int() raise for what is not a number, lower() for what has  *)
(* no name: a value that is given by its position.                         *)
Numeric(c) == \A i \in DOMAIN c.params : c.params[i].value # Symbolic
Named(c)   == \A i \in DOMAIN c.params : c.params[i].name # ""

-----------------------------------------------------------------------------
(* optimize_merge.  Components with the same master, nodes and parameters  *)
(* are merged into the first of them, whose multiplier becomes the number  *)
(* of their cards: one that each of them had is overwritten.               *)

Signature(c) == <<c.master, c.nodes, c.params>>
Twins(s, i) == {j \in DOMAIN s : Signature(s[j]) = Signature(s[i])}
HasTwins(s, i) == Twins(s, i) # {i}

SetMultiplier(c, n) ==
  IF Has(c, "m")
  THEN [c EXCEPT !.params = [i \in DOMAIN @ |->
          IF @[i].name = "m" THEN [@[i] EXCEPT !.value = n] ELSE @[i]]]
  ELSE [c EXCEPT !.params = Append(@, [name |-> "m", value |-> n])]

(* The twins that stay, and the ways of listing them: there is one.        *)
FirstTwins(s) == {i \in DOMAIN s : \A j \in Twins(s, i) : i <= j}
InOrder(S) == {f \in [1 .. Cardinality(S) -> S] : \A i, j \in DOMAIN f : i < j => f[i] < f[j]}

(* Fault: the multiplier is the number of components removed.              *)
MergedRemoved(s, i) ==
  IF HasTwins(s, i) THEN SetMultiplier(s[i], Cardinality(Twins(s, i)) - 1) ELSE s[i]

Merged(s, i) == IF HasTwins(s, i) THEN SetMultiplier(s[i], Cardinality(Twins(s, i))) ELSE s[i]

MergeContent ==
  /\ pc = "merge" /\ manifest.merge
  /\ content \in DOMAIN circuit
  /\ \E first \in InOrder(FirstTwins(circuit[content])) :
       circuit' = [circuit EXCEPT ![content] = [k \in DOMAIN first |-> Merged(@, first[k])]]
  /\ content' = content + 1
  /\ UNCHANGED <<manifest, pc, index, number, ignored, details, universe>>

MergeDone ==
  /\ pc = "merge"
  /\ manifest.merge => content \notin DOMAIN circuit
  /\ pc' = "analyse"
  /\ content' = 1
  /\ UNCHANGED <<circuit, manifest, index, number, ignored, details, universe>>

-----------------------------------------------------------------------------
(* process_defects: the defects of one component.                          *)

Defect(kind, weight, subject) == [kind |-> kind, weight |-> weight, subject |-> subject]

(* Two for each parameter, one in each direction.  The weight is reset     *)
(* once, before the first parameter: one that is excluded, or that is no   *)
(* target, leaves no weight to those that follow.                          *)
Deviates(c, p) == p \in Target[c.kind] /\ p \notin manifest.excluded

Parametric(c) ==
  [k \in 1 .. 2 * Len(c.params) |->
     LET i == (k + 1) \div 2 IN
     Defect("parametric",
            IF \A j \in 1 .. i : Deviates(c, c.params[j].name) THEN 10 ELSE 0,
            <<c.params[i].name>>)]

(* Two-terminal elements: a resistor's open weighs as much as its          *)
(* resistance, its short the less the more.                                *)
DipoleShort(c) == IF c.kind = "capacitor" /\ Has(c, "c") THEN 10 * Get(c, "c") ELSE 10
DipoleOpen(c)  == IF c.kind = "resistor" /\ Has(c, "r") THEN 10 * Get(c, "r") ELSE 10

DipoleDefects(c) ==
  LET m == Multiplicity(c)
      open(k) == Defect("open", DipoleOpen(c) * m, <<c.nodes[k]>>)
  IN  << Defect("short", DipoleShort(c) * m, <<c.nodes[1], c.nodes[2]>>), open(1), open(2) >>
        \o Parametric(c)

(* A diode's opens are given the weight of its short.                      *)
DiodeDefects(c) ==
  LET weight == 10 * Get(c, "area") * Multiplicity(c) IN
  << Defect("short", weight, <<c.nodes[1], c.nodes[2]>>),
     Defect("open", weight, <<c.nodes[1]>>), Defect("open", weight, <<c.nodes[2]>>) >>
    \o Parametric(c)

(* drain, gate, source, bulk                                               *)
CoupledNodes == << <<1, 2>>, <<1, 3>>, <<1, 4>>, <<2, 3>>, <<2, 4>>, <<3, 4>> >>

CoupleWeight(c, a, b) ==
  LET drain == c.nodes[1]  gate == c.nodes[2]  source == c.nodes[3]  bulk == c.nodes[4]
      channel == IF Get(c, "l") > LongChannel THEN 0 ELSE 10 * Get(c, "w")
  IN  IF source = bulk THEN 0
      ELSE IF b = gate THEN 10 * Get(c, "w")
      ELSE IF a = drain /\ b = source THEN channel
      ELSE IF b = bulk THEN 10
      ELSE 0

MosfetDefects(c) ==
  LET m == Multiplicity(c)
      short(k) == LET a == c.nodes[CoupledNodes[k][1]]
                      b == c.nodes[CoupledNodes[k][2]]
                  IN  Defect("short", CoupleWeight(c, a, b) * m, <<a, b>>)
  IN  [k \in 1 .. 6 |-> short(k)]
        \o << Defect("open", 10 * m, <<c.nodes[1]>>),
              Defect("open", 5 * m, <<c.nodes[2]>>),
              Defect("open", 5 * m, <<c.nodes[1], c.nodes[2], c.nodes[3]>>),
              Defect("open", 10 * m, <<c.nodes[3]>>),
              Defect("open", IF manifest.bulk THEN 2 ELSE 0, <<c.nodes[4]>>) >>
        \o Parametric(c)

-----------------------------------------------------------------------------
(* process_defects: the loop over the components.                          *)

Turn(kinds) ==
  /\ pc = "analyse"
  /\ content \in DOMAIN circuit /\ index \in DOMAIN circuit[content]
  /\ circuit[content][index].kind \in kinds

(* defect_id, of IdGenerator: shorts, opens and deviations share a counter.*)
Listed(c, defects) ==
  [k \in DOMAIN defects |->
     [id |-> number + k - 1, instance |-> c.name, category |-> c.kind, kind |-> defects[k].kind,
      weight |-> defects[k].weight, subject |-> defects[k].subject]]

List(c, defects) ==
  /\ details' = [details EXCEPT ![content] = @ \o Listed(c, defects)]
  /\ number' = number + Len(defects)
  /\ index' = index + 1
  /\ UNCHANGED <<circuit, manifest, pc, content, ignored, universe>>

(* nodes[...] raises where there is no such node.                          *)
Terminals(kind) == CASE kind = "mosfet" -> 4
                     [] kind \in Dipole \cup {"diode"} -> 2
                     [] OTHER -> 0
Wired(c) == Len(c.nodes) >= Terminals(c.kind)

AnalyseDipole ==
  LET c == circuit[content][index] IN
  /\ Turn(Dipole) /\ Named(c) /\ Numeric(c) /\ Wired(c)
  /\ List(c, DipoleDefects(c))

(* What the weights of a transistor and a diode are calculated from.       *)
Needs(c) == IF c.kind = "mosfet" THEN {"w", "l"} ELSE IF c.kind = "diode" THEN {"area"} ELSE {}
Complete(c) == \A p \in Needs(c) : Has(c, p)

AnalyseMosfet ==
  LET c == circuit[content][index] IN
  /\ Turn({"mosfet"}) /\ Named(c) /\ Complete(c) /\ Numeric(c) /\ Wired(c)
  /\ List(c, MosfetDefects(c))

AnalyseDiode ==
  LET c == circuit[content][index] IN
  /\ Turn({"diode"}) /\ Named(c) /\ Complete(c) /\ Numeric(c) /\ Wired(c)
  /\ List(c, DiodeDefects(c))

(* "Ignored from the defect universe", says the message; `continue' goes   *)
(* back to the loop's head without index += 1.                             *)
IgnoreIncomplete ==
  LET c == circuit[content][index] IN
  /\ Turn(Kind) /\ Named(c) /\ ~ Complete(c)
  /\ c.kind = "mosfet" => Wired(c)
  /\ ignored' = ignored \cup {c.name}
  /\ UNCHANGED <<circuit, manifest, pc, content, index, number, details, universe>>

(* Fault: the category is entered as the type of the defect.               *)
AnalyseSourceTyped ==
  LET c == circuit[content][index] IN
  /\ Turn(Source)
  /\ details' = [details EXCEPT ![content] = Append(@,
       [id |-> -1, instance |-> c.name, category |-> c.kind, kind |-> c.kind,
        weight |-> 0, subject |-> <<>>])]
  /\ index' = index + 1
  /\ UNCHANGED <<circuit, manifest, pc, content, number, ignored, universe>>

(* Sources are listed as No_2427_defect, without an identifier.            *)
AnalyseSource ==
  LET c == circuit[content][index] IN
  /\ Turn(Source)
  /\ details' = [details EXCEPT ![content] = Append(@,
       [id |-> -1, instance |-> c.name, category |-> c.kind, kind |-> "none",
        weight |-> 0, subject |-> <<>>])]
  /\ index' = index + 1
  /\ UNCHANGED <<circuit, manifest, pc, content, number, ignored, universe>>

(* Fault: the loop is continued without index += 1.                        *)
AnalyseOtherAgain ==
  /\ Turn({"other"})
  /\ UNCHANGED vars

(* "Category ... is still under development."                              *)
AnalyseOther ==
  /\ Turn({"other"})
  /\ index' = index + 1
  /\ UNCHANGED <<circuit, manifest, pc, content, number, ignored, details, universe>>

(* A value that is not a number, or has no name, or a node too few ends    *)
(* the whole analysis, and so does a first letter that get_category does   *)
(* not know.  The nodes of a transistor are looked at first.               *)
AnalysisRaises ==
  LET c == circuit[content][index] IN
  /\ Turn(Dipole \cup {"mosfet", "diode", "unknown"})
  /\ \/ c.kind = "unknown"
     \/ ~ Named(c)
     \/ c.kind = "mosfet" /\ ~ Wired(c)
     \/ Complete(c) /\ ~ (Numeric(c) /\ Wired(c))
  /\ pc' = "raised"
  /\ UNCHANGED <<circuit, manifest, content, index, number, ignored, details, universe>>

(* Fault: each content has identifiers of its own.                         *)
NextContentRenumbers ==
  /\ pc = "analyse" /\ content \in DOMAIN circuit
  /\ index \notin DOMAIN circuit[content]
  /\ content' = content + 1 /\ index' = 1
  /\ number' = 0
  /\ UNCHANGED <<circuit, manifest, pc, ignored, details, universe>>

(* The end of the inner and of the outer loop.                             *)
NextContent ==
  /\ pc = "analyse" /\ content \in DOMAIN circuit
  /\ index \notin DOMAIN circuit[content]
  /\ content' = content + 1 /\ index' = 1
  /\ UNCHANGED <<circuit, manifest, pc, number, ignored, details, universe>>

AnalysisDone ==
  /\ pc = "analyse" /\ content \notin DOMAIN circuit
  /\ pc' = "collapse" /\ content' = 1
  /\ UNCHANGED <<circuit, manifest, index, number, ignored, details, universe>>

-----------------------------------------------------------------------------
(* optimize_collapse.                                                      *)

(* Without "collapse" in the manifest it returns nothing, over which       *)
(* generate_defect_universe cannot iterate.                                *)
CollapseDeclined ==
  /\ pc = "collapse" /\ ~ manifest.collapse
  /\ pc' = "raised"
  /\ UNCHANGED <<circuit, manifest, content, index, number, ignored, details, universe>>

(* Where the inner loop stops: at the first defect of another instance, or *)
(* at the last defect of all, whose ever it is.                            *)
StopsAt(s, k, stop) ==
  /\ stop \in k .. Len(s)
  /\ \A i \in k .. stop - 1 : s[i].instance = s[k].instance
  /\ s[stop].instance = s[k].instance => stop = Len(s)

Opens(s, k, stop) == {i \in k .. stop : /\ s[i].instance = s[k].instance
                                        /\ s[i].category \in Dipole \cup {"diode"}
                                        /\ s[i].kind = "open"}

(* total_weight of the opens that were found.                              *)
Total(s, opens) == MapThenSumSet(LAMBDA i : s[i].weight, opens)

(* Fault: only the first open is given its new weight.                     *)
CollapsedTwice(s, opens, stop) ==
  IF opens = {} THEN s
  ELSE [s EXCEPT ![Min(opens)].weight = Total(s, opens)]

(* Fault: the place where the loop stopped is taken for the last of the    *)
(* component.                                                              *)
CollapsedBeyond(s, opens, stop) ==
  LET weight == Total(s, opens)
      first  == Min(opens)
  IN  IF opens = {} \/ weight = 0 THEN s
      ELSE [i \in DOMAIN s |->
              IF i = first THEN [s[i] EXCEPT !.weight = weight]
              ELSE IF i \in first + 1 .. stop THEN [s[i] EXCEPT !.weight = 0]
              ELSE s[i]]

(* The first open takes the weight of all.  Everything between it and the  *)
(* place where the loop stopped loses its weight.                          *)
CollapsedInto(s, opens, stop) ==
  LET weight == Total(s, opens)
      first  == Min(opens)
  IN  IF opens = {} \/ weight = 0 THEN s
      ELSE [i \in DOMAIN s |->
              IF i = first THEN [s[i] EXCEPT !.weight = weight]
              ELSE IF i \in first + 1 .. stop - 1 THEN [s[i] EXCEPT !.weight = 0]
              ELSE s[i]]

(* The loop goes on behind the place where it stopped: the first defect of *)
(* the next instance is passed over.                                       *)
CollapseInstance ==
  /\ pc = "collapse" /\ manifest.collapse
  /\ content \in DOMAIN circuit /\ index \in DOMAIN details[content]
  /\ \E stop \in index .. Len(details[content]) :
       /\ StopsAt(details[content], index, stop)
       /\ details' = [details EXCEPT ![content] =
                        CollapsedInto(@, Opens(@, index, stop), stop)]
       /\ index' = stop + 1
  /\ UNCHANGED <<circuit, manifest, pc, content, number, ignored, universe>>

CollapseNextContent ==
  /\ pc = "collapse" /\ manifest.collapse
  /\ content \in DOMAIN circuit /\ index \notin DOMAIN details[content]
  /\ content' = content + 1 /\ index' = 1
  /\ UNCHANGED <<circuit, manifest, pc, number, ignored, details, universe>>

-----------------------------------------------------------------------------
(* generate_defect_universe: what has a weight.  (The list is in the order *)
(* of the identifiers.)                                                    *)
AllDetails == UNION {{details[i][k] : k \in DOMAIN details[i]} : i \in DOMAIN circuit}

Generate ==
  /\ pc = "collapse" /\ manifest.collapse
  /\ content \notin DOMAIN circuit
  /\ universe' = {d \in AllDetails : d.weight > 0}
  /\ pc' = "done"
  /\ UNCHANGED <<circuit, manifest, content, index, number, ignored, details>>

-----------------------------------------------------------------------------
Optimise == MergeContent \/ MergeDone
Analyse  == \/ AnalyseDipole \/ AnalyseMosfet \/ AnalyseDiode \/ IgnoreIncomplete
            \/ AnalyseSource \/ AnalyseOther \/ AnalysisRaises
            \/ NextContent \/ AnalysisDone
Collapse == CollapseDeclined \/ CollapseInstance \/ CollapseNextContent \/ Generate

Next == Optimise \/ Analyse \/ Collapse

Spec == Init /\ [][Next]_vars

(* One thread, that runs until it is done.                                 *)
FairSpec == Spec /\ WF_vars(Next)

-----------------------------------------------------------------------------
Listing == [id : Int, instance : Name, category : Kind,
            kind : {"short", "open", "parametric", "none"}, weight : Nat, subject : Seq(Name)]

(* Type invariant.                                                         *)
TypeOK ==
  /\ circuit \in Seq(Seq(Component))
  /\ manifest \in Manifests
  /\ pc \in {"merge", "analyse", "collapse", "done", "raised"}
  /\ content \in Nat /\ index \in Nat /\ number \in Nat
  /\ ignored \subseteq Name
  /\ details \in [DOMAIN circuit -> Seq(Listing)]
  /\ universe \subseteq Listing

(* Whatever its kind, its component and its content, no two defects have   *)
(* the same identifier: reports and diagnoses are files named by it.       *)
IdsAreDistinct ==
  \A i, j \in DOMAIN circuit : \A k \in DOMAIN details[i], l \in DOMAIN details[j] :
    details[i][k].id = details[j][l].id =>
      \/ i = j /\ k = l
      \/ details[i][k].kind = "none"

(* The opens of a two-terminal component or a diode become one, of their   *)
(* weight together, although the search for the next component starts      *)
(* behind its first defect.  (Not so when such an open is the very last    *)
(* defect of the content, because the component has no parameter.)         *)
Collapsible(c) == c.kind \in Dipole \cup {"diode"}

OpenWeight(c) ==
  2 * Multiplicity(c) * (IF c.kind = "diode" THEN 10 * Get(c, "area") ELSE DipoleOpen(c))

OpensBecomeOne ==
  pc = "done" =>
    \A i \in DOMAIN circuit : \A k \in DOMAIN circuit[i] :
      LET c == circuit[i][k]
          last == details[i][Len(details[i])]
          opens == {d \in universe : d.instance = c.name /\ d.kind = "open"}
      IN  Collapsible(c) /\ ~ (last.instance = c.name /\ last.kind = "open") =>
            Cardinality(opens) = 1 /\ \A d \in opens : d.weight = OpenWeight(c)

(* Collapsing never touches a short, nor anything of a transistor or a     *)
(* source, nor two components at a time.                                   *)
CollapseIsConfined ==
  [][pc = "collapse" =>
       \A i, j \in DOMAIN circuit : \A k \in DOMAIN details[i], l \in DOMAIN details[j] :
         details'[i][k] # details[i][k] /\ details'[j][l] # details[j][l] =>
           /\ details[i][k].instance = details[j][l].instance
           /\ details[i][k].category \in Dipole \cup {"diode"}
           /\ details[i][k].kind # "short"]_vars

(* The analysis of a circuit whose transistors and diodes have the         *)
(* parameters that are needed comes to an end, with or without a universe. *)
AnalysisEnds ==
  (\A i \in DOMAIN circuit : \A k \in DOMAIN circuit[i] : Complete(circuit[i][k]))
    => <>(pc \in {"done", "raised"})

-----------------------------------------------------------------------------
(* What the code's messages and comments say, and the code does not do.    *)

(* "Channel width parameter not found ... Ignored from the defect          *)
(* universe": the analysis goes on without the component.                  *)
IgnoredIsPassedOver == ignored # {} ~> pc \in {"done", "raised"}

(* "Collapsing opens": nothing else is collapsed.                          *)
OnlyOpensCollapse ==
  [][pc = "collapse" =>
       \A i \in DOMAIN circuit : \A k \in DOMAIN details[i] :
         details'[i][k] # details[i][k] => details[i][k].kind = "open"]_vars

=============================================================================
