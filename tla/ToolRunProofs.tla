--------------------------- MODULE ToolRunProofs ---------------------------
(***************************************************************************)
(* Proofs about ToolRun, for all circuits and whatever names their defects *)
(* have, however often the tool is started, dies, and has its circuit      *)
(* edited.                                                                 *)
(***************************************************************************)
EXTENDS ToolRun, FiniteSetTheorems, TLAPS

(* A report is open only while its verdict is still to be written.         *)
OpenIsPending ==
  pc = "dump" => \A d \in Id : reports[d] = "partial" => pending[d] # "none"

(* The analysis starts with as many reports as there are defects.          *)
Counted == pc = "analyze" => Cardinality(Present) = Cardinality(universe)

(* Only what the last campaign simulated is reported, or still to be.      *)
OfTheCampaign ==
  /\ recent \subseteq DefectsOf[simulated]
  /\ \A d \in Id : pending[d] # "none" => d \in DefectsOf[simulated]

IInv == TypeOK /\ OpenIsPending /\ Counted /\ OfTheCampaign /\ EveryNameIsJudged /\ OneCampaign

-----------------------------------------------------------------------------
(* As many reports as defects, none of a defect that does not exist: there *)
(* is one of every defect.                                                 *)
LEMMA NoneMissing ==
  ASSUME TypeOK, Cardinality(Present) = Cardinality(universe), Present \subseteq universe
  PROVE  Present = universe
<1>1. IsFiniteSet(universe)
  <2>1. universe \in SUBSET Id
    BY ToolRunAssumption DEF TypeOK, universe
  <2>. QED  BY <2>1, ToolRunAssumption, FS_Subset
<1>. QED  BY <1>1, FS_Subset

(* Cardinalities of reports and universe are numbers.                      *)
LEMMA Countable ==
  ASSUME TypeOK
  PROVE  Cardinality(Present) \in Nat /\ Cardinality(universe) \in Nat
<1>1. Present \in SUBSET Id /\ universe \in SUBSET Id
  BY ToolRunAssumption DEF TypeOK, Present, universe
<1>2. IsFiniteSet(Present) /\ IsFiniteSet(universe)
  BY <1>1, ToolRunAssumption, FS_Subset
<1>. QED  BY <1>2, FS_CardinalityType

(* A report that can be parsed settles the status of its defect.           *)
LEMMA JudgedType ==
  ASSUME NEW d \in Id, NEW metrics \in BOOLEAN, TypeOK
  PROVE  /\ Judged(d, metrics) \in Status
         /\ reports[d] \in Outcome => Judged(d, metrics) # "unsimulated"
<1>. USE DEF Outcome, Status
<1>1. CASE reports[d] = "timeout"
  BY <1>1 DEF Judged
<1>2. CASE reports[d] = "outside"
  BY <1>2 DEF Judged
<1>3. CASE reports[d] = "inside"
  BY <1>3 DEF Judged
<1>4. CASE reports[d] \notin Outcome
  BY <1>4 DEF Judged
<1>. QED  BY <1>1, <1>2, <1>3, <1>4

-----------------------------------------------------------------------------
(* The types are kept by every step: what is written into an open report   *)
(* is a verdict.                                                           *)
LEMMA TypeStep ==
  ASSUME TypeOK, OpenIsPending, [Next]_vars
  PROVE  TypeOK'
<1>. USE DEF TypeOK, disk, memory, vars, Goto, End, Pc, Status
<1>1. CASE Edit \/ Start \/ Crash \/ CleanFails
  <2>1. goldenLog' \in BOOLEAN
    BY <1>1 DEF Edit, Start, Crash, CleanFails
  <2>2. CASE Edit
    BY <2>1, <2>2 DEF Edit
  <2>3. CASE Start
    BY <2>1, <2>3 DEF Start
  <2>4. CASE Crash \/ CleanFails
    BY <2>1, <2>4 DEF Crash, CleanFails
  <2>. QED  BY <1>1, <2>2, <2>3, <2>4
<1>2. CASE GoldenStep
  <2>1. goldenLog' \in BOOLEAN
    BY <1>2 DEF GoldenStep, GoldenSimulates, GoldenDumped, GoldenInterrupted, NullDumped, GoldenTimesOut
  <2>2. CASE GoldenSimulates
    BY <2>1, <2>2 DEF GoldenSimulates
  <2>3. CASE GoldenDumped
    BY <2>1, <2>3 DEF GoldenDumped
  <2>4. CASE GoldenInterrupted
    BY <2>1, <2>4 DEF GoldenInterrupted
  <2>5. CASE GoldenTimesOut
    BY <2>1, <2>5 DEF GoldenTimesOut
  <2>6. CASE NullDumped
    BY <2>1, <2>6 DEF NullDumped
  <2>. QED  BY <1>2, <2>2, <2>3, <2>4, <2>5, <2>6 DEF GoldenStep
<1>3. CASE RunCampaign \/ CampaignRaises \/ SkipCampaign \/ ReportsDone \/ CheckPasses \/ CheckFails
  <2>1. goldenLog' \in BOOLEAN
    BY <1>3 DEF RunCampaign, CampaignRaises, SkipCampaign, ReportsDone, CheckPasses, CheckFails
  <2>2. CASE RunCampaign
    BY <2>1, <2>2 DEF RunCampaign
  <2>3. CASE CampaignRaises
    BY <2>1, <2>3 DEF CampaignRaises
  <2>4. CASE SkipCampaign \/ ReportsDone \/ CheckPasses
    BY <2>1, <2>4 DEF SkipCampaign, ReportsDone, CheckPasses
  <2>5. CASE CheckFails
    BY <2>1, <2>5 DEF CheckFails
  <2>. QED  BY <1>3, <2>2, <2>3, <2>4, <2>5
<1>4. ASSUME NEW d \in Id, OpenReport(d) \/ CloseReport(d)
      PROVE  TypeOK'
  <2>1. CASE OpenReport(d)
    BY <2>1 DEF OpenReport
  <2>2. CASE CloseReport(d)
    <3>1. pending[d] \in Outcome
      BY <2>2, <1>4 DEF CloseReport, OpenIsPending
    <3>. QED  BY <2>2, <3>1 DEF CloseReport
  <2>. QED  BY <1>4, <2>1, <2>2
<1>5. CASE Analyze
  <2>1. PICK metrics \in BOOLEAN : status' = [d \in Id |-> Judged(d, metrics)]
    BY <1>5 DEF Analyze, Readable
  <2>2. status' \in [Id -> Status]
    BY <2>1, JudgedType
  <2>. QED  BY <1>5, <2>2 DEF Analyze, Undetected
<1>6. CASE AnalyzeFails \/ TriageDone \/ Adjust \/ AdjustFails
  BY <1>6 DEF AnalyzeFails, TriageDone, Adjust, AdjustFails
<1>7. ASSUME NEW d \in Id, TriageOpens(d) \/ TriageGivesUp(d)
      PROVE  TypeOK'
  BY <1>7 DEF TriageOpens, TriageGivesUp
<1>8. ASSUME NEW d \in Id, NEW a \in Id \cup {"broken"}, TriageWrites(d, a)
      PROVE  TypeOK'
  BY <1>8 DEF TriageWrites
<1>9. CASE WriteCoverage \/ Keep \/ Discard \/ RemoveGolden \/ CleanDone
  <2>1. goldenLog' \in BOOLEAN
    BY <1>9 DEF WriteCoverage, Keep, Discard, RemoveGolden, CleanDone
  <2>2. CASE Keep \/ CleanDone
    BY <2>1, <2>2 DEF Keep, CleanDone
  <2>3. CASE WriteCoverage \/ Discard \/ RemoveGolden
    BY <2>1, <2>3 DEF WriteCoverage, Discard, RemoveGolden
  <2>. QED  BY <1>9, <2>2, <2>3
<1>10. ASSUME NEW d \in Id, RemoveReport(d)
       PROVE  TypeOK'
  BY <1>10 DEF RemoveReport
<1>11. CASE UNCHANGED vars
  BY <1>11
<1>. QED
  BY <1>1, <1>2, <1>3, <1>4, <1>5, <1>6, <1>7, <1>8, <1>9, <1>10, <1>11
  DEF Next, Step, CampaignStep, ReportStep, AnalyzerStep, FinalStep, CleanStep

(* The rest of the invariant.                                              *)
LEMMA NextIInv == IInv /\ [Next]_vars => IInv'
<1>. SUFFICES ASSUME IInv, [Next]_vars  PROVE IInv'
  OBVIOUS
<1>1. TypeOK /\ TypeOK'
  BY TypeStep DEF IInv
<1>. USE DEF OpenIsPending, Counted, OfTheCampaign, EveryNameIsJudged, OneCampaign, Present, universe, disk, memory, Goto, End
<1>2. CASE Edit \/ Start \/ Crash \/ CleanFails
  BY <1>1, <1>2 DEF Edit, Start, Crash, CleanFails, IInv
<1>3. CASE GoldenStep
  BY <1>1, <1>3 DEF GoldenStep, GoldenSimulates, GoldenDumped, GoldenInterrupted, NullDumped, GoldenTimesOut, IInv
<1>4. CASE RunCampaign \/ CampaignRaises \/ SkipCampaign \/ ReportsDone \/ CheckFails
  BY <1>1, <1>4 DEF RunCampaign, CampaignRaises, SkipCampaign, ReportsDone, CheckFails, IInv
<1>5. CASE CheckPasses
  <2>1. Cardinality(Present) = Cardinality(universe)
    BY <1>1, <1>5, Countable DEF CheckPasses
  <2>. QED  BY <1>1, <1>5, <2>1 DEF CheckPasses, IInv
<1>6. ASSUME NEW d \in Id, OpenReport(d) \/ CloseReport(d)
      PROVE  IInv'
  <2>1. CASE OpenReport(d)
    BY <1>1, <2>1 DEF OpenReport, IInv, TypeOK
  <2>2. CASE CloseReport(d)
    BY <1>1, <2>2 DEF CloseReport, IInv, TypeOK, Outcome
  <2>. QED  BY <1>6, <2>1, <2>2
<1>7. CASE Analyze
  <2>1. PICK metrics \in BOOLEAN : status' = [d \in Id |-> Judged(d, metrics)]
    BY <1>7 DEF Analyze, Readable
  <2>2. Present = universe
    BY <1>1, <1>7, NoneMissing DEF Analyze, IInv
  <2>3. \A d \in Id : Judged(d, metrics) # "unsimulated" <=> reports[d] \in Outcome
    BY <1>1, <2>1, JudgedType DEF Judged, Outcome
  <2>4. \A d \in Id : reports[d] \in Outcome <=> d \in Present
    BY <1>1, <1>7 DEF Analyze, TypeOK, Outcome
  <2>5. universe = {d \in Id : status'[d] # "unsimulated"}
    BY <2>1, <2>2, <2>3, <2>4
  <2>6. universe \subseteq DefectsOf[simulated]
    BY <2>2 DEF IInv
  <2>. QED  BY <1>1, <1>7, <2>5, <2>6 DEF Analyze, IInv
<1>8. CASE AnalyzeFails \/ TriageDone \/ Adjust \/ AdjustFails
  BY <1>1, <1>8 DEF AnalyzeFails, TriageDone, Adjust, AdjustFails, IInv
<1>9. ASSUME NEW d \in Id, TriageOpens(d) \/ TriageGivesUp(d)
      PROVE  IInv'
  BY <1>1, <1>9 DEF TriageOpens, TriageGivesUp, IInv
<1>10. ASSUME NEW d \in Id, NEW a \in Id \cup {"broken"}, TriageWrites(d, a)
       PROVE  IInv'
  BY <1>1, <1>10 DEF TriageWrites, IInv
<1>11. CASE WriteCoverage \/ Keep \/ Discard \/ RemoveGolden \/ CleanDone
  BY <1>1, <1>11 DEF WriteCoverage, Keep, Discard, RemoveGolden, CleanDone, IInv
<1>12. ASSUME NEW d \in Id, RemoveReport(d)
       PROVE  IInv'
  BY <1>1, <1>12 DEF RemoveReport, IInv, TypeOK
<1>13. CASE UNCHANGED vars
  BY <1>1, <1>13 DEF vars, IInv
<1>. QED
  BY <1>2, <1>3, <1>4, <1>5, <1>6, <1>7, <1>8, <1>9, <1>10, <1>11, <1>12, <1>13
  DEF Next, Step, CampaignStep, ReportStep, AnalyzerStep, FinalStep, CleanStep

(* An empty workspace satisfies the invariant.                             *)
LEMMA InitIInv == Init => IInv
<1>. SUFFICES ASSUME Init  PROVE IInv
  OBVIOUS
<1>1. TypeOK
  BY ToolRunAssumption DEF Init, TypeOK, Pc, Status
<1>2. OpenIsPending /\ Counted /\ EveryNameIsJudged
  BY DEF Init, OpenIsPending, Counted, EveryNameIsJudged
<1>3. OfTheCampaign
  BY DEF Init, OfTheCampaign
<1>4. OneCampaign
  BY DEF Init, OneCampaign, Present
<1>. QED  BY <1>1, <1>2, <1>3, <1>4 DEF IInv

(* IInv is an invariant of all runs.                                       *)
THEOREM Invariance == Spec => []IInv
BY InitIInv, NextIInv, PTL DEF Spec

(* Files, memory and the place a run has reached keep their types.         *)
THEOREM TypeCorrect == Spec => []TypeOK
<1>1. IInv => TypeOK
  BY DEF IInv
<1>. QED  BY <1>1, Invariance, PTL

(* Counting the reports is enough for the names: a run that gets as far as *)
(* its coverage has a verdict under the name of every defect of the        *)
(* circuit as it is, and under no other, all from the campaign over one    *)
(* circuit that had these names.  That this was the circuit as it is       *)
(* cannot be proved: an edit may keep the names.                           *)
THEOREM NamesAreJudged == Spec => []EveryNameIsJudged
<1>1. IInv => EveryNameIsJudged
  BY DEF IInv
<1>. QED  BY <1>1, Invariance, PTL

(* No run adds its reports to those of another, whichever of them died.    *)
THEOREM ReportsTogether == Spec => []OneCampaign
<1>1. IInv => OneCampaign
  BY DEF IInv
<1>. QED  BY <1>1, Invariance, PTL

-----------------------------------------------------------------------------
(* A triage asks only about defects whose diagnosis is not saved yet.      *)
StillOpen == pc = "triage" => \A d \in todo : triage[d] \in {"absent", "partial"}

(* Only a request that is answered saves a diagnosis, and it leaves the    *)
(* list; the list is made anew from the diagnoses on disk.                 *)
LEMMA StillOpenStep ==
  ASSUME TypeOK, StillOpen, [Next]_vars
  PROVE  StillOpen'
<1>. USE DEF StillOpen, TypeOK, disk, memory, Goto, End
<1>1. CASE Edit \/ Start \/ Crash \/ CleanFails
  BY <1>1 DEF Edit, Start, Crash, CleanFails
<1>2. CASE GoldenStep
  BY <1>2 DEF GoldenStep, GoldenSimulates, GoldenDumped, GoldenInterrupted, NullDumped, GoldenTimesOut
<1>3. CASE CampaignStep \/ ReportStep
  BY <1>3 DEF CampaignStep, ReportStep, RunCampaign, CampaignRaises, SkipCampaign, OpenReport, CloseReport,
              ReportsDone, CheckPasses, CheckFails
<1>4. CASE Analyze
  <2>1. todo' = Undetected(status') \ Triaged /\ triage' = triage
    BY <1>4 DEF Analyze
  <2>2. \A d \in todo' : triage[d] = "absent"
    BY <2>1 DEF Undetected, Triaged
  <2>. QED  BY <2>1, <2>2
<1>5. CASE AnalyzeFails \/ TriageDone \/ Adjust \/ AdjustFails
  BY <1>5 DEF AnalyzeFails, TriageDone, Adjust, AdjustFails
<1>6. ASSUME NEW d \in Id, TriageOpens(d) \/ TriageGivesUp(d)
      PROVE  StillOpen'
  BY <1>6 DEF TriageOpens, TriageGivesUp
<1>7. ASSUME NEW d \in Id, NEW a \in Id \cup {"broken"}, TriageWrites(d, a)
      PROVE  StillOpen'
  BY <1>7 DEF TriageWrites
<1>8. CASE FinalStep \/ CleanStep
  BY <1>8 DEF FinalStep, CleanStep, WriteCoverage, Keep, Discard, RemoveReport, RemoveGolden, CleanDone
<1>9. CASE UNCHANGED vars
  BY <1>9 DEF vars
<1>. QED
  BY <1>1, <1>2, <1>3, <1>4, <1>5, <1>6, <1>7, <1>8, <1>9 DEF Next, Step, AnalyzerStep

(* No step touches a diagnosis that is saved.                              *)
LEMMA SavedStep ==
  ASSUME TypeOK, StillOpen, [Next]_vars,
         NEW d \in Id, triage[d] \notin {"absent", "partial"}
  PROVE  triage'[d] = triage[d]
<1>. USE DEF StillOpen, TypeOK, disk, memory, Goto, End
<1>1. CASE Edit \/ Start \/ Crash \/ CleanFails
  BY <1>1 DEF Edit, Start, Crash, CleanFails
<1>2. CASE GoldenStep
  BY <1>2 DEF GoldenStep, GoldenSimulates, GoldenDumped, GoldenInterrupted, NullDumped, GoldenTimesOut
<1>3. CASE CampaignStep \/ ReportStep
  BY <1>3 DEF CampaignStep, ReportStep, RunCampaign, CampaignRaises, SkipCampaign, OpenReport, CloseReport,
              ReportsDone, CheckPasses, CheckFails
<1>4. CASE Analyze \/ AnalyzeFails \/ TriageDone \/ Adjust \/ AdjustFails
  BY <1>4 DEF Analyze, AnalyzeFails, TriageDone, Adjust, AdjustFails
<1>5. ASSUME NEW e \in Id, TriageOpens(e) \/ TriageGivesUp(e)
      PROVE  triage'[d] = triage[d]
  BY <1>5 DEF TriageOpens, TriageGivesUp
<1>6. ASSUME NEW e \in Id, NEW a \in Id \cup {"broken"}, TriageWrites(e, a)
      PROVE  triage'[d] = triage[d]
  BY <1>6 DEF TriageWrites
<1>7. CASE FinalStep \/ CleanStep
  BY <1>7 DEF FinalStep, CleanStep, WriteCoverage, Keep, Discard, RemoveReport, RemoveGolden, CleanDone
<1>8. CASE UNCHANGED vars
  BY <1>8 DEF vars
<1>. QED
  BY <1>1, <1>2, <1>3, <1>4, <1>5, <1>6, <1>7, <1>8 DEF Next, Step, AnalyzerStep

(* A diagnosis once saved stays as it is: no run, whatever became of those *)
(* before it, asks the model again.                                        *)
THEOREM DiagnosesStay == Spec => DiagnosesAreKept
<1>1. Init => StillOpen
  BY DEF Init, StillOpen
<1>2. TypeOK /\ StillOpen /\ [Next]_vars => StillOpen'
  BY StillOpenStep
<1>3. Spec => []StillOpen
  BY <1>1, <1>2, TypeCorrect, PTL DEF Spec
<1>4. TypeOK /\ StillOpen /\ [Next]_vars =>
        [\A d \in Id : triage[d] \notin {"absent", "partial"} => triage'[d] = triage[d]]_vars
  BY SavedStep
<1>. QED  BY <1>3, <1>4, TypeCorrect, PTL DEF Spec, DiagnosesAreKept

=============================================================================
