------------------------------ MODULE ToolRun ------------------------------
(***************************************************************************)
(* Successive runs of edacurry2427.py on one workspace: what is found on   *)
(* disk decides what a run skips, and a run may die at any moment.         *)
(*                                                                         *)
(* A run simulates the golden circuit, has CampaignDirector.run_campaign   *)
(* judge every defect (here one step with the outcomes CampaignContract    *)
(* allows), writes one report per defect, counts the reports, analyses     *)
(* them, has a language model diagnose the undetected defects in parallel, *)
(* and writes the coverage.  Everything but the files is lost when it dies.*)
(*                                                                         *)
(* A file that is being written is "partial": what a run that dies then    *)
(* leaves behind.  The netlists and the coverage files are never read      *)
(* again and are left out.                                                 *)
(***************************************************************************)
EXTENDS Integers, FiniteSets

CONSTANTS
  Id,          (* identifiers of defects: names of reports and diagnoses   *)
  Circuits,    (* what the user's edits make of the netlist and manifest   *)
  DefectsOf    (* the identifiers in a circuit's defect universe.  They    *)
               (* are a kind and a serial number, so that different        *)
               (* circuits may well have the same ones                     *)

ASSUME ToolRunAssumption ==
  /\ IsFiniteSet(Id)
  /\ Circuits # {} /\ DefectsOf \in [Circuits -> SUBSET Id]
  /\ {"absent", "partial", "broken"} \cap Id = {}

VARIABLES
  circuit,     (* the circuit as it is now                                 *)
  golden,      (* simulation_results/golden_report.json                    *)
  goldenLog,   (* tmp_logs/golden_simulation_log.txt exists                *)
  reports,     (* simulation_results/<defect>.json                         *)
  triage,      (* output/llm_triage/triage@<defect>.json                   *)
  recent,      (* history: reports written since the last campaign         *)
  simulated,   (* history: the circuit of the last campaign                *)
  pc,          (* where the run is; "down" when there is none              *)
  pending,     (* campaign_report: verdicts that are still to be written   *)
  todo,        (* to_be_processed: defects the model has yet to diagnose   *)
  status       (* detection status of each defect's record                 *)

disk   == <<golden, goldenLog, reports, triage, recent, simulated>>
memory == <<pending, todo, status>>
vars   == <<circuit, disk, pc, memory>>

(* defect_universe of the circuit as it is now.                            *)
universe == DefectsOf[circuit]

(* What a report says once the golden metrics are known.  The text of a    *)
(* simulation that failed has no metrics and counts as inside.             *)
Outcome == {"inside", "outside", "timeout"}

Status == {"unsimulated", "detected", "undetected", "unknown"}

Pc == {"down", "golden", "goldenDump", "nullDump", "reports", "dump", "check", "analyze",
       "triage", "adjust", "coverage", "prompt", "clean"}

(* The reports a listing of the directory shows, readable or not.          *)
Present == {d \in Id : reports[d] # "absent"}
Triaged == {d \in Id : triage[d] # "absent"}

Goto(from, to) == pc = from /\ pc' = to

Init ==
  /\ circuit \in Circuits
  /\ golden = "absent" /\ goldenLog = FALSE
  /\ reports = [d \in Id |-> "absent"]
  /\ triage = [d \in Id |-> "absent"]
  /\ recent = {} /\ simulated = circuit
  /\ pc = "down"
  /\ pending = [d \in Id |-> "none"]
  /\ todo = {}
  /\ status = [d \in Id |-> "unsimulated"]

(* The process ends, of itself, by an exception, by a signal or killed,    *)
(* and takes its memory with it.                                           *)
End ==
  /\ pc' = "down"
  /\ pending' = [d \in Id |-> "none"]
  /\ todo' = {}
  /\ status' = [d \in Id |-> "unsimulated"]

-----------------------------------------------------------------------------
(* The user, between and during runs.  Whatever is edited, what earlier    *)
(* runs left on disk stays, and answers for the defects of the same names. *)

Edit ==
  /\ pc = "down"
  /\ circuit' \in Circuits
  /\ UNCHANGED <<disk, pc, memory>>

Start ==
  /\ pc = "down"
  /\ pc' = IF golden = "absent" THEN "golden" ELSE "reports"
  /\ UNCHANGED <<circuit, disk, memory>>

Crash ==
  /\ pc # "down"
  /\ End
  /\ UNCHANGED <<circuit, disk>>

-----------------------------------------------------------------------------
(* The golden simulation.                                                  *)

GoldenSimulates ==
  /\ Goto("golden", "goldenDump")
  /\ golden' = "partial"
  /\ UNCHANGED <<circuit, goldenLog, reports, triage, recent, simulated, memory>>

(* A simulation that fails yields a log without the metrics: "blank".      *)
GoldenDumped ==
  /\ Goto("goldenDump", "reports")
  /\ golden' \in {"metrics", "blank"}
  /\ UNCHANGED <<circuit, goldenLog, reports, triage, recent, simulated, memory>>

(* The watchdog saves the log and sends SIGTERM to its own process, which  *)
(* here is the tool itself.                                                *)
GoldenTimesOut ==
  /\ pc = "golden"
  /\ goldenLog' = TRUE
  /\ End
  /\ UNCHANGED <<circuit, golden, reports, triage, recent, simulated>>

(* Any exception is caught, a keyboard interrupt too, and if a log exists  *)
(* (left by a run that timed out) null is saved as the golden report.      *)
GoldenInterrupted ==
  /\ Goto("golden", "nullDump")
  /\ goldenLog
  /\ golden' = "partial"
  /\ UNCHANGED <<circuit, goldenLog, reports, triage, recent, simulated, memory>>

NullDumped ==
  /\ Goto("nullDump", "reports")
  /\ golden' = "blank"
  /\ UNCHANGED <<circuit, goldenLog, reports, triage, recent, simulated, memory>>

-----------------------------------------------------------------------------
(* The campaign.  Its end, good or bad, removes tmp_logs.                  *)

(* Fault: a campaign also runs when some of the reports are missing.       *)
RunCampaignResuming ==
  /\ Goto("reports", "dump")
  /\ Present # universe
  /\ pending' \in {f \in [Id -> Outcome \cup {"none"}] :
                     \A d \in Id : f[d] = "none" <=> d \notin universe}
  /\ goldenLog' = FALSE /\ recent' = {} /\ simulated' = circuit
  /\ UNCHANGED <<circuit, golden, reports, triage, todo, status>>

RunCampaign ==
  /\ Goto("reports", "dump")
  /\ Present = {}
  /\ pending' \in {f \in [Id -> Outcome \cup {"none"}] :
                     \A d \in Id : f[d] = "none" <=> d \notin universe}
  /\ goldenLog' = FALSE /\ recent' = {} /\ simulated' = circuit
  /\ UNCHANGED <<circuit, golden, reports, triage, todo, status>>

CampaignRaises ==
  /\ pc = "reports" /\ Present = {}
  /\ goldenLog' = FALSE
  /\ End
  /\ UNCHANGED <<circuit, golden, reports, triage, recent, simulated>>

SkipCampaign ==
  /\ Goto("reports", "check")
  /\ Present # {}
  /\ UNCHANGED <<circuit, disk, memory>>

(* The reports are written one after the other (in the universe's order,   *)
(* which nothing depends on).                                              *)
OpenReport(d) ==
  /\ pc = "dump" /\ pending[d] # "none"
  /\ \A e \in Id : reports[e] # "partial"
  /\ reports' = [reports EXCEPT ![d] = "partial"]
  /\ recent' = recent \cup {d}
  /\ UNCHANGED <<circuit, golden, goldenLog, triage, simulated, pc, memory>>

(* Fault: the verdict is discarded before it is written.                   *)
CloseReportEmptied(d) ==
  /\ pc = "dump" /\ reports[d] = "partial"
  /\ pending' = [pending EXCEPT ![d] = "none"]
  /\ reports' = [reports EXCEPT ![d] = pending'[d]]
  /\ UNCHANGED <<circuit, golden, goldenLog, triage, recent, simulated, pc, todo, status>>

CloseReport(d) ==
  /\ pc = "dump" /\ reports[d] = "partial"
  /\ reports' = [reports EXCEPT ![d] = pending[d]]
  /\ pending' = [pending EXCEPT ![d] = "none"]
  /\ UNCHANGED <<circuit, golden, goldenLog, triage, recent, simulated, pc, todo, status>>

ReportsDone ==
  /\ Goto("dump", "check")
  /\ \A d \in Id : pending[d] = "none"
  /\ UNCHANGED <<circuit, disk, memory>>

(* Fault: it is enough that there are not too many reports.                *)
CheckPassesOnFewer ==
  /\ Goto("check", "analyze")
  /\ Cardinality(Present) + 1 <= Cardinality(universe) + 1
  /\ UNCHANGED <<circuit, disk, memory>>

(* The check counts the files; the golden report is one of them.           *)
CheckPasses ==
  /\ Goto("check", "analyze")
  /\ Cardinality(Present) + 1 = Cardinality(universe) + 1
  /\ UNCHANGED <<circuit, disk, memory>>

CheckFails ==
  /\ Goto("check", "clean")
  /\ Cardinality(Present) + 1 # Cardinality(universe) + 1
  /\ goldenLog' = FALSE
  /\ UNCHANGED <<circuit, golden, reports, triage, recent, simulated, memory>>

-----------------------------------------------------------------------------
(* Analyzer.analyze.                                                       *)

(* Whether the metrics can be read from the golden report: a truncated one *)
(* is read as text and may still show them.                                *)
Readable == IF golden = "metrics" THEN {TRUE}
            ELSE IF golden = "partial" THEN BOOLEAN ELSE {FALSE}

Judged(d, metrics) ==
  IF reports[d] = "timeout" THEN "unknown"
  ELSE IF reports[d] = "outside" /\ metrics THEN "detected"
  ELSE IF reports[d] \in Outcome THEN "undetected"
  ELSE "unsimulated"

Undetected(st) == {d \in Id : st[d] \in {"undetected", "unknown"}}

(* Fault: defects that have a diagnosis are diagnosed again.               *)
AnalyzeAgain ==
  /\ pc = "analyze"
  /\ Present \subseteq universe /\ \A d \in Present : reports[d] # "partial"
  /\ \E metrics \in Readable : status' = [d \in Id |-> Judged(d, metrics)]
  /\ todo' = Undetected(status')
  /\ pc' = IF todo' = {} THEN "adjust" ELSE "triage"
  /\ UNCHANGED <<circuit, disk, pending>>

(* Defects that have a diagnosis from an earlier run are omitted.          *)
Analyze ==
  /\ pc = "analyze"
  /\ Present \subseteq universe /\ \A d \in Present : reports[d] # "partial"
  /\ \E metrics \in Readable : status' = [d \in Id |-> Judged(d, metrics)]
  /\ todo' = Undetected(status') \ Triaged
  /\ pc' = IF todo' = {} THEN "adjust" ELSE "triage"
  /\ UNCHANGED <<circuit, disk, pending>>

(* A report that cannot be parsed, or of a defect that does not exist,     *)
(* raises.                                                                 *)
AnalyzeFails ==
  /\ pc = "analyze"
  /\ \E d \in Present : d \notin universe \/ reports[d] = "partial"
  /\ End
  /\ UNCHANGED <<circuit, disk>>

(* The triage workers write their files side by side.                      *)
TriageOpens(d) ==
  /\ pc = "triage" /\ d \in todo /\ triage[d] # "partial"
  /\ triage' = [triage EXCEPT ![d] = "partial"]
  /\ UNCHANGED <<circuit, golden, goldenLog, reports, recent, simulated, pc, memory>>

(* The answer is any JSON: it names the defect it is about, which need not *)
(* be the one that was asked about; what names none, or lacks a field, is  *)
(* "broken".                                                               *)
TriageWrites(d, answer) ==
  /\ pc = "triage" /\ d \in todo /\ triage[d] = "partial"
  /\ triage' = [triage EXCEPT ![d] = answer]
  /\ todo' = todo \ {d}
  /\ UNCHANGED <<circuit, golden, goldenLog, reports, recent, simulated, pc, pending, status>>

(* No server, no JSON in the answer, or the file cannot be written.        *)
TriageGivesUp(d) ==
  /\ pc = "triage" /\ d \in todo
  /\ todo' = todo \ {d}
  /\ UNCHANGED <<circuit, disk, pc, pending, status>>

TriageDone ==
  /\ Goto("triage", "adjust")
  /\ todo = {}
  /\ UNCHANGED <<circuit, disk, memory>>

(* The diagnoses, old and new, are entered in the records they name.       *)
Adjust ==
  /\ Goto("adjust", "coverage")
  /\ \A d \in Triaged : triage[d] \in universe
  /\ UNCHANGED <<circuit, disk, memory>>

AdjustFails ==
  /\ pc = "adjust"
  /\ \E d \in Triaged : triage[d] \notin universe
  /\ End
  /\ UNCHANGED <<circuit, disk>>

-----------------------------------------------------------------------------
(* The end of a run.                                                       *)

WriteCoverage ==
  /\ Goto("coverage", "prompt")
  /\ UNCHANGED <<circuit, disk, memory>>

Keep ==
  /\ pc = "prompt"
  /\ End
  /\ UNCHANGED <<circuit, disk>>

Discard ==
  /\ Goto("prompt", "clean")
  /\ goldenLog' = FALSE
  /\ UNCHANGED <<circuit, golden, reports, triage, recent, simulated, memory>>

(* clean(): rmtree removes the files one by one, in any order.             *)
RemoveReport(d) ==
  /\ pc = "clean" /\ reports[d] # "absent"
  /\ reports' = [reports EXCEPT ![d] = "absent"]
  /\ UNCHANGED <<circuit, golden, goldenLog, triage, recent, simulated, pc, memory>>

RemoveGolden ==
  /\ pc = "clean" /\ golden # "absent"
  /\ golden' = "absent"
  /\ UNCHANGED <<circuit, goldenLog, reports, triage, recent, simulated, pc, memory>>

CleanDone ==
  /\ pc = "clean" /\ golden = "absent" /\ Present = {}
  /\ End
  /\ UNCHANGED <<circuit, disk>>

(* "Unable to remove temporary directory" is printed and forgotten.        *)
CleanFails ==
  /\ pc = "clean"
  /\ End
  /\ UNCHANGED <<circuit, disk>>

-----------------------------------------------------------------------------
GoldenStep   == \/ GoldenSimulates \/ GoldenDumped \/ GoldenTimesOut
                \/ GoldenInterrupted \/ NullDumped
CampaignStep == RunCampaign \/ CampaignRaises
ReportStep   == \/ SkipCampaign
                \/ \E d \in Id : OpenReport(d) \/ CloseReport(d)
                \/ ReportsDone \/ CheckPasses \/ CheckFails
AnalyzerStep == \/ Analyze \/ AnalyzeFails
                \/ \E d \in Id : \/ TriageOpens(d) \/ TriageGivesUp(d)
                                 \/ \E a \in Id \cup {"broken"} : TriageWrites(d, a)
                \/ TriageDone \/ Adjust \/ AdjustFails
FinalStep    == WriteCoverage \/ Keep \/ Discard
CleanStep    == (\E d \in Id : RemoveReport(d)) \/ RemoveGolden \/ CleanDone

Step == GoldenStep \/ CampaignStep \/ ReportStep \/ AnalyzerStep \/ FinalStep \/ CleanStep

Next == Step \/ Edit \/ Start \/ Crash \/ CleanFails

Spec == Init /\ [][Next]_vars

(* What waits for nobody goes on: the golden simulation, which its         *)
(* watchdog ends, the files and their removal.  Nothing is assumed of the  *)
(* campaign, which may hang (module Campaign), of the triage, of the       *)
(* analysis before it, or of the user's answer to the final question.  A   *)
(* user who has no result starts the tool again.                           *)
FairSpec == Spec /\ WF_vars(GoldenStep \/ ReportStep \/ CleanStep) /\ WF_vars(Start)

-----------------------------------------------------------------------------
(* Type invariant.                                                         *)
TypeOK ==
  /\ circuit \in Circuits
  /\ golden \in {"absent", "partial", "blank", "metrics"}
  /\ goldenLog \in BOOLEAN
  /\ reports \in [Id -> Outcome \cup {"absent", "partial"}]
  /\ triage \in [Id -> Id \cup {"absent", "partial", "broken"}]
  /\ recent \subseteq Id /\ simulated \in Circuits
  /\ pc \in Pc
  /\ pending \in [Id -> Outcome \cup {"none"}]
  /\ todo \subseteq Id
  /\ status \in [Id -> Status]

(* A coverage has a verdict for every defect of the universe, and for no   *)
(* other, although nothing but the number of reports was compared and the  *)
(* universe may have changed since.  It goes by the names: the circuit     *)
(* that was simulated had all of them, and need not be the present one.    *)
EveryNameIsJudged ==
  pc \in {"triage", "adjust", "coverage", "prompt"} =>
    /\ universe = {d \in Id : status[d] # "unsimulated"}
    /\ universe \subseteq DefectsOf[simulated]

(* The reports on disk, however many runs have died, are those of one and  *)
(* the same campaign.                                                      *)
OneCampaign == Present \subseteq recent

(* The model is never asked again about a defect whose diagnosis is saved. *)
DiagnosesAreKept ==
  [][\A d \in Id : triage[d] \notin {"absent", "partial"} => triage'[d] = triage[d]]_vars

(* Reports a campaign left incomplete do not stay: as long as the tool is  *)
(* restarted and, from some moment on, is left to finish, a run removes    *)
(* them.                                                                   *)
Incomplete == Present # {} /\ Cardinality(Present) # Cardinality(universe)

(* A run is disturbed when it ends otherwise than by itself.  (What only   *)
(* compares two states cannot tell Crash from an ending of the tool's own  *)
(* in the same state: such an ending is no disturbance.)                   *)
Trouble ==
  /\ pc # "down" /\ pc' = "down"
  /\ ~ (CampaignRaises \/ AnalyzeFails \/ AdjustFails \/ Keep \/ CleanDone)

IncompleteIsCleared ==
  <>[][~Trouble]_vars => (Incomplete ~> ~Incomplete)

-----------------------------------------------------------------------------
(* What a message of the code says, and a run that follows on one that     *)
(* died does not keep.                                                     *)

(* "Checking data integrity ... OK to proceed"                             *)
IntegrityMeansReadable ==
  pc \in {"analyze", "triage", "adjust", "coverage", "prompt"} =>
    golden # "partial" /\ \A d \in Id : reports[d] # "partial"

=============================================================================
