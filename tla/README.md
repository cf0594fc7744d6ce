# EDACurry verification

TLA+ specifications of EDACurry and of the tools built on it, the TLC runs that
check them on small instances, and the proofs that TLAPS checks for instances
of any size. Everything is translated from the sources; paths below are those
of the repository.

## 1. Inventory

EDACurry parses transistor-level netlists (Eldo, Spectre, JSON, XML) into one
tree of objects, lets C++ and Python programs change the tree, and writes it
back in several dialects. `tools/edacurry2427` uses it for fault injection
after IEEE 2427: it derives a universe of defects from a circuit, simulates
each, and has a language model diagnose the ones that no test detects.
`tools/LCPToolkit` is a separate retrieval assistant on a local model server.

| component | state | operations | interacts through | what makes it correct | status |
|---|---|---|---|---|---|
| circuit object tree (`features/owned_list.hpp`, `structure/`, `factory.cpp`, bindings in `edacurry.cpp`) | weak parent pointers, lists with an owner, children of pairs | construct, append, pop, remove, transfer, clear, setChild, setParameter | shared pointers, held by the tree and by Python | going up agrees with going down; an object is in one place | `ObjectTree` |
| visitors, find and rename (`visitable_object.cpp`, `visitor_utilities.cpp`) | none, an early return | visit, find, rename | virtual calls over the tree | a search finds what it names, a renaming renames that alone | `Injection`, by what it calls |
| Eldo and Spectre frontends (`eldo_frontend.cpp`, `spectre_frontend.cpp`) | a stack of objects under construction, the C++ calls of visit functions | one visit function for each rule: cast the object on top, add, push, visit the children, pop | contexts of the generated parser, also those it has recovered; the object tree | what is pushed is popped, every object is put where it belongs, nothing of the netlist is lost | `EldoFrontend`, `SpectreFrontend`, `Frontend` |
| generated parsers (`ELDOParser.cpp`, `SPECTREParser.cpp`) | a context for each rule | one function for each rule | the frontends' visitors | what children a context may have | `EldoGrammar`, `SpectreGrammar` (the choice among alternatives is not) |
| JSON and XML frontends, five backends | a cursor, an indentation | read or write each kind of object | files | what is written is read back | not modelled, see below |
| defect universe (`universe.py`) | the list of defects, a counter of identifiers | one loop over the components of each subcircuit | the optimizer, the main program | unique identifiers, weights, the loop ends | `DefectUniverse` |
| optimizer (`utility.py`) | the circuit, the universe's records | merge of parallel components, collapse of equivalent defects | the tree (removes components), the universe | the weights are conserved | `DefectUniverse` |
| defect models, injector | the defect's record | inject: parse, rename, append | the tree | a defect is injected, as a change of its own, into one component, or is refused for a reason | `Injection` |
| campaign (`campaign_director.py`, `simulator_engine.py`) | pool, results, timers, logs, thread, dashboard, holders of report and error | submit, simulate, time out, collect, interrupt, clean up | pipes with locks, files, signals, a thread, callbacks | all verdicts or none; a timeout is justified | `Campaign`, `CampaignContract` |
| main program (`edacurry2427.py`) | files of earlier runs | golden simulation, campaign or reuse, check, analysis, coverage, clean up | files, exceptions | a coverage has a verdict for every name of the universe, from one campaign, whatever died before | `ToolRun` |
| analyzer (`analyzer.py`) | status of every record, diagnoses on disk | judge reports, triage in parallel, enter diagnoses | files, pool, model server | nothing is asked twice, statuses fit reports | `ToolRun` (its pool is not) |
| model server (`llm_manager.py`) | a child process, the engine on disk | compile and copy the engine, start, health, stop, signals | port, files, signals | the server in use is the one started, and is stopped; an engine is whole | `LlmServer`, `Servers` |
| LCPToolkit `lcptoolkit.py`, `inference_engine.py`, `rag_manager.py`, `core_system.py` | table of servers, texts of documents, vector database | start, stop, stop all, embed documents, answer | ports, database, signals | no server left behind, documents embedded whole | `Toolkit`, `Servers` (what `core_system.py` downloads is not) |
| LCPToolkit storage, downloads, hardware; `dependency_manager.py`; `enums.cpp`, `logging.cpp` | | | | | not modelled: input, output and tables |
| lexers, vendored libraries, tests, example circuits | | | | | not modelled: not the program's own logic |

What is hard here: a campaign has a thread, a dashboard, a pool of processes, a
timer in each of them that kills its own process, and a signal handler, all of which
meet in log files and in two pipes with locks; runs that die leave files, model
servers and ports that decide what the next run does; the object tree is shared with
Python programs that may call its operations in any order; and each of some two
hundred visit functions trusts the grammar for what a context holds and the others
for what is on top of the stack, also after a syntax error. The hazards, each at its
line, are in `PROJECT.json`.

## 2. Modules

| module | what it is |
|---|---|
| `CampaignContract` | what `run_campaign` promises: verdicts in the order of the universe, all of them or an exception |
| `Campaign` | the campaign in detail, and its refinement of the contract |
| `CampaignProofs` | its theorems |
| `MCCampaign` | instance for TLC: symmetry of the workers |
| `ObjectTree` | ownership in the circuit tree |
| `ObjectTreeProofs` | its theorems |
| `MCObjectTree` | what may hold what, for TLC |
| `ToolRun` | successive runs of the tool on one workspace, over the campaign's outcomes |
| `ToolRunProofs` | its theorems |
| `MCToolRun` | circuits and their edits, for TLC |
| `DefectUniverse` | from the circuit to the universe: merge, analysis, collapse |
| `DefectUniverseProofs` | its theorems on identifiers, types and collapsing |
| `MCDefectUniverse` | instances: fifteen parts of which circuits are made |
| `Injection` | the defects of each universe injected into the circuit that was read |
| `InjectionProofs` | its theorems |
| `MCInjection` | its instances, on those of `MCDefectUniverse` and with names that contain dots or are a subcircuit's |
| `Words` | sets of words: sequence, choice, option, repetition |
| `EldoGrammar`, `SpectreGrammar` | one definition for each rule: the words of children its parser function builds |
| `Visits` | what a visit function does, as a plan |
| `EldoFrontend`, `SpectreFrontend` | the plan of every visit function |
| `Frontend` | the machine that follows the plans: stack, calls, `add_to_parent`, failures, syntax errors |
| `FrontendContexts` | where each rule may be visited, and what may be added to what: an invariant of `Frontend` |
| `GrammarProofs` | lemmas on the words of both grammars |
| `FrontendProofs` | the theorems on `Frontend` |
| `MCFrontend` | what counts as nesting, and what a recovering parser leaves, for TLC |
| `LlamaServers` | the model servers of a host: processes and ports |
| `LlmServer` | a run of the 2427 tool, by the model server it keeps |
| `Toolkit` | a run of LCPToolkit: table of servers, documents, questions |
| `Servers` | both, over any number of runs |
| `ServersProofs` | its theorems |
| `MCServers` | symmetry of processes and documents, for TLC |

Operators whose comment starts with "Fault:" are no part of the system. Each
stands before the definition it is a wrong version of, and shows that the
property named with it in `PROJECT.json` would notice.

### Campaign

| code | model |
|---|---|
| `pool.apply_async` for all defects, then `get(timeout)` for each in order (`_execute_campaign_tasks`) | `Submit`, `SubmitFails`, `GetReturns`, `GetRaises`, `LookUpLog`, `ReadLog`, `ReadFails`, `FinishThread`; `tpc`, `cur`, `report`, `error` |
| a worker process of the pool (`_execute_simulation`, `simulate`) | `LockQueue`, `TakeTask`, `StartSimulation`, `SetupFails`, `EndSimulation`, `LockResults`, `SendResult`, `Respawn`; `wpc`, `task`, `outcome` |
| `threading.Timer` and `on_timeout` | `DogFires`, `DogOpensLog`, `DogWritesLog`, `DogFailsToWrite`, `DogKills`; `dog`, `host`, `log` |
| dashboard, `join`, `terminate`, clean-up, `_signal_handler` | `StartDashboard`, `DashboardExits`, `UserQuits`, `JoinThread`, `TerminatePool`, `CleanAndEnd`, `Interrupt`; `mpc` |
| the two pipes of `multiprocessing.Pool` (external) | `lock`, a queue given by `submitted` and `taken`, `result` |

Opening and writing a log are two steps, since the parent may read between
them; `DogKills` may hit a worker in any of its steps, because the timer's
cancellation does nothing once it has run out. There is no time: a wait or a
timer may elapse whenever it has been started. Output, the text of netlists
and the dashboard's contents are left out. `CampaignContract` is what the
callers see; `ToolRun` uses it by its outcomes.

### ObjectTree

A list stands for an object with one `OwnedList`, a pair for one with two
children, a leaf for one without. `Settle` is the end of every operation that
gives up a reference: what reference counting frees, and what the destructors
of lists then do to parents. `Returned` is what `remove` yields, including the
read of a destroyed element as a choice. `held` are the references of the
program. An object without parent may be put anywhere; `loose` remembers the
objects that a constructor stored, or a list without an owner, both of which
leave the parent unset. The setter of `Object.parent` in the bindings is left
out: it lets a program state anything.

### ToolRun

| code | model |
|---|---|
| lines 219-228 of the main program, `run_golden_simulation` | `Start`, `GoldenSimulates`, `GoldenDumped`, `GoldenTimesOut`, `GoldenInterrupted`, `NullDumped` |
| lines 230-259 | `RunCampaign`, `CampaignRaises`, `SkipCampaign`, `OpenReport`, `CloseReport`, `ReportsDone`, `CheckPasses`, `CheckFails` |
| `Analyzer.analyze`, `_execute_triage_worker` | `Analyze`, `AnalyzeFails`, `TriageOpens`, `TriageWrites`, `TriageGivesUp`, `TriageDone`, `Adjust`, `AdjustFails` |
| lines 267-288, `clean` | `WriteCoverage`, `Keep`, `Discard`, `RemoveReport`, `RemoveGolden`, `CleanDone`, `CleanFails` |
| kill, power, exceptions | `Crash`, in every step; `circuit` changes by `Edit` between runs, and `universe` with it |

A file being written is `partial`, and stays so when the run dies. Reports and
diagnoses are found by the identifiers of defects, and these are a kind and a serial
number (`universe.py:22-31`): `DefectsOf` says which names a circuit's universe
has, and two circuits may have the same, so that what an earlier one left behind
answers for the other. `recent` and `simulated`, the circuit of the last campaign,
are history variables. A report's text is reduced to what the analysis tells
apart: outside or inside the tolerance, or timed out.

### DefectUniverse

| code | model |
|---|---|
| `Optimizer.get_structure` | `circuit`: names, masters, nodes and parameters of the components of each content under test |
| `optimize_merge` | `MergeContent`, `MergeDone` |
| the branches of `process_defects` | `AnalyseDipole`, `AnalyseMosfet`, `AnalyseDiode`, `AnalyseSource`, `AnalyseOther`, and `DipoleDefects`, `MosfetDefects`, `DiodeDefects`, which list what each appends |
| `continue`, `except` | `IgnoreIncomplete`, `AnalysisRaises` |
| the loops, `IdGenerator` | `index`, `content`, `number`, `NextContent`, `AnalysisDone` |
| `optimize_collapse` | `CollapseInstance`, `CollapseNextContent`, `CollapseDeclined` |
| `generate_defect_universe`, `defect_builder` | `Generate` |

The defects of a content are a sequence, since collapsing goes by places in it;
the universe is a set, because it is in the order of the identifiers. Of an
identifier the number is kept (the letters before it say the kind). Weights are
in tenths. A formula of which nothing but the sign matters (800 / R, the aspect
ratio, the root of the area) stands as the parameter it grows with. A parameter
whose value is a name raises, as does one without a name, which is how the Eldo
frontend stores a value that is given by its position, and a component whose name
begins with a letter of no category (kind `unknown`, `universe.py:98`). Names are compared
without regard to case by the code; the model's are in one case. Components and
masters that the manifest excludes are treated by the code as any other, so the
manifest's list of excluded parameters is the only one in the model. The
justification of a weight (`z_w_j`) and the number of `collapsed` defects
decide nothing and are left out. Contents are subcircuits: anything else the
merge passes over with a message.

### Injection

| code | model |
|---|---|
| `Injector.inject_defect`, `Model.inject` (the four models) | `Inject`, `Injected` |
| the split of the instance's name at its dots (`models.py:123`) | `Split`, against `Address`, what the name was made of |
| "AST contamination detected", and no scope (`models.py:128`, `:245`, `:413`) | `Refused` |
| `find_subckt`, `find_component`, `find_parameter` | `Places` |
| `rename_node` and the resistor put in | `Renamed`, `Instance`, `Fits`, `Defected` |
| `ParametricModel` | `IsMin`, `Deviated` |
| `defect_builder`'s choice of a model | `IsOpenGate` |

The netlist is read anew for each defect, as it was before `optimize_merge`:
`Injection` keeps the circuit `DefectUniverse` began with, extends its
behaviours by injections of the defects it lists, and relates the two. A name with
dots of its own may lead to another component or to none: `Split` is any pair, and
the properties are about components whose names lead back to them (`Undotted`).
`Instance` has what a defect's subcircuit holds for its master, not what it is
called: the open of a diode is called `short_model` (`universe.py:708`) and holds the
resistance of an open. Sizes of
resistances and deviations are left out, and that a later defect overwrites the
record of an earlier one with the same name, since names are identifiers.

### The frontends

| code | model |
|---|---|
| a rule's function in the generated parser | a definition of `EldoGrammar` or `SpectreGrammar`: the set of words of children |
| a visit function | `Plan(rule, word, top)`: classes it casts the top to (`needs`), object it adds or opens, children it visits and how, tokens it keeps, what it returns |
| `visitChildren`, `accept` (external) | `Relevant`, `Enter`, which chooses the word of the next context |
| `to_number`, when `stod` refuses the text (`spectre_frontend.cpp:101`, `:411`) | `VisitUnread`, another of the `Plans` that `Visiting` chooses from |
| `advance_visit`, `push`, `pop`, `back` | `Visiting`, `Leave`, `Pop`, `Back`; `stack`, `frames` |
| `add_to_parent` | `Reception`, `AddedTo` |
| `_error`, `to_check`, a null pointer | the outcomes "thrown", "aborted", "crashed" |
| ANTLR's recovery from a syntax error (external) | `EnterAfterError`: a context cut short, and perhaps a stray token |
| `parse_eldo`, `parse_spectre` | `Init`, `Finish` |

There is no netlist: `Enter` chooses a word whenever a child is visited, so the
behaviours are the visits of all netlists within the bounds. The plans hold
the control of the two files; the texts of names and numbers are left out, but
whether a token's text is kept is not: `lost` has what the last visit left out.
Whether a number can be read is a choice in Spectre; Eldo's `to_number` always yields
one.
Subtrees whose visits change nothing (`Silent`) are passed over. A visit that
bypasses the visitor of its child (`visitChildren` on the child's context, or
`advance_visit` with a parameter) is an item whose `how` says so. Lexing, the
parser's predictions and the position of errors are left out.

### Model servers

| code | model |
|---|---|
| `llama-server` and the operating system (external) | `LlamaServers`: `Bind`, `Load`, `Stop`, `Fail`; `Answers` |
| `DownloadManager` | `HasEngine`, `BeginRun`, `Built`, `BuildFails`, `Copied`, `CopyFails`; `engine` |
| `start_llama_server` | `NoExecutable`, `Popen`, `PopenReturns`, `PollFails`, `PollSucceeds`, `HealthOk`, `HealthFails`, `HealthTimesOut` |
| `stop_llama_server`, lines 464-475 of the analyzer, the handlers of both | `StopThen`, `Waited`, `WaitTimesOut`, `TriageEnds`, `NothingToTriage`, `Signal` |
| `RagManager.__init__`, `_markdownify`, `_embed_document` | `Start`, `WriteText`, `LookUp`, `SaveChunk`, `DocumentDone`, `ChunkRefused`, `ChunkFails`; `texts`, `db` |
| `start_server`, `stop_server`, `stop_all_servers`, `is_server_running` | `StartServer`, `Tables`, `Healthy`, `TimesOut`, `StopServer`, `Stopped`, `StopNext`, `Running`; `table`, `child` |
| `lcptoolkit.py`, `get_context`, `process_user_request` | `StartChat`, `Ask`, `ContextFound`, `ContextFails`, `Answered`, `Quit`, `Leaving`, `Exit` |
| SIGINT, SIGTERM, SIGKILL | `Signal`, `Interrupt`, `InterruptSwallowed` (the health check's bare `except`), `DieLlm`, `Die` |

The two programs use different ports and files, so that a behaviour is of one
of them. Popen is two steps in both, for a signal may come between. There is no
time, as in the campaign.

Three history variables tell what the properties have to tell apart. `disturbed` is
set by what no exit of a program can clean up: the program is killed, a server dies
by itself, or, in the manager, a signal comes before Popen has returned (unless the server
gets it, too, as from a terminal). Once it is set, servers of one run may answer the
next, and the properties that exclude this say nothing more; the others hold on.
`exits` has the ends of LCPToolkit's own that leave one of its servers behind, though it
could have stopped them: "refused", a chunk that is refused with another
status than 200, over which the program exits (`rag_manager.py:160-162`);
"unstopped", an interrupt while `stop_all_servers` is not registered yet, or while it
runs; "second", an interrupt that finds two servers, of which `stop_all_servers`
passes over the second (`inference_engine.py:64`), or one that is not in the table
yet. `ServersAreStopped` says which server each of them leaves. `cut` has the
documents that a run has died over, which no later run completes.

The engine is `whole` when the llama-server in its directory can be run. On macOS it
is compiled, in a directory of its own, and its two programs are copied. On Linux
the release to download is chosen by comparing `platform.system()`, which is
"Linux", with "linux" (`llm_manager.py:160-169`), so none is ever chosen and the
program raises before anything is on disk (`BuildFails`); an engine is there only if
the user has put one there, which `InitLlm` takes to be one that runs. Windows is
refused. That leaves the code that downloads and unpacks an archive unreachable, and
it is not modelled.

## 3. Runs

| run | instance | shows |
|---|---|---|
| `campaign_safety` | 2 defects, 2 interchangeable workers, any logs left over | types; all verdicts or none (`CompleteOrRaised`); a timeout is the defect's own (`TimeoutJustified`); the pool alone loses nothing (`LossExplained`); logs are removed after their writers (`NoWriterAfterPool`); the contract is kept (`ImplementsContract`) |
| `campaign_live` | 2 defects, 1 worker, fairness | the campaign ends, unless a killed worker held a lock or the dashboard missed its exit |
| `objecttree_safety` | 2 lists, a pair and a leaf, free to hold one another | parents agree with contents (`ParentIsHome`), an object that was given a place by the checked operations has one (`SoleHome`), also when references form cycles |
| `toolrun_all` | 2 defects, a circuit with both, one with the same names and one with a part less, fairness | a coverage judges every name of the universe and no other, and the circuit that was simulated had all of them (`EveryNameIsJudged`), reports are of one campaign (`OneCampaign`), a saved diagnosis stays (`DiagnosesAreKept`); incomplete reports go away once runs are left alone (`IncompleteIsCleared`) |
| `universe_all` | 15 parts, circuits of up to 3 in one content and of 2 and 1 in two, some with a component that has a subcircuit's name or dots in its own, 4 manifests | identifiers differ (`IdsAreDistinct`), opens become one of their weight (`OpensBecomeOne`), collapsing stays in its component (`CollapseIsConfined`), the analysis ends (`AnalysisEnds`); of the defects of components without dots in their names, just the shorts and opens of those that are called as a subcircuit are refused by the circuit as it was before merging (`OnlyNamesakesAreRefused`), an open can be closed again (`OpensCanBeClosed`), different defects are different changes (`DefectsAreToldApart`), and a defect of merged components is injected into one card of those that were counted (`OneDeviceIsHit`) |
| `frontends` | both languages, parts that occur twice, one level of nesting, one recovered context | the stack follows the calls (`StackMatchesCalls`), is changed only at its top (`OnlyTheTopChanges`), and its objects are filled from the first place to the last (`TypeOK`); no cast fails, not even after a syntax error (`CastsHold`); objects fit what holds them and reach it, but for two lists (`NothingIsDropped`); what a netlist says is kept, but for a list and for numbers that cannot be read (`TokensAreKept`); the grammar excludes the null pointers, but for two places (`NullsAreExcluded`) |
| `servers_all` | 3 processes, 2 documents of 2 chunks, any number of runs | LCPToolkit leaves its chat server only to an interrupt before `stop_all_servers` is registered or while it runs, and an embedding server only to the ends in `exits` (`ServersAreStopped`), is answered by its own until it has left one (`AnswersAreOwn`), never refuses to start one (`NoStartIsRefused`) and has whole documents (`DocumentsAreWhole`); the manager leaves none (`ServerIsStopped`), the triage is answered by its own (`TriageIsOwn`), an engine that is found and cannot be run goes back to a run that was broken off while it copied it (`EngineIsMissedOnlyWhenBroken`) |

Five runs refute what a text of the program says.

| run | text | trace |
|---|---|---|
| `campaign_latekill` | "Stop timer in case simulation succeded" | the timer runs out as the simulation ends; it kills the process that runs the next one |
| `campaign_signal` | "terminate all running child processes immediately" | a killed worker kept a pipe's lock, the handler waits for it |
| `toolrun_integrity` | "Check data integrity ... OK to proceed" | the last report was being written when the run died |
| `universe_endless` | "Ignored from the defect universe" | the loop returns to the same transistor for ever |
| `universe_collapse` | "Collapsing opens" | a resistor's deviations lose their weight with its second open |

Read in the source, and without a run of their own: `OwnedList::remove` returns the
element after the one it removed (`owned_list.hpp:147`), its form by name never
removes anything (`:158`), an item of a list without an owner, as
`Analysis::content`, is accepted by a second list in spite of "Cannot add the same
object to two lists" (`:113`), `setChild` returns the new child where the comment
says the old one (`object.hpp:86`); the parent's wait counts the time a defect is
queued (`campaign_director.py:308`), and a log that a run left behind makes a defect
a timeout (`:313`); simulations share a row of the dashboard
(`campaign_director.py:284`); with an empty universe the dashboard is never told to
exit (`:337`); the reports and diagnoses of an earlier circuit answer for the
present one where the names of the defects are the same, and they are serial numbers
(`edacurry2427.py:236`, `universe.py:22-31`); a truncated diagnosis counts as done
(`analyzer.py:455`), and a diagnosis is entered in the record it names, even of a
detected defect (`:486`). In the universe, transistors whose source is their bulk
get no short of any weight, also between other terminals (`universe.py:393`);
gate-source shorts weigh nothing unless gate and drain are one net (`:410`); the
parameters behind one that is excluded, or is no target, weigh nothing (`:241`);
excluded components and masters are not excluded (`:107`, `:378`); a component whose
last open is the last defect of its content keeps both (`utility.py:464`); merging
overwrites a multiplicity, so that two components of two become one of two (`:396`);
and a manifest that declines to collapse, or has no `perform_optimization`, makes
the program raise (`:426`, `:299`).

`.op ALL 5n` makes the Eldo frontend follow a null pointer: the keyword is looked up
with an index that was advanced before (`eldo_frontend.cpp:655`), though "every
token read in this file goes through here" (`:32`). `rename_node` renames
identifiers in expressions, too (`visitor_utilities.cpp:133`), where it is
documented as "Rename a node in the given scope" (`edacurry.cpp:440`); the message
for an open gate that does not fit uses an undefined name (`models.py:436`); a
deviation is recorded as an open (`:511`); a component with the name of a subcircuit
is refused as contamination (`:128`), one with a dot in its name is taken for
another, or not found (`:123`), and the new node `n_open` may exist already.
`stop_all_servers` takes entries from the list it goes through and so stops every
second server (`inference_engine.py:64`), of "a function that has to be executed
every time LCPToolkit is closed (useful in case of crashes)"; a server that has died
stays in the table and hides the one that is started after it (`:37`), which then is
never stopped; the health check is answered by whoever has the port (`:112`,
`llm_manager.py:396`); a chunk that is refused ends the program with its embedding
server running (`rag_manager.py:160-162`); a signal between Popen and the assignment
of its result leaves the server, although handlers are registered "to ensure cleanup
on abrupt exit, exceptions or termination signals" (`llm_manager.py:273`); on Linux
no release of the engine is ever found (`:160-169`), and what the code after that
unpacks from a .zip has lost its permission to be run (`:133-135`); on macOS an
engine whose copying was broken off counts as one from then on (`:46`); and a
document whose embedding was broken off counts as embedded (`rag_manager.py:78`).

What `TokensAreKept` lets the frontends lose, and no message reports: (Eldo) the
paths of `.model`, `.ffile` and `.use_tcl`, the keys of `.lib`, `.chrent`, `.ffile`,
`.call_tcl`, `.defwave`, `.ic` and of an included parasitic file, all but the first
row of a component's table (`eldo_frontend.cpp:1421`), the expressions of `.op`
beyond its keywords, and operators wherever an expression is visited by another
visitor than its own; (Spectre) time pairs in a wave (the list keeps only
expressions), identifiers of `alter`, `assert`, `check`, `set`, `shell`, `sens`,
`vary` and `correlate` statements, numbers that `stod` refuses
(`spectre_frontend.cpp:101`, `:411`), and everything that stands in a library, which
`add_to_parent` cannot hold. A ternary expression, and a pair where a value is
expected, are refused for want of a place. A Spectre component's value that is no
number ends in `bad_cast`, a string in a null pointer (`spectre_frontend.cpp:278`),
and `^^` and `**` are operators the grammar accepts and the frontend does not know
(`:108`).

### Bounds

Two defects and two workers are the least with which a worker's timer can outlive
its simulation into another one, with which a task waits behind another, and with
which a pipe's lock is contended. Two lists and a pair give every transfer and every
shared child; one leaf, since lists and pairs may hold one another as well, which
also gives the cycles. Two defects, and a circuit with one of them, give partial
sets of reports, sets of the wrong size or of another circuit, and diagnoses that
name another defect; a second circuit with both gives the reports of an earlier one
under the same names; the number of runs and crashes is not bounded. Three
components are the least with which a component has a neighbour on both sides while
defects are collapsed, and two contents the least that share a counter; the parts
have each combination of parameters that a branch of the code asks for. In the
frontends `MaxRepeat` is 2, the least with which one occurrence is first and another
last; `MaxDepth` counts the steps of `Deepens`, of which every cycle of the grammars
has one, so that a netlist is finite, and 1 gives each statement inside a
subcircuit, a library or an expression inside an expression; `MaxPending` keeps the
visits that wait to 2 before another word repeats a part, since what the siblings
before a context did is forgotten by then; `MaxErrors` and `Skipped` give one
context cut off anywhere, with or without a stray identifier. Three processes are a
chat server, an embedding server and one that an earlier run has left or that is
being started beside a dead one; a process that is dead and forgotten is used again.
Where more dead ones stay in the table than that, the program waits in the model,
which costs behaviours of a host that is disturbed anyway. `OneLeft` follows a
behaviour until the second of the things has happened that leave servers: from then
on the properties about the rest of it do not tell more than after the first. The
proofs have neither bound. Two documents give one that is passed and one that is
open, two chunks one that is cut off. Nothing depends on a third instance of any of
these by name, and the proofs cover every number.

### Fairness

`Campaign!Fairness`: threads and processes that can go on do (the operating
system schedules them), timers that are armed elapse, the pool replaces dead
processes. Simulations need not end, which is why the timers exist; the user
need not close the dashboard; signals need not come. `ToolRun!FairSpec`: what waits
for nobody goes on, the golden simulation, which its watchdog ends, and the reading,
writing and removing of reports; and a user without a result starts the tool again.
Nothing is assumed of the campaign, which need not return (`CampaignEnds` says when it
may not), of the analysis and the triage, or of the user's answer to the final
question. Crashes are never required and never excluded,
save in `IncompleteIsCleared`, which asks that from some moment on runs end
only of themselves (a run whose golden simulation times out kills itself, and
counts as disturbed). `DefectUniverse!FairSpec`: the analysis is one thread that
runs until it returns or raises. The frontends, the object
tree and the servers are checked for safety only, and assume none.

## 4. Theorems

All are for any values of the constants that satisfy the `ASSUME` of the
module, which the code justifies: finitely many workers and identifiers, kinds
of objects that do not overlap, special values that are not identifiers.

| module | theorem | property |
|---|---|---|
| `CampaignProofs` | `TypeCorrect`, `Completeness`, `Justification`, `NoUnexplainedLoss`, `WritersGone`, `Refinement` | `TypeOK`, `CompleteOrRaised`, `TimeoutJustified`, `LossExplained`, `NoWriterAfterPool`, `ImplementsContract` |
| `ObjectTreeProofs` | `TypeCorrect`, `UpAgreesWithDown`, `OnePlaceOnly` | `TypeOK`, `ParentIsHome`, `SoleHome` |
| `ToolRunProofs` | `TypeCorrect`, `NamesAreJudged`, `ReportsTogether`, `DiagnosesStay` | `TypeOK`, `EveryNameIsJudged`, `OneCampaign`, `DiagnosesAreKept` |
| `DefectUniverseProofs` | `IdentifiersAreUnique`, `TypesAreKept`, `CollapsingIsConfined`, `OpensAreCollapsed` | `IdsAreDistinct`, `TypeOK`, `CollapseIsConfined`, `OpensBecomeOne` |
| `InjectionProofs` | `OthersFindTheirPlace`, `OpensCloseAgain`, `DefectsDiffer`, `OneDeviceOfMany` | `OnlyNamesakesAreRefused`, `OpensCanBeClosed`, `DefectsAreToldApart`, `OneDeviceIsHit` |
| `FrontendProofs` | `StackFollowsCalls`, `NothingIsLeftOpen`, `LowerObjectsAreSafe`, `ContextInvariance`, `TypesAreKept`, `CastsNeverFail`, `TheTreeTakesAll` | `StackMatchesCalls`, no object is open at the end, `OnlyTheTopChanges`, the invariant of `FrontendContexts`, `TypeOK`, `CastsHold`, `NothingIsDropped` |
| `ServersProofs` | `TypeCorrect`, `StartsAreFree`, `EmbeddedWhole`, `StoppedInTheEnd`, `OwnTriage`, `MissedOnlyWhenBroken`, `NoneIsLeft`, `OwnAnswers` | `TypeOK`, `NoStartIsRefused`, `DocumentsAreWhole`, `ServerIsStopped`, `TriageIsOwn`, `EngineIsMissedOnlyWhenBroken`, `ServersAreStopped`, `AnswersAreOwn` |

`CampaignProofs`: the invariant adds to the properties who holds which lock,
which worker a timer lives in, which defects each worker, result and timer can
still be about (a task is given out once), what the campaign thread has
collected at each of its steps, and that a terminated pool has no live process.
None of the properties is inductive without them: that a timeout is justified
needs that only the defect's own watchdog ever writes its log, that nothing is
lost needs that a taken task is in a worker until its result is there.

`ObjectTreeProofs`: the invariant `Tree` has the shape of the references
(nothing refers to what is not alive), that parents agree with contents, and
that every object outside `loose` is in one place. The lemmas follow the parts
operations are made of: an item taken out, appended, a child replaced, an
object constructed, and `Settled`, which says that freeing garbage with all its
destructors keeps the tree. That a set of garbage exists needs no induction,
since it is defined as an intersection.

`ToolRunProofs`: the reports are counted, not compared, so the proof shows why
counting is enough: the analysis raises on a report that is not of a defect of
the universe, and a subset of a finite set with the same cardinality is that
set (`NoneMissing`). The invariant adds that an open report has a verdict
waiting, that the analysis starts with as many reports as defects, and that what is on
disk has names of the circuit that was simulated. Names are all that is proved:
an edited circuit may have the same, and then its coverage is of another's reports,
which the theorem says in its second part and does not exclude. That a
diagnosis stays needs only that a triage's list holds no defect whose diagnosis is
saved (`StillOpen`): the list is made from what is on disk, and an answer leaves it.

`DefectUniverseProofs`, of identifiers: the invariant adds that every identifier is
below the counter, or missing in a source, that the contents' defects are records,
and that merging yields components. One lemma per way the lists change: entries
numbered by the counter are appended (`ListStep`), a source is (`SourceStep`),
weights are changed in place (`CollapseStep`). Weights do not matter here and are
left arbitrary.

`DefectUniverseProofs`, of collapsing: `optimize_collapse` compares names and stops
at the first other one, so that it stays in its component depends on the order in
which `process_defects` has listed the defects. The invariant `Order` says that
components of a content have names of their own, before and after merging, that each
defect is of a component already analysed, and that behind an open no short of the
same component follows. The lemmas say what an entry appended to a list keeps of
that, and that a change of weights keeps all of it. Where the search stops is a
least position, which exists since numbers are well-founded (`MinIsOne`).

That one open is left needs more, since each search begins behind the place where
the last one stopped and so passes over the first defect of every component but the
first. `CollapseInv` adds to `Order` the types (`Typed`) and `Kept`: the defects of
a component stand together (`Together`); where the search goes on, nothing is left
of a component it has gone through, save that the defect just before, which was
passed over, may be of the next one (`Searched`); the two opens of a component
follow its short, and weigh the same each until the search has passed them, and from
then on nothing and twice as much (`OpensKept`); and the universe is what has a
weight (`Drawn`). The sum of the opens' weights is a fold over a set of two, for
which the equation of its recursion is solved outright, instead of an induction
(`SumOfTwo`). That the weights are numbers is part of the same invariant, since the
sum is made of those listed before.

`InjectionProofs`: the universe is of the merged circuit, the injection into the
netlist, so `InjectionInv` relates the two: `Drift` says that each component of the
circuit is one of the netlist, merged with its twins if its content has been, and
`Catalogue` what its list of defects may say, namely nets and parameters of this
component, with a weight only if the parameter is a target (`Suited`), never the
same twice but for the two directions of a deviation, of which the lower is listed
first (`Told`). `Hit` says what the injected circuit is. That only a component with
a subcircuit's name is refused then needs that merging changes no parameter but the
multiplier, which is never a target (`Sited`), and that a name without dots is of
one component, which `InjectionAssumption` asks of `Address`. That an open can be
closed is a renaming there and back; that defects differ compares each pair of
kinds; and that one card is hit counts twins, before and after, by the places they
have (`LessOne`), of components of multiplicity one: of others the multiplier does
not count the devices.

The assumption of `DefectUniverse` that components have names of their own in
all contents stands for the names the code uses, `<content>.<component>`, and for
netlists in which no two components of a subcircuit have one name, as every dialect
requires. Nothing is assumed of components otherwise: nodes may be missing, values
be names, and the net's new name (`Opened`) be in use, which is why
`OpensCanBeClosed` and `OneDeviceIsHit` say so where it matters.

`FrontendProofs`, that the stack follows the calls: nothing of the grammars or of
the plans is used, so the first three theorems hold for any visitors that keep to
`advance_visit`, and for whatever the parser leaves after an error. The invariant
`IInv` adds that frames and objects are well-formed and that the heights at which
frames began are a chain: between any two frames they grow by the objects opened in
between. From the chain follow both that a visit function finds its own object and
that nothing is left when the last one returns.

`FrontendProofs`, that casts hold and that the tree takes what is created: this is
about which rule can stand below which, for netlists of any depth and with parts
repeated any number of times. `FrontendContexts` says it as a relation. For each
symbol, `Home` has the classes that may be on top of the stack when it is visited;
for each rule, `Inside` those that may be there when its children are; `Takes` says
what may be added to what; `Waits` that an item of a frame can be visited with
the object on top that there will be then. The invariant `InContext` says this of
every item of every frame, of the lists that are added only when a visit
returns, and that each object has the places of a class. With `IInv`, which tells where a
frame's object is, it is inductive:

- The grammars: every child of every word of a rule may be visited where the
  children of that rule are (the lemmas `EldoWordsFit` and `SpectreWordsFit` of
  `GrammarProofs`, over the symbols each rule is made of, with any number of repetitions, `EldoWords1` and following). What a
  recovering parser leaves is a part of such a word, and tokens (`CutsSuit`). That
  it leaves tokens and no contexts is `SkippedAssumption`: an error node of ANTLR
  is a leaf.
- The visitors: `PlanFits` says of a plan that it casts the top only to a class that
  can be there, adds only what that class takes, opens an object in which the children
  it visits may be visited, and visits no others. It is proved for every plan of
  both frontends (`EldoPlansFit`, `SpectrePlansFit`), for every word that suits the
  rule and every class in its `Home`.
- Numbers that cannot be read: their plans add and visit nothing, and so fit
  (`PlansFit`). Objects are filled in the order of their places, so that what is left to
  fill is always a tail (`PlacesLeft`, `TailsAreLeft`).
- The machine: a step leads from plans that fit to `InContext` again
  (`VisitingContext`, `LeaveContext`), since what is below the top keeps its class.

`CastsHold` and the first part of `NothingIsDropped` cannot be had without this: the
visitor of a parameter, say, casts nothing itself, and what it adds is refused or
not by whoever opened the object below, several calls before.

`ServersProofs`: each property has an invariant of its own. `Documents` says in
which steps a document may be half embedded or half written, and that what the
run has passed is in the database. `Managed` says that the port has one holder,
that all processes but the run's own have been told to stop, and that the one
that was found ready stays so; that no other answers the triage follows from the
first two. `Orderly` is about the table, from which entries are taken in the
middle: the first entry of a mode, if it lives, is the only one of that mode.
`IsFirst` alone is not inductive, since a dead entry may stand before a living
one; the proof needs that what dies in the table never lives again
(`NoneRevives`), and how the places of the entries move (`OneMore`, `OneLess`).

The last two theorems are about what the table forgets. Until something marred the
host (`Marred`: it is disturbed, or one of the ends in `exits` has happened), every
process that nobody has told to stop is in the table, or between Popen and it
(`Held`), so what matters is what an exit forgets with it. `Course` says which
entries are left at each step: none embeds where a server is started next
(`NoneEmbeds`), which needs that a document with chunks in the database has had a
server that answers (`Embeds`) and so one that was stopped and taken out; a question
is asked only with `stop_all_servers` registered (`Registered`); and at the end only
the chat server can be running, as the first entry (`Leaves`, `Exits`), which is why
the loop that passes over every second entry leaves none.

Of the chat server more is true: embedding servers that earlier runs have left, or
that an exit passes over, do not save it. `Chats` needs nothing of the past but that
no interrupt has come while `stop_all_servers` was not registered or was running
(`ChatHeld`). The embedding servers before it in the table are dead (`Line`), and those
that are stopped and taken out are behind it (`StopsBehind`), so that the loop does come
to it; and the program ends without the loop only where there is no
chat server to stop (`Turns`).

Only model-checked: liveness and everything under fairness (`AnalysisEnds`,
`CampaignEnds`, `IncompleteIsCleared`), which the prover does not do; and of the frontends
`TokensAreKept` and `NullsAreExcluded`. These two are about what stands beside what in
one word (an operator beside its operands, the tokens a visitor looks for without
asking), where the proofs use of a word only which symbols can be in it.

## 5. What is left

Not modelled: the five backends, the JSON and XML frontends (what each kind of
object is written as and read back from is text, and most of it layout; a model that
keeps only which kinds are written would say little about it); lexers and the
parser's predictions, generated and third-party; the parsing of log files and of
measurements in the analyzer and of prompts and answers, which is text; the
downloads of models, which `huggingface_hub` makes atomic; the unpacking of releases
of the engine, which no system reaches; the scan of the hardware; the dashboards'
contents. The analyzer's own pool repeats the campaign's shape.

Next would be: what must stand beside what in a word, as lemmas of the kind of
`EldoWordsFit`, so that `NullsAreExcluded` is proved for words of any length; the
contract of `ToolRun`'s campaign step as an instance of `CampaignContract`; and the
round trip from a tree through a backend to a tree.
