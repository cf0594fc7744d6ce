------------------------------- MODULE Servers -------------------------------
(***************************************************************************)
(* The two programs that run model servers, on a host whose processes and  *)
(* ports outlive them.  They use different ports and directories and so do *)
(* not meet: a behaviour is of one of them, run as often as one likes, and *)
(* the engine of the other has no part in it.                              *)
(***************************************************************************)
EXTENDS Toolkit, LlmServer

VARIABLE program

vars == <<program, procs, disturbed, toolkit, llm>>

Init ==
  /\ program \in {"LCPToolkit", "edacurry2427"}
  /\ procs = [p \in Pid |-> [state |-> "dead", port |-> "8080"]]
  /\ disturbed = FALSE
  /\ InitToolkit /\ InitLlm
  /\ program = "LCPToolkit" => engine = "none"

Host == \E p \in Pid : (Bind(p) \/ Load(p) \/ Stop(p) \/ Fail(p)) /\ UNCHANGED <<toolkit, llm>>

Next ==
  /\ \/ program = "LCPToolkit" /\ ToolkitNext /\ UNCHANGED llm
     \/ program = "edacurry2427" /\ LlmNext /\ UNCHANGED toolkit
     \/ Host
  /\ UNCHANGED program

Spec == Init /\ [][Next]_vars

-----------------------------------------------------------------------------
(* Types of the host's variables, of the two programs' and of all.         *)
HostTyped == procs \in [Pid -> [state : ProcStates, port : Port]] /\ disturbed \in BOOLEAN

DocumentsTyped ==
  /\ doc \in Doc \cup {"none"} /\ todo \subseteq Doc /\ cut \subseteq Doc
  /\ texts \in [Doc -> {"none", "cut", "whole"}] /\ db \in [Doc -> 0 .. Chunks]

ToolkitTyped ==
  /\ pc \in {"down", "documents", "writing", "spawned", "waiting", "embedding",
             "prompt", "answering", "stopping", "leaving", "exiting"}
  /\ table \in Seq(Entries)
  /\ child \in IF pc = "spawned" THEN Pid ELSE {"none"}
  /\ exits \subseteq {"refused", "unstopped", "second"}
  /\ mode \in Modes /\ atexit \in BOOLEAN /\ anew \in BOOLEAN
  /\ then \in {"down", "documents", "embedding", "prompt", "answering", "leaving", "exiting"}
  /\ at \in Nat

LlmTyped ==
  /\ lpc \in {"down", "building", "copying", "analysis", "spawned", "polling",
              "health", "triage", "stopping"}
  /\ engine \in {"none", "part", "whole"}
  /\ {own, spawned} \subseteq Pid \cup {NoProcess}
  /\ ends \in {"ok", "raised", "no engine", "interrupted"} /\ broken \in BOOLEAN

TypeOK == HostTyped /\ DocumentsTyped /\ ToolkitTyped /\ LlmTyped

(* What LCPToolkit leaves behind when it ends.  Only an interrupt before   *)
(* stop_all_servers is registered, or while it runs, leaves a chat server. *)
(* An embedding server is left by these, by an interrupt that finds both   *)
(* servers, since stop_all_servers passes over the second, and by a chunk  *)
(* that is refused, over which the program exits.  Every other end stops   *)
(* them all, on a host where the program is not killed and no server dies  *)
(* of itself.                                                              *)
ServersAreStopped ==
  (pc = "down" /\ ~ disturbed) =>
    \A p \in Pid : (procs[p].port \in {"8080", "8888"} /\ Young(p)) =>
      \/ "unstopped" \in exits
      \/ procs[p].port = "8080" /\ exits # {}

(* Whoever answers is the server the program has started for it, until a   *)
(* run has left one on the port.                                           *)
AnswersAreOwn ==
  (pc \in {"embedding", "prompt", "answering"} /\ ~ disturbed /\ exits = {}) =>
    \A p \in Pid : procs[p].state = "ready" => p \in Tabled

(* "Another server is already running" is never said: the first server of  *)
(* a mode is gone whenever one is started, whatever has died or was left.  *)
NoStartIsRefused ==
  /\ pc \in {"documents", "writing", "prompt"} => ~ Running("embedding")
  /\ pc \in {"documents", "writing"} => ~ Running("chat")

(* When questions can be asked the database has every document whole, save *)
(* those that a run has died over, or that the one before had begun to     *)
(* write: they are never taken up again.                                   *)
DocumentsAreWhole ==
  (pc \in {"prompt", "answering"}) => \A d \in Doc \ cut : db[d] = Chunks

(* A run that ends, however it does but killed, leaves no model server     *)
(* behind, save when a signal comes before Popen has returned.             *)
ServerIsStopped ==
  (lpc = "down" /\ ~ disturbed) =>
    \A p \in Pid : procs[p].port = "11434" => procs[p].state \in {"stopping", "dead"}

(* The triage is answered by the run's own server: it cannot be one that   *)
(* an earlier run left on the port, but after what no run can clean up.    *)
TriageIsOwn ==
  (lpc = "triage" /\ ~ disturbed) =>
    \A p \in Pid : (procs[p].port = "11434" /\ Alive(p)) => p = own

(* A run that takes what is there for the engine, and finds that it cannot *)
(* be run, follows one that was broken off while it copied the engine.  No *)
(* later run repairs it.                                                   *)
EngineIsMissedOnlyWhenBroken == ends = "no engine" => broken
=============================================================================
