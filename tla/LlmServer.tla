------------------------------ MODULE LlmServer ------------------------------
(***************************************************************************)
(* The model server of edacurry2427 (llm_manager.py), from the making of   *)
(* the engine to the end of the run: started for a triage, checked, used   *)
(* and stopped, also by the handlers for signals and at exit.  The engine  *)
(* outlives a run, in whatever state it was left.  On macOS it is compiled *)
(* and copied; on Linux it is there because the user has put it there, or  *)
(* there is none: platform.system() is "Linux", the releases are chosen by *)
(* "linux", and so none is ever downloaded.                                *)
(***************************************************************************)
EXTENDS LlamaServers

ASSUME LlmAssumption == "11434" \in Port

VARIABLES
  lpc,      \* where the run is
  engine,   \* llama.cpp on disk: "none", "part" or "whole"
  own,      \* _engine_process, or "none"
  spawned,  \* the process that Popen has created and not yet returned
  ends,     \* how the run ends when its server has stopped
  broken    \* whether the copying of the engine was broken off

llm == <<lpc, engine, own, spawned, ends, broken>>

NoProcess == "none"

InitLlm ==
  /\ lpc = "down" /\ engine \in {"none", "whole"} /\ own = NoProcess /\ spawned = NoProcess
  /\ ends = "ok" /\ broken = FALSE

-----------------------------------------------------------------------------
(* Any file whose name begins with llama counts as the engine.             *)
HasEngine == engine # "none"

BeginRun ==
  /\ lpc = "down"
  /\ lpc' = IF HasEngine THEN "analysis" ELSE "building"
  /\ ends' = "ok"
  /\ UNCHANGED <<procs, disturbed, engine, own, spawned, broken>>

Built ==
  /\ lpc = "building" /\ lpc' = "copying"
  /\ UNCHANGED <<procs, disturbed, engine, own, spawned, ends, broken>>

(* Fault: the exit status of cmake is not looked at.                       *)
BuildFailsOver ==
  /\ lpc = "building" /\ lpc' = "analysis"
  /\ UNCHANGED <<procs, disturbed, engine, own, spawned, ends, broken>>

(* git or cmake fail, or there is no release for the system: nothing is    *)
(* there, and the next run tries again.                                    *)
BuildFails ==
  /\ lpc = "building" /\ lpc' = "down" /\ ends' = "raised"
  /\ UNCHANGED <<procs, disturbed, engine, own, spawned, broken>>

Copied ==
  /\ lpc = "copying" /\ lpc' = "analysis" /\ engine' = "whole"
  /\ UNCHANGED <<procs, disturbed, own, spawned, ends, broken>>

(* What an end of the run leaves of the engine: llama-cli is copied first, *)
(* and a file may be run only when all of it has been written.             *)
Left == IF lpc = "copying" THEN {"none", "part", "whole"} ELSE {engine}

CopyFails ==
  /\ lpc = "copying"
  /\ engine' \in Left /\ broken' = TRUE
  /\ lpc' = "down" /\ ends' = "raised"
  /\ UNCHANGED <<procs, disturbed, own, spawned>>

(* All defects were detected, or have their diagnosis: no server.          *)
NothingToTriage ==
  /\ lpc = "analysis" /\ lpc' = "down"
  /\ UNCHANGED <<procs, disturbed, engine, own, spawned, ends, broken>>

(* No executable, or one that cannot be executed.                          *)
NoExecutable ==
  /\ lpc = "analysis" /\ engine # "whole"
  /\ lpc' = "down" /\ ends' = "no engine"
  /\ UNCHANGED <<procs, disturbed, engine, own, spawned, broken>>

(* The process exists before its handle is stored.                         *)
Popen ==
  /\ lpc = "analysis" /\ engine = "whole"
  /\ \E p \in Pid : /\ ~ Alive(p)
                    /\ procs' = Launched(p, "11434") /\ spawned' = p
  /\ lpc' = "spawned"
  /\ UNCHANGED <<disturbed, engine, own, ends, broken>>

PopenReturns ==
  /\ lpc = "spawned"
  /\ own' = spawned /\ spawned' = NoProcess /\ lpc' = "polling"
  /\ UNCHANGED <<procs, disturbed, engine, ends, broken>>

(* The server has ended by itself.                                         *)
PollFails ==
  /\ lpc = "polling" /\ ~ Alive(own)
  /\ own' = NoProcess /\ lpc' = "down" /\ ends' = "raised"
  /\ UNCHANGED <<procs, disturbed, engine, spawned, broken>>

PollSucceeds ==
  /\ lpc = "polling" /\ Alive(own) /\ lpc' = "health"
  /\ UNCHANGED <<procs, disturbed, engine, own, spawned, ends, broken>>

(* Whoever answers on the port, the server is taken to be ready.           *)
HealthOk ==
  /\ lpc = "health" /\ Answers("11434") /\ lpc' = "triage"
  /\ UNCHANGED <<procs, disturbed, engine, own, spawned, ends, broken>>

HealthFails ==
  /\ lpc = "health" /\ ~ Answers("11434") /\ lpc' = "polling"
  /\ UNCHANGED <<procs, disturbed, engine, own, spawned, ends, broken>>

(* Fault: the handle is forgotten and the process is not.                  *)
StopThenForgotten(how) ==
  ends' = how /\ own' = NoProcess /\ lpc' = "down" /\ UNCHANGED procs

(* stop_llama_server, after which the run ends in this way.                *)
StopThen(how) ==
  /\ ends' = how
  /\ IF own # NoProcess /\ Alive(own)
     THEN procs' = Signalled({own}) /\ lpc' = "stopping" /\ UNCHANGED own
     ELSE own' = NoProcess /\ lpc' = "down" /\ UNCHANGED procs

(* Fault: it raises before it stops the server.                            *)
HealthTimesOutAtOnce ==
  /\ lpc \in {"polling", "health"}
  /\ ends' = "raised" /\ own' = NoProcess /\ lpc' = "down"
  /\ UNCHANGED <<procs, disturbed, engine, spawned, broken>>

HealthTimesOut ==
  /\ lpc \in {"polling", "health"}
  /\ StopThen("raised")
  /\ UNCHANGED <<disturbed, engine, spawned, broken>>

TriageEnds ==
  /\ lpc = "triage"
  /\ \E how \in {"ok", "raised"} : StopThen(how)
  /\ UNCHANGED <<disturbed, engine, spawned, broken>>

Waited ==
  /\ lpc = "stopping" /\ ~ Alive(own)
  /\ own' = NoProcess /\ lpc' = "down"
  /\ UNCHANGED <<procs, disturbed, engine, spawned, ends, broken>>

(* After 5 seconds.                                                        *)
WaitTimesOut ==
  /\ lpc = "stopping" /\ Alive(own)
  /\ procs' = Killed(own)
  /\ UNCHANGED <<disturbed, llm>>

-----------------------------------------------------------------------------
(* SIGINT or SIGTERM.  The manager's handler stops the server and raises   *)
(* SystemExit; the analyzer's, which replaces it, raises SystemExit, and   *)
(* `finally` and atexit stop the server.  From a terminal the server gets  *)
(* the signal as well.  Before Popen has returned there is nothing to stop. *)
Signal(terminal) ==
  /\ lpc # "down"
  /\ LET hit == IF terminal THEN {own, spawned} \cap Pid ELSE {}
         stopped == IF own # NoProcess /\ Alive(own) THEN {own} ELSE {}
     IN  procs' = Signalled(hit \cup stopped)
  /\ lpc' = IF own # NoProcess /\ Alive(own) THEN "stopping" ELSE "down"
  /\ own' = IF own # NoProcess /\ Alive(own) THEN own ELSE NoProcess
  /\ spawned' = NoProcess
  /\ disturbed' = (disturbed \/ (spawned # NoProcess /\ ~ terminal))
  /\ engine' \in Left /\ broken' = (broken \/ lpc = "copying")
  /\ ends' = "interrupted"

DieLlm ==
  /\ lpc # "down"
  /\ lpc' = "down" /\ own' = NoProcess /\ spawned' = NoProcess
  /\ disturbed' = TRUE /\ ends' = "interrupted"
  /\ engine' \in Left /\ broken' = (broken \/ lpc = "copying")
  /\ UNCHANGED procs

LlmNext ==
  \/ BeginRun \/ Built \/ BuildFails \/ Copied \/ CopyFails \/ NothingToTriage
  \/ NoExecutable \/ Popen \/ PopenReturns \/ PollFails \/ PollSucceeds
  \/ HealthOk \/ HealthFails \/ HealthTimesOut \/ TriageEnds \/ Waited
  \/ WaitTimesOut \/ DieLlm \/ \E terminal \in BOOLEAN : Signal(terminal)
=============================================================================
