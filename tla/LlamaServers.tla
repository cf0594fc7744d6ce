---------------------------- MODULE LlamaServers ----------------------------
(***************************************************************************)
(* The llama-server processes of a host, as the two programs that start    *)
(* them see them: a process takes its port if that is free and ends if it  *)
(* is not; it answers once the model is loaded; a signal makes it stop;    *)
(* and it may end at any moment of itself.  It does not end with the       *)
(* program that started it.                                                *)
(***************************************************************************)
EXTENDS Naturals, Sequences, FiniteSets

CONSTANTS Pid,   \* the processes
          Port   \* the ports they are told to listen on

ASSUME PidAssumption == "none" \notin Pid

VARIABLES
  procs,     \* for each process its state and port
  disturbed  \* whether a program was killed or stopped in Popen, or a server died

AliveStates == {"starting", "loading", "ready", "stopping"}
ProcStates == AliveStates \cup {"dead"}

Alive(p) == procs[p].state \in AliveStates

(* Nobody has told the process to stop.                                    *)
Young(p) == procs[p].state \in {"starting", "loading", "ready"}

(* A process keeps its port from the moment it has bound it.               *)
Holds(p, port) ==
  procs[p].port = port /\ procs[p].state \in {"loading", "ready", "stopping"}

(* GET /health, or a request, is answered by whoever is ready on the port.  *)
Answers(port) == \E p \in Pid : procs[p].state = "ready" /\ procs[p].port = port

(* Popen: a process that did not exist, or is forgotten.                   *)
Launched(p, port) == [procs EXCEPT ![p] = [state |-> "starting", port |-> port]]

(* SIGTERM or SIGINT to the processes of S: one that serves shuts down.    *)
Hit(state) == CASE state \in {"loading", "ready"} -> "stopping"
                [] state = "starting" -> "dead"
                [] OTHER -> state
Signalled(S) ==
  [p \in Pid |-> IF p \in S THEN [procs[p] EXCEPT !.state = Hit(@)] ELSE procs[p]]

Killed(p) == [procs EXCEPT ![p].state = "dead"]

-----------------------------------------------------------------------------
Bind(p) ==
  /\ procs[p].state = "starting"
  /\ procs' = [procs EXCEPT ![p].state =
                 IF \E q \in Pid : Holds(q, procs[p].port) THEN "dead" ELSE "loading"]
  /\ UNCHANGED disturbed

Load(p) ==
  /\ procs[p].state = "loading"
  /\ procs' = [procs EXCEPT ![p].state = "ready"]
  /\ UNCHANGED disturbed

Stop(p) ==
  /\ procs[p].state = "stopping"
  /\ procs' = Killed(p)
  /\ UNCHANGED disturbed

(* Out of memory, or of a driver.                                          *)
Fail(p) ==
  /\ Young(p)
  /\ procs' = Killed(p)
  /\ disturbed' = TRUE
=============================================================================
