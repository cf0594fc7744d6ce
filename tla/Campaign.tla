------------------------------ MODULE Campaign ------------------------------
(***************************************************************************)
(* One defect simulation campaign of edacurry2427:                         *)
(* CampaignDirector.run_campaign with its background thread, the pool of   *)
(* worker processes, the watchdog timer each simulation arms, and the      *)
(* temporary logs through which a killed simulation reaches the director.  *)
(*                                                                         *)
(* Time is not modelled: a timeout that has been started may elapse at     *)
(* any later moment.  The parent's wait and the worker's watchdog use the  *)
(* same number of seconds but start at unrelated moments, so neither is    *)
(* ordered before the other.                                               *)
(*                                                                         *)
(* multiprocessing.Pool, threading.Timer and textual.App are libraries:    *)
(* what is said of them here is what src/ relies on.  A pool shares two    *)
(* pipes among its workers, each behind a lock: "in" hands out the tasks,  *)
(* "out" carries the results.  A process killed while it holds such a lock *)
(* never releases it.                                                      *)
(***************************************************************************)
EXTENDS Integers, Sequences, FiniteSets

CONSTANTS
  NumDefects,   (* len(self._defect_universe)                              *)
  Worker,       (* the pool processes, os.cpu_count() of them              *)
  Leftover      (* defects a log may exist of when the campaign starts     *)

Defect == 1 .. NumDefects        (* positions in the defect universe       *)
NoDefect == 0
Free == "free"                   (* a pipe lock nobody holds               *)
Lost == "lost"                   (* a pipe lock whose holder was killed    *)
Pipe == {"in", "out"}

ASSUME CampaignAssumption ==
  /\ NumDefects \in Nat
  /\ IsFiniteSet(Worker) /\ Worker # {}
  /\ Worker \cap {Free, Lost} = {}
  /\ Leftover \subseteq Defect

VARIABLES
  submitted,    (* tasks handed to apply_async: none or all                *)
  taken,        (* tasks the workers have removed from the pool's queue    *)
  lock,         (* holder of each of the pool's two pipe locks             *)
  wpc,          (* where each worker process is                            *)
  task,         (* the defect a worker is executing                        *)
  outcome,      (* what the task just executed will answer                 *)
  result,       (* the AsyncResult of each defect, as the parent sees it   *)
  dog,          (* the watchdog Timer of each defect's simulation          *)
  host,         (* the worker process that timer lives in                  *)
  log,          (* tmp_logs/<defect>_log.txt                               *)
  tpc,          (* where the campaign thread is                            *)
  cur,          (* the defect whose result the thread is collecting        *)
  report,       (* report_holder                                           *)
  error,        (* error_holder: at most one entry is ever added           *)
  mpc,          (* where the main thread is                                *)
  exitAsked,    (* the thread has asked the dashboard to exit              *)
  interrupted,  (* SIGINT or SIGTERM has reached the main thread           *)
  answer        (* how run_campaign ended                                  *)

poolVars   == <<submitted, taken, lock>>
workerVars == <<wpc, task, outcome>>
dogVars    == <<dog, host>>
threadVars == <<tpc, cur, report, error>>
mainVars   == <<mpc, exitAsked, interrupted, answer>>
vars == <<poolVars, workerVars, result, dogVars, log, threadVars, mainVars>>

-----------------------------------------------------------------------------
(* The values of the variables.                                            *)

Outcome == {"none",     (* nothing yet                                     *)
            "string",   (* the simulator's log, or "[SIMULATION ERROR] ..."*)
            "raised"}   (* the task ended with an exception                *)

LogState == {"absent",
             "stale",   (* left behind by an earlier run that died         *)
             "partial", (* opened for writing by on_timeout, still empty   *)
             "full"}    (* written and synchronised                        *)

DogState == {"unset", "armed", "cancelled", "fired", "writing", "kill", "spent"}

WorkerPc == {"idle", "fetch", "setup", "sim", "reply", "send", "dead"}
ThreadPc == {"submit", "get", "lookup", "read", "finish", "done", "crashed"}
MainPc   == {"boot", "ui", "join", "terminate", "clean", "ended"}

Verdict == [target : Defect, timeout_limit_exceeded : BOOLEAN,
            simulation_result : (Outcome \cup LogState)]

(* The watchdog of d has run out, whatever has become of it since.         *)
Expired(d) == dog[d] \in {"fired", "writing", "kill", "spent"}

PoolOpen == mpc \notin {"clean", "ended"}

-----------------------------------------------------------------------------
Init ==
  /\ submitted = 0 /\ taken = 0
  /\ lock = [p \in Pipe |-> Free]
  /\ wpc = [w \in Worker |-> "idle"]
  /\ task = [w \in Worker |-> NoDefect]
  /\ outcome = [w \in Worker |-> "none"]
  /\ result = [d \in Defect |-> "none"]
  /\ dog = [d \in Defect |-> "unset"]
  /\ host = [d \in Defect |-> Free]
  (* makedirs(exist_ok=True): the log directory of a run that was killed   *)
  (* is used again with what is in it.                                     *)
  /\ \E S \in SUBSET Leftover :
       log = [d \in Defect |-> IF d \in S THEN "stale" ELSE "absent"]
  /\ tpc = "submit" /\ cur = 1 /\ report = <<>> /\ error = "none"
  /\ mpc = "boot" /\ exitAsked = FALSE /\ interrupted = FALSE
  /\ answer = "none"

-----------------------------------------------------------------------------
(* The worker processes.                                                   *)

Goto(w, from, to) == wpc[w] = from /\ wpc' = [wpc EXCEPT ![w] = to]

Acquire(p, w) == lock[p] = Free /\ lock' = [lock EXCEPT ![p] = w]
Release(p)    == lock' = [lock EXCEPT ![p] = Free]

(* An idle worker waits for its next task holding the queue's lock.        *)
LockQueue(w) ==
  /\ Goto(w, "idle", "fetch")
  /\ Acquire("in", w)
  /\ UNCHANGED <<submitted, taken, task, outcome, result, dogVars, log,
                 threadVars, mainVars>>

(* Fault: a task is taken from the queue without there being one.          *)
TakeTaskUnchecked(w) ==
  /\ Goto(w, "fetch", "setup")
  /\ taken' = taken + 1
  /\ task' = [task EXCEPT ![w] = taken + 1]
  /\ Release("in")
  /\ UNCHANGED <<submitted, outcome, result, dogVars, log, threadVars, mainVars>>

TakeTask(w) ==
  /\ Goto(w, "fetch", "setup")
  /\ taken < submitted
  /\ taken' = taken + 1
  /\ task' = [task EXCEPT ![w] = taken + 1]
  /\ Release("in")
  /\ UNCHANGED <<submitted, outcome, result, dogVars, log, threadVars, mainVars>>

(* Injection, the two temporary files and the circuit are in place and the *)
(* watchdog is started.                                                    *)
StartSimulation(w) ==
  LET d == task[w] IN
  /\ Goto(w, "setup", "sim")
  /\ dog' = [dog EXCEPT ![d] = "armed"]
  /\ host' = [host EXCEPT ![d] = w]
  /\ UNCHANGED <<poolVars, task, outcome, result, log, threadVars, mainVars>>

(* Fault: the task's exception is swallowed and nothing is sent back.      *)
SetupFailsSilently(w) ==
  /\ Goto(w, "setup", "idle")
  /\ task' = [task EXCEPT ![w] = NoDefect]
  /\ UNCHANGED <<poolVars, outcome, result, dogVars, log, threadVars, mainVars>>

(* A step before the watchdog fails: injection and the files raise out of  *)
(* the task, simulate's own checks become an error string.                 *)
SetupFails(w) ==
  /\ Goto(w, "setup", "reply")
  /\ outcome' \in {[outcome EXCEPT ![w] = o] : o \in {"raised", "string"}}
  /\ UNCHANGED <<poolVars, task, result, dogVars, log, threadVars, mainVars>>

(* The simulation comes to an end; a timer that has not run out yet is     *)
(* cancelled, one that has cannot be stopped.                              *)
EndSimulation(w) ==
  LET d == task[w] IN
  /\ Goto(w, "sim", "reply")
  /\ outcome' = [outcome EXCEPT ![w] = "string"]
  /\ IF dog[d] = "armed"
     THEN /\ dog' = [dog EXCEPT ![d] = "cancelled"]
          /\ host' = [host EXCEPT ![d] = Free]
     ELSE UNCHANGED dogVars
  /\ UNCHANGED <<poolVars, task, result, log, threadVars, mainVars>>

LockResults(w) ==
  /\ Goto(w, "reply", "send")
  /\ Acquire("out", w)
  /\ UNCHANGED <<submitted, taken, task, outcome, result, dogVars, log,
                 threadVars, mainVars>>

SendResult(w) ==
  /\ Goto(w, "send", "idle")
  /\ result' = [result EXCEPT ![task[w]] = outcome[w]]
  /\ task' = [task EXCEPT ![w] = NoDefect]
  /\ outcome' = [outcome EXCEPT ![w] = "none"]
  /\ Release("out")
  /\ UNCHANGED <<submitted, taken, dogVars, log, threadVars, mainVars>>

(* The pool replaces a process that died by a new one.                     *)
Respawn(w) ==
  /\ PoolOpen
  /\ Goto(w, "dead", "idle")
  /\ UNCHANGED <<poolVars, task, outcome, result, dogVars, log,
                 threadVars, mainVars>>

-----------------------------------------------------------------------------
(* The watchdog threads: Timer and SimulatorEngine.on_timeout.             *)

DogFires(d) ==
  /\ dog[d] = "armed"
  /\ dog' = [dog EXCEPT ![d] = "fired"]
  /\ UNCHANGED <<poolVars, workerVars, result, host, log, threadVars, mainVars>>

(* Fault: the log file is that of the simulation the process runs now, not *)
(* of the one the timer was started for.                                   *)
DogOpensCurrentLog(d) ==
  /\ dog[d] = "fired"
  /\ dog' = [dog EXCEPT ![d] = "writing"]
  /\ log' = [log EXCEPT ![task[host[d]]] = "partial"]
  /\ UNCHANGED <<poolVars, workerVars, result, host, threadVars, mainVars>>

(* open(..., "w") creates or truncates the file before it is written.      *)
DogOpensLog(d) ==
  /\ dog[d] = "fired"
  /\ dog' = [dog EXCEPT ![d] = "writing"]
  /\ log' = [log EXCEPT ![d] = "partial"]
  /\ UNCHANGED <<poolVars, workerVars, result, host, threadVars, mainVars>>

DogWritesLog(d) ==
  /\ dog[d] = "writing"
  /\ dog' = [dog EXCEPT ![d] = "kill"]
  /\ log' = [log EXCEPT ![d] = "full"]
  /\ UNCHANGED <<poolVars, workerVars, result, host, threadVars, mainVars>>

(* A failure to open or to write is printed; the kill is in a finally.     *)
DogFailsToWrite(d) ==
  /\ dog[d] \in {"fired", "writing"}
  /\ dog' = [dog EXCEPT ![d] = "kill"]
  /\ UNCHANGED <<poolVars, workerVars, result, host, log, threadVars, mainVars>>

(* The timers of a dead process are gone with it.                          *)
DogsAfterDeathOf(W) ==
  [d \in Defect |-> IF host[d] \notin W THEN dog[d]
                    ELSE IF Expired(d) THEN "spent" ELSE "cancelled"]

(* os.kill(os.getpid(), SIGTERM): the whole worker process, in whatever it *)
(* is doing by now.  Killed while sending, it may have completed the send. *)
DogKills(d) ==
  LET w == host[d] IN
  /\ dog[d] = "kill"
  /\ wpc' = [wpc EXCEPT ![w] = "dead"]
  /\ task' = [task EXCEPT ![w] = NoDefect]
  /\ outcome' = [outcome EXCEPT ![w] = "none"]
  /\ lock' = [p \in Pipe |-> IF lock[p] = w THEN Lost ELSE lock[p]]
  /\ \/ result' = result
     \/ /\ wpc[w] = "send"
        /\ result' = [result EXCEPT ![task[w]] = outcome[w]]
  /\ dog' = DogsAfterDeathOf({w})
  /\ host' = [e \in Defect |-> IF host[e] = w THEN Free ELSE host[e]]
  /\ UNCHANGED <<submitted, taken, log, threadVars, mainVars>>

-----------------------------------------------------------------------------
(* The campaign thread: _execute_campaign_tasks.                           *)

(* apply_async for every defect; it only queues them.  On a pool that has  *)
(* been terminated it raises, and the outer finally is the thread's last   *)
(* step.                                                                   *)
Submit ==
  /\ tpc = "submit"
  /\ PoolOpen
  /\ submitted' = NumDefects
  /\ tpc' = IF NumDefects = 0 THEN "finish" ELSE "get"
  /\ UNCHANGED <<taken, lock, workerVars, result, dogVars, log, cur, report,
                 error, mainVars>>

SubmitFails ==
  /\ tpc = "submit"
  /\ ~PoolOpen
  /\ tpc' = "finish"
  /\ UNCHANGED <<poolVars, workerVars, result, dogVars, log, cur, report,
                 error, mainVars>>

(* One more verdict, then the next defect or the end of the loop.          *)
Append1(timedOut, what) ==
  /\ report' = Append(report, [target |-> cur,
                              timeout_limit_exceeded |-> timedOut,
                              simulation_result |-> what])
  /\ cur' = cur + 1
  /\ tpc' = IF cur = NumDefects THEN "finish" ELSE "get"
  /\ error' = error

(* break: nothing more is collected.                                       *)
Break(why) ==
  /\ error' = why
  /\ tpc' = "finish"
  /\ UNCHANGED <<cur, report>>

GetReturns ==
  /\ tpc = "get"
  /\ result[cur] = "string"
  /\ Append1(FALSE, result[cur])
  /\ UNCHANGED <<poolVars, workerVars, result, dogVars, log, mainVars>>

(* result.get(timeout) raises: either the task's exception or TimeoutError.*)
GetRaises ==
  /\ tpc = "get"
  /\ result[cur] \in {"raised", "none"}
  /\ tpc' = "lookup"
  /\ UNCHANGED <<poolVars, workerVars, result, dogVars, log, cur, report,
                 error, mainVars>>

LookUpLog ==
  /\ tpc = "lookup"
  /\ IF log[cur] = "absent"
     THEN Break("noLog")
     ELSE tpc' = "read" /\ UNCHANGED <<cur, report, error>>
  /\ UNCHANGED <<poolVars, workerVars, result, dogVars, log, mainVars>>

ReadLog ==
  /\ tpc = "read"
  /\ log[cur] # "absent"
  /\ Append1(TRUE, log[cur])
  /\ UNCHANGED <<poolVars, workerVars, result, dogVars, log, mainVars>>

(* Fault: the loop is left without an entry in error_holder.               *)
ReadFailsSilently ==
  /\ tpc = "read"
  /\ Break("none")
  /\ UNCHANGED <<poolVars, workerVars, result, dogVars, log, mainVars>>

(* The file is gone again, or cannot be read.                              *)
ReadFails ==
  /\ tpc = "read"
  /\ Break("unreadable")
  /\ UNCHANGED <<poolVars, workerVars, result, dogVars, log, mainVars>>

(* Fault: the dashboard is not told to exit.                               *)
FinishThreadQuietly ==
  /\ tpc = "finish"
  /\ tpc' = IF mpc = "ui" THEN "done" ELSE "crashed"
  /\ UNCHANGED <<poolVars, workerVars, result, dogVars, log, cur, report,
                 error, mainVars>>

(* call_from_thread(exit), in the finally: it raises when the dashboard is *)
(* not running, and the thread then ends with that exception.              *)
FinishThread ==
  /\ tpc = "finish"
  /\ IF mpc = "ui"
     THEN tpc' = "done" /\ exitAsked' = TRUE
     ELSE tpc' = "crashed" /\ exitAsked' = exitAsked
  /\ UNCHANGED <<poolVars, workerVars, result, dogVars, log, cur, report,
                 error, mpc, interrupted, answer>>

(* Daemon thread: it stops when the process does.                          *)
Thread ==
  /\ mpc # "ended"
  /\ \/ Submit \/ SubmitFails \/ GetReturns \/ GetRaises \/ LookUpLog
     \/ ReadLog \/ ReadFails \/ FinishThread

-----------------------------------------------------------------------------
(* The main thread: run_campaign after it has started the campaign thread, *)
(* _cleanup and _signal_handler.                                           *)

GotoMain(from, to) == mpc = from /\ mpc' = to

StartDashboard ==
  /\ GotoMain("boot", "ui")
  /\ UNCHANGED <<poolVars, workerVars, result, dogVars, log, threadVars,
                 exitAsked, interrupted, answer>>

DashboardExits ==
  /\ exitAsked
  /\ GotoMain("ui", "join")
  /\ UNCHANGED <<poolVars, workerVars, result, dogVars, log, threadVars,
                 exitAsked, interrupted, answer>>

(* The user closes the dashboard.                                          *)
UserQuits ==
  /\ ~exitAsked
  /\ GotoMain("ui", "join")
  /\ UNCHANGED <<poolVars, workerVars, result, dogVars, log, threadVars,
                 exitAsked, interrupted, answer>>

(* Fault: run_campaign goes on when the dashboard is closed, without       *)
(* joining the campaign thread.                                            *)
JoinThreadNever ==
  /\ GotoMain("join", "terminate")
  /\ UNCHANGED <<poolVars, workerVars, result, dogVars, log, threadVars,
                 exitAsked, interrupted, answer>>

JoinThread ==
  /\ tpc \in {"done", "crashed"}
  /\ GotoMain("join", "terminate")
  /\ UNCHANGED <<poolVars, workerVars, result, dogVars, log, threadVars,
                 exitAsked, interrupted, answer>>

(* Fault: the pool is closed instead of terminated, its workers live on.   *)
TerminatePoolByClosing ==
  /\ GotoMain("terminate", "clean")
  /\ UNCHANGED <<poolVars, workerVars, result, dogVars, log, threadVars,
                 exitAsked, interrupted, answer>>

(* pool.terminate and pool.join: the parent needs both pipe locks itself.  *)
TerminatePool ==
  /\ \A p \in Pipe : lock[p] # Lost
  /\ GotoMain("terminate", "clean")
  /\ wpc' = [w \in Worker |-> "dead"]
  /\ task' = [w \in Worker |-> NoDefect]
  /\ outcome' = [w \in Worker |-> "none"]
  /\ lock' = [p \in Pipe |-> Free]
  /\ dog' = DogsAfterDeathOf(Worker)
  /\ host' = [d \in Defect |-> Free]
  /\ UNCHANGED <<submitted, taken, result, log, threadVars, exitAsked,
                 interrupted, answer>>

(* _clean_tmp_files(True), where a file that cannot be removed is only     *)
(* reported, and then the way out: sys.exit in the signal handler, the     *)
(* first error raised, or the reports returned.                            *)
CleanAndEnd ==
  /\ GotoMain("clean", "ended")
  /\ log' \in {log, [d \in Defect |-> "absent"]}
  /\ answer' = IF interrupted THEN "interrupted"
               ELSE IF error # "none" THEN "raised" ELSE "report"
  /\ UNCHANGED <<poolVars, workerVars, result, dogVars, threadVars, exitAsked,
                 interrupted>>

(* _signal_handler runs in the main thread wherever that is; the cleanup   *)
(* it performs is the one run_campaign ends with.                          *)
Interrupt ==
  /\ mpc # "ended"
  /\ ~interrupted
  /\ interrupted' = TRUE
  /\ mpc' = IF mpc = "clean" THEN "clean" ELSE "terminate"
  /\ UNCHANGED <<poolVars, workerVars, result, dogVars, log, threadVars,
                 exitAsked, answer>>

Main == \/ StartDashboard \/ DashboardExits \/ JoinThread \/ TerminatePool
        \/ CleanAndEnd

-----------------------------------------------------------------------------
WorkerStep(w) ==
  \/ LockQueue(w) \/ TakeTask(w) \/ StartSimulation(w) \/ SetupFails(w)
  \/ EndSimulation(w) \/ LockResults(w) \/ SendResult(w) \/ Respawn(w)

DogStep(d) ==
  \/ DogFires(d) \/ DogOpensLog(d) \/ DogWritesLog(d)
  \/ DogFailsToWrite(d) \/ DogKills(d)

(* The program has returned to its caller, or exited.                      *)
Ended == mpc = "ended" /\ UNCHANGED vars

Next ==
  \/ \E w \in Worker : WorkerStep(w)
  \/ \E d \in Defect : DogStep(d)
  \/ Thread \/ Main \/ UserQuits \/ Interrupt \/ Ended

Spec == Init /\ [][Next]_vars

(* Every thread and process that can go on does so, and a timer elapses.   *)
(* Nothing says that a simulation ever ends by itself, that the user       *)
(* closes the dashboard or that a signal arrives.                          *)
Fairness ==
  /\ WF_vars(Thread)
  /\ WF_vars(Main)
  /\ \A d \in Defect : WF_vars(DogStep(d))
  /\ \A w \in Worker :
       /\ WF_vars(LockQueue(w)) /\ WF_vars(TakeTask(w))
       /\ WF_vars(StartSimulation(w) \/ SetupFails(w))
       /\ WF_vars(LockResults(w)) /\ WF_vars(SendResult(w)) /\ WF_vars(Respawn(w))

FairSpec == Spec /\ Fairness

-----------------------------------------------------------------------------
(* Type invariant.                                                         *)
TypeOK ==
  /\ submitted \in 0 .. NumDefects
  /\ taken \in 0 .. NumDefects
  /\ lock \in [Pipe -> Worker \cup {Free, Lost}]
  /\ wpc \in [Worker -> WorkerPc]
  /\ task \in [Worker -> Defect \cup {NoDefect}]
  /\ outcome \in [Worker -> Outcome]
  /\ result \in [Defect -> Outcome]
  /\ dog \in [Defect -> DogState]
  /\ host \in [Defect -> Worker \cup {Free}]
  /\ log \in [Defect -> LogState]
  /\ tpc \in ThreadPc
  /\ cur \in 1 .. NumDefects + 1
  /\ report \in Seq(Verdict)
  /\ error \in {"none", "noLog", "unreadable"}
  /\ mpc \in MainPc
  /\ exitAsked \in BOOLEAN
  /\ interrupted \in BOOLEAN
  /\ answer \in {"none", "report", "raised", "interrupted"}

(* What run_campaign returns holds one verdict for each defect of the      *)
(* universe, in its order: a campaign that lost a defect, that stopped     *)
(* early or whose dashboard was closed never returns a partial list.       *)
CompleteOrRaised ==
  answer = "report" =>
    /\ Len(report) = NumDefects
    /\ \A i \in Defect : report[i].target = i

(* A verdict "timeout limit exceeded" is about a simulation whose own      *)
(* watchdog ran out, unless its log is a leftover of an earlier run: no    *)
(* other watchdog, crash or exception produces one.                        *)
TimeoutJustified ==
  \A i \in 1 .. Len(report) :
    (report[i].timeout_limit_exceeded /\ report[i].simulation_result # "stale")
      => Expired(report[i].target)

(* A defect a worker took and no longer runs has its result delivered,     *)
(* unless some watchdog has killed a worker or the pool is gone: the pool  *)
(* alone loses nothing.                                                    *)
LossExplained ==
  \A d \in 1 .. taken :
    (result[d] = "none" /\ PoolOpen /\ \A w \in Worker : task[w] # d)
      => \E e \in Defect : dog[e] = "spent"

(* Once the workers are terminated nothing writes a log again: the logs    *)
(* are removed only after their writers are gone, on the normal way out,   *)
(* after an error and in the signal handler.                               *)
OnlyRemovesLogs == \A d \in Defect : log'[d] = log[d] \/ log'[d] = "absent"

NoWriterAfterPool == [][~PoolOpen => OnlyRemovesLogs]_vars

(* A killed process can hold one of the pool's pipe locks for ever.        *)
LockLost == \E p \in Pipe : lock[p] = Lost

(* The thread was over before the dashboard ran, and nobody closes it.     *)
DashboardOrphaned == mpc = "ui" /\ tpc = "crashed"

(* run_campaign comes to an end whatever the simulations do, unless a      *)
(* watchdog killed a worker that held a pipe lock or the dashboard was     *)
(* never told to exit: those two are all that can keep it from ending.     *)
CampaignEnds == <>(mpc = "ended" \/ LockLost \/ DashboardOrphaned)

-----------------------------------------------------------------------------
(* run_campaign keeps the promise of CampaignContract: all the verdicts in *)
(* order, or an exception and none, whatever the pool, the watchdogs, the  *)
(* dashboard and a signal do meanwhile.                                    *)
Contract == INSTANCE CampaignContract
  WITH Payload <- Outcome \cup LogState,
       verdicts <- report, failed <- (error # "none")

ImplementsContract == Contract!CSpec

-----------------------------------------------------------------------------
(* What comments and texts of the program say, and the code does not do.   *)

(* "Stop timer in case simulation succeded": a simulation that has ended   *)
(* has no watchdog left that is about to kill its worker process.          *)
EndedSimulationsAreSafe ==
  \A d \in Defect : dog[d] = "kill" => task[host[d]] = d /\ wpc[host[d]] = "sim"

(* "Shutdown executor and terminate all running child processes            *)
(* immediately": after a signal every worker process is dead.              *)
SignalTerminates == interrupted ~> (\A w \in Worker : wpc[w] = "dead")

=============================================================================
