---------------------------- MODULE CampaignProofs ----------------------------
(***************************************************************************)
(* Proofs about Campaign, for every defect universe, every number of pool  *)
(* processes and every set of leftover logs.                               *)
(***************************************************************************)
EXTENDS Campaign, TLAPS

(* A task belongs to one worker at a time, is a defect that was taken from *)
(* the queue, and has no watchdog before its simulation starts.            *)
TaskInv ==
  /\ \A w \in Worker :
       /\ task[w] \in 0 .. taken
       /\ (task[w] # NoDefect) <=> (wpc[w] \in {"setup", "sim", "reply", "send"})
       /\ wpc[w] = "setup" => dog[task[w]] = "unset"
       /\ wpc[w] \in {"reply", "send"} => outcome[w] # "none"
  /\ \A v, w \in Worker : v # w /\ task[v] = task[w] => task[v] = NoDefect
  /\ \A d \in Defect : d > taken => dog[d] = "unset"

(* A timer that is running lives in some worker process, any other in none.*)
HostInv ==
  \A d \in Defect :
    (host[d] # Free) <=> (dog[d] \in {"armed", "fired", "writing", "kill"})

(* When the pool is gone so are its workers and, by HostInv, their timers. *)
PoolInv ==
  ~PoolOpen =>
    /\ \A w \in Worker : wpc[w] = "dead"
    /\ \A d \in Defect : host[d] = Free

(* A log of this campaign was opened by the watchdog of its own defect.    *)
LogInv ==
  \A d \in Defect : log[d] \in {"partial", "full"} => Expired(d)

(* While the thread collects there is a defect to collect.                *)
LoopInv ==
  /\ tpc = "submit" => cur = 1
  /\ tpc \in {"get", "lookup", "read"} => cur <= NumDefects

(* The thread has judged the defects before cur, in order, and it is only  *)
(* past the loop when it has judged all or has recorded an error, or when  *)
(* a signal had the pool terminated.                                       *)
CollectInv ==
  /\ Len(report) = cur - 1
  /\ \A i \in 1 .. Len(report) : report[i].target = i
  /\ tpc \in {"submit", "get", "lookup", "read"} => error = "none"
  /\ (tpc \in {"finish", "done", "crashed"} /\ error = "none" /\ ~interrupted)
       => cur = NumDefects + 1

(* Without a signal the main thread leaves the dashboard only to join.     *)
JoinInv ==
  (mpc \in {"terminate", "clean", "ended"} /\ ~interrupted)
    => tpc \in {"done", "crashed"}

AnswerInv ==
  /\ answer = "none" <=> mpc # "ended"
  /\ answer = "report" => ~interrupted /\ error = "none"
  /\ answer = "raised" => error # "none"

IInv ==
  /\ TypeOK /\ TaskInv /\ HostInv /\ PoolInv /\ LogInv /\ LoopInv /\ CollectInv
  /\ JoinInv /\ AnswerInv /\ TimeoutJustified /\ LossExplained

-----------------------------------------------------------------------------
(* Which part of the state each kind of process leaves alone.              *)

(* A worker leaves the logs, the campaign thread and the main thread alone. *)
LEMMA WorkerFrame ==
  ASSUME NEW w \in Worker, WorkerStep(w)
  PROVE  UNCHANGED <<log, threadVars, mainVars>>
BY DEF WorkerStep, LockQueue, TakeTask, StartSimulation, SetupFails,
       EndSimulation, LockResults, SendResult, Respawn

(* A watchdog leaves the verdicts, the main thread and the pool's counts   *)
(* alone; only its kill reaches other processes.                           *)
LEMMA DogFrame ==
  ASSUME NEW d \in Defect, DogStep(d)
  PROVE  UNCHANGED <<submitted, taken, threadVars, mainVars>>
BY DEF DogStep, DogFires, DogOpensLog, DogWritesLog, DogFailsToWrite, DogKills,
       poolVars

(* The campaign thread runs in the parent: no worker, timer or log changes. *)
LEMMA ThreadFrame ==
  ASSUME Thread
  PROVE  /\ UNCHANGED <<taken, lock, workerVars, result, dogVars, log>>
         /\ UNCHANGED <<mpc, interrupted, answer>>
BY DEF Thread, Submit, SubmitFails, GetReturns, GetRaises, LookUpLog, ReadLog,
       ReadFails, FinishThread, poolVars, mainVars

(* The main thread and signals leave the campaign thread's data alone.     *)
LEMMA MainFrame ==
  ASSUME Main \/ UserQuits \/ Interrupt
  PROVE  UNCHANGED <<submitted, taken, result, threadVars>>
BY DEF Main, StartDashboard, DashboardExits, JoinThread, TerminatePool,
       CleanAndEnd, UserQuits, Interrupt, poolVars

-----------------------------------------------------------------------------
(* Each part of IInv is preserved by every step, given the parts before it. *)

(* Types.                                                                  *)
LEMMA TypeStep ==
  ASSUME TypeOK, HostInv, LoopInv, [Next]_vars
  PROVE  TypeOK'
<1>. USE DEF TypeOK, HostInv, LoopInv, poolVars, workerVars, dogVars,
          threadVars, mainVars
<1>1. ASSUME NEW w \in Worker, LockQueue(w)
      PROVE  TypeOK'
  BY <1>1 DEF LockQueue, Goto, Acquire, WorkerPc, Pipe
<1>2. ASSUME NEW w \in Worker, TakeTask(w)
      PROVE  TypeOK'
  BY <1>2, CampaignAssumption
  DEF TakeTask, Goto, Release, WorkerPc, Pipe, Defect
<1>3. ASSUME NEW w \in Worker, StartSimulation(w)
      PROVE  TypeOK'
  BY <1>3 DEF StartSimulation, Goto, WorkerPc, DogState
<1>4. ASSUME NEW w \in Worker, SetupFails(w)
      PROVE  TypeOK'
  BY <1>4 DEF SetupFails, Goto, WorkerPc, Outcome
<1>5. ASSUME NEW w \in Worker, EndSimulation(w)
      PROVE  TypeOK'
  BY <1>5 DEF EndSimulation, Goto, WorkerPc, DogState, Outcome
<1>6. ASSUME NEW w \in Worker, LockResults(w)
      PROVE  TypeOK'
  BY <1>6 DEF LockResults, Goto, Acquire, WorkerPc, Pipe
<1>7. ASSUME NEW w \in Worker, SendResult(w)
      PROVE  TypeOK'
  BY <1>7 DEF SendResult, Goto, Release, WorkerPc, Pipe, Outcome
<1>8. ASSUME NEW w \in Worker, Respawn(w)
      PROVE  TypeOK'
  BY <1>8 DEF Respawn, Goto, WorkerPc
<1>9. ASSUME NEW d \in Defect, DogFires(d)
      PROVE  TypeOK'
  BY <1>9 DEF DogFires, DogState
<1>10. ASSUME NEW d \in Defect, DogOpensLog(d)
      PROVE  TypeOK'
  BY <1>10 DEF DogOpensLog, DogState, LogState
<1>11. ASSUME NEW d \in Defect, DogWritesLog(d)
      PROVE  TypeOK'
  BY <1>11 DEF DogWritesLog, DogState, LogState
<1>12. ASSUME NEW d \in Defect, DogFailsToWrite(d)
      PROVE  TypeOK'
  BY <1>12 DEF DogFailsToWrite, DogState
<1>13. ASSUME NEW d \in Defect, DogKills(d)
      PROVE  TypeOK'
  BY <1>13 DEF DogKills, DogsAfterDeathOf, WorkerPc, DogState, Outcome, Pipe
<1>14. CASE Submit
  BY <1>14, CampaignAssumption DEF Submit, ThreadPc
<1>15. CASE SubmitFails
  BY <1>15 DEF SubmitFails, ThreadPc
<1>16. CASE GetReturns
  <2>1. cur \in Defect /\ cur + 1 \in 1 .. NumDefects + 1
    BY <1>16, CampaignAssumption DEF GetReturns, Defect
  <2>2. [target |-> cur, timeout_limit_exceeded |-> FALSE,
         simulation_result |-> result[cur]] \in Verdict
    BY <2>1 DEF Verdict
  <2>3. report' \in Seq(Verdict)
    BY <1>16, <2>2 DEF GetReturns, Append1
  <2>. QED
    BY <1>16, <2>1, <2>3 DEF GetReturns, Append1, ThreadPc
<1>17. CASE GetRaises
  BY <1>17 DEF GetRaises, ThreadPc
<1>18. CASE LookUpLog
  BY <1>18 DEF LookUpLog, Break, ThreadPc
<1>19. CASE ReadLog
  <2>1. cur \in Defect /\ cur + 1 \in 1 .. NumDefects + 1
    BY <1>19, CampaignAssumption DEF ReadLog, Defect
  <2>2. [target |-> cur, timeout_limit_exceeded |-> TRUE,
         simulation_result |-> log[cur]] \in Verdict
    BY <2>1 DEF Verdict
  <2>3. report' \in Seq(Verdict)
    BY <1>19, <2>2 DEF ReadLog, Append1
  <2>. QED
    BY <1>19, <2>1, <2>3 DEF ReadLog, Append1, ThreadPc
<1>20. CASE ReadFails
  BY <1>20 DEF ReadFails, Break, ThreadPc
<1>21. CASE FinishThread
  BY <1>21 DEF FinishThread, ThreadPc
<1>22. CASE StartDashboard
  BY <1>22 DEF StartDashboard, GotoMain, MainPc
<1>23. CASE DashboardExits
  BY <1>23 DEF DashboardExits, GotoMain, MainPc
<1>24. CASE JoinThread
  BY <1>24 DEF JoinThread, GotoMain, MainPc
<1>25. CASE TerminatePool
  BY <1>25
  DEF TerminatePool, GotoMain, DogsAfterDeathOf, MainPc, WorkerPc, DogState,
      Outcome
<1>26. CASE CleanAndEnd
  BY <1>26 DEF CleanAndEnd, GotoMain, MainPc, LogState
<1>27. CASE UserQuits
  BY <1>27 DEF UserQuits, GotoMain, MainPc
<1>28. CASE Interrupt
  BY <1>28 DEF Interrupt, MainPc
<1>29. CASE UNCHANGED vars
  BY <1>29 DEF vars
<1>. QED
  BY <1>1, <1>2, <1>3, <1>4, <1>5, <1>6, <1>7, <1>8, <1>9, <1>10, <1>11,
     <1>12, <1>13, <1>14, <1>15, <1>16, <1>17, <1>18, <1>19, <1>20,
     <1>21, <1>22, <1>23, <1>24, <1>25, <1>26, <1>27, <1>28, <1>29
  DEF Next, WorkerStep, DogStep, Thread, Main, Ended

(* A watchdog that is running lives in the process that simulates its      *)
(* defect, and that process is alive.                                      *)
LEMMA HostStep ==
  ASSUME TypeOK, HostInv, [Next]_vars
  PROVE  HostInv'
<1>. USE DEF TypeOK, HostInv, dogVars
<1>1. ASSUME NEW w \in Worker, StartSimulation(w)
      PROVE  HostInv'
  BY <1>1, CampaignAssumption
  DEF StartSimulation, Goto
<1>2. ASSUME NEW w \in Worker, EndSimulation(w)
      PROVE  HostInv'
  BY <1>2
  DEF EndSimulation, Goto
<1>3. ASSUME NEW w \in Worker,
             LockQueue(w) \/ TakeTask(w) \/ SetupFails(w)
             \/ LockResults(w) \/ SendResult(w) \/ Respawn(w)
      PROVE  HostInv'
  BY <1>3
  DEF LockQueue, Goto, Acquire, TakeTask, Release, SetupFails, LockResults,
      SendResult, Respawn
<1>4. ASSUME NEW d \in Defect, DogFires(d)
      PROVE  HostInv'
  BY <1>4
  DEF DogFires
<1>5. ASSUME NEW d \in Defect, DogOpensLog(d)
      PROVE  HostInv'
  BY <1>5
  DEF DogOpensLog
<1>6. ASSUME NEW d \in Defect, DogWritesLog(d)
      PROVE  HostInv'
  BY <1>6
  DEF DogWritesLog
<1>7. ASSUME NEW d \in Defect, DogFailsToWrite(d)
      PROVE  HostInv'
  BY <1>7
  DEF DogFailsToWrite
<1>8. ASSUME NEW d \in Defect, DogKills(d)
      PROVE  HostInv'
  BY <1>8
  DEF DogKills, DogsAfterDeathOf, Expired
<1>9. CASE Thread
  BY <1>9, ThreadFrame
<1>10. CASE TerminatePool
  BY <1>10
  DEF TerminatePool, GotoMain, DogsAfterDeathOf, Expired
<1>11. CASE StartDashboard \/ DashboardExits \/ JoinThread
           \/ CleanAndEnd
  BY <1>11
  DEF StartDashboard, GotoMain, DashboardExits, JoinThread, CleanAndEnd
<1>12. CASE UserQuits
  BY <1>12
  DEF UserQuits, GotoMain
<1>13. CASE Interrupt
  BY <1>13
  DEF Interrupt
<1>14. CASE UNCHANGED vars
  BY <1>14 DEF vars
<1>. QED
  BY <1>1, <1>2, <1>3, <1>4, <1>5, <1>6, <1>7, <1>8, <1>9, <1>10, <1>11,
     <1>12, <1>13, <1>14
  DEF Next, WorkerStep, DogStep, Main, Ended

(* The thread's position in the universe agrees with its program counter.  *)
LEMMA LoopStep ==
  ASSUME TypeOK, LoopInv, [Next]_vars
  PROVE  LoopInv'
<1>. USE DEF TypeOK, LoopInv, poolVars, workerVars, dogVars, threadVars,
          mainVars
<1>1. ASSUME NEW w \in Worker, WorkerStep(w)
      PROVE  LoopInv'
  BY <1>1, WorkerFrame
<1>2. ASSUME NEW d \in Defect, DogStep(d)
      PROVE  LoopInv'
  BY <1>2, DogFrame
<1>3. CASE Submit
  BY <1>3, CampaignAssumption
  DEF Submit
<1>4. CASE SubmitFails
  BY <1>4
  DEF SubmitFails
<1>5. CASE GetReturns
  BY <1>5, CampaignAssumption
  DEF GetReturns, Append1
<1>6. CASE GetRaises
  BY <1>6
  DEF GetRaises
<1>7. CASE LookUpLog
  BY <1>7
  DEF LookUpLog, Break
<1>8. CASE ReadLog
  BY <1>8, CampaignAssumption
  DEF ReadLog, Append1
<1>9. CASE ReadFails
  BY <1>9
  DEF ReadFails, Break
<1>10. CASE FinishThread
  BY <1>10
  DEF FinishThread
<1>11. CASE Main
  BY <1>11, MainFrame
<1>12. CASE UserQuits
  BY <1>12
  DEF UserQuits, GotoMain
<1>13. CASE Interrupt
  BY <1>13
  DEF Interrupt
<1>14. CASE UNCHANGED vars
  BY <1>14 DEF vars
<1>. QED
  BY <1>1, <1>2, <1>3, <1>4, <1>5, <1>6, <1>7, <1>8, <1>9, <1>10, <1>11,
     <1>12, <1>13, <1>14
  DEF Next, Thread, Ended

(* A task is held by one worker at a time, after it has been submitted.    *)
LEMMA TaskStep ==
  ASSUME TypeOK, HostInv, TaskInv, [Next]_vars
  PROVE  TaskInv'
<1>. USE DEF TypeOK, HostInv, TaskInv, NoDefect, Defect, poolVars,
          workerVars, dogVars, threadVars, mainVars
<1>1. ASSUME NEW w \in Worker, LockQueue(w)
      PROVE  TaskInv'
  BY <1>1, CampaignAssumption
  DEF LockQueue, Goto, Acquire
<1>2. ASSUME NEW w \in Worker, TakeTask(w)
      PROVE  TaskInv'
  BY <1>2, CampaignAssumption
  DEF TakeTask, Goto, Release
<1>3. ASSUME NEW w \in Worker, StartSimulation(w)
      PROVE  TaskInv'
  BY <1>3, CampaignAssumption
  DEF StartSimulation, Goto
<1>4. ASSUME NEW w \in Worker, SetupFails(w)
      PROVE  TaskInv'
  BY <1>4, CampaignAssumption
  DEF SetupFails, Goto
<1>5. ASSUME NEW w \in Worker, EndSimulation(w)
      PROVE  TaskInv'
  BY <1>5, CampaignAssumption
  DEF EndSimulation, Goto
<1>6. ASSUME NEW w \in Worker, LockResults(w)
      PROVE  TaskInv'
  BY <1>6, CampaignAssumption
  DEF LockResults, Goto, Acquire
<1>7. ASSUME NEW w \in Worker, SendResult(w)
      PROVE  TaskInv'
  BY <1>7, CampaignAssumption
  DEF SendResult, Goto, Release
<1>8. ASSUME NEW w \in Worker, Respawn(w)
      PROVE  TaskInv'
  BY <1>8, CampaignAssumption
  DEF Respawn, Goto
<1>9. ASSUME NEW d \in Defect, DogFires(d)
      PROVE  TaskInv'
  BY <1>9, CampaignAssumption
  DEF DogFires
<1>10. ASSUME NEW d \in Defect, DogOpensLog(d)
      PROVE  TaskInv'
  BY <1>10, CampaignAssumption
  DEF DogOpensLog
<1>11. ASSUME NEW d \in Defect, DogWritesLog(d)
      PROVE  TaskInv'
  BY <1>11, CampaignAssumption
  DEF DogWritesLog
<1>12. ASSUME NEW d \in Defect, DogFailsToWrite(d)
      PROVE  TaskInv'
  BY <1>12, CampaignAssumption
  DEF DogFailsToWrite
<1>13. ASSUME NEW d \in Defect, DogKills(d)
      PROVE  TaskInv'
  <2>. DEFINE x == host[d]
  <2>0. dog[d] = "kill"
    BY <1>13 DEF DogKills
  <2>1. x \in Worker
    <3>1. host[d] \in Worker \cup {Free}
      BY DEF TypeOK
    <3>. QED  BY <2>0, <3>1 DEF HostInv
  <2>2. /\ wpc' = [wpc EXCEPT ![x] = "dead"]
        /\ task' = [task EXCEPT ![x] = NoDefect]
        /\ outcome' = [outcome EXCEPT ![x] = "none"]
        /\ taken' = taken
    BY <1>13 DEF DogKills
  <2>3. \A e \in Defect : dog[e] = "unset" => dog'[e] = "unset"
    BY <1>13, CampaignAssumption DEF DogKills, DogsAfterDeathOf
  <2>. HIDE DEF x
  <2>4. ASSUME NEW w \in Worker
        PROVE  /\ task'[w] \in 0 .. taken'
               /\ (task'[w] # NoDefect)
                    <=> (wpc'[w] \in {"setup", "sim", "reply", "send"})
               /\ wpc'[w] = "setup" => dog'[task'[w]] = "unset"
               /\ wpc'[w] \in {"reply", "send"} => outcome'[w] # "none"
    <3>1. CASE w = x
      BY <2>1, <2>2, <3>1
    <3>2. CASE w # x
      BY <2>1, <2>2, <2>3, <3>2
    <3>. QED
      BY <3>1, <3>2
  <2>5. \A v, w \in Worker :
          v # w /\ task'[v] = task'[w] => task'[v] = NoDefect
    BY <2>1, <2>2
  <2>6. \A e \in Defect : e > taken' => dog'[e] = "unset"
    BY <2>2, <2>3
  <2>. QED
    BY <2>4, <2>5, <2>6
<1>14. CASE Thread
  BY <1>14, ThreadFrame
<1>15. CASE TerminatePool
  BY <1>15, CampaignAssumption
  DEF TerminatePool, GotoMain, DogsAfterDeathOf, Expired
<1>16. CASE StartDashboard \/ DashboardExits \/ JoinThread
           \/ CleanAndEnd
  BY <1>16, CampaignAssumption
  DEF StartDashboard, GotoMain, DashboardExits, JoinThread, CleanAndEnd
<1>17. CASE UserQuits
  BY <1>17, CampaignAssumption
  DEF UserQuits, GotoMain
<1>18. CASE Interrupt
  BY <1>18, CampaignAssumption
  DEF Interrupt
<1>19. CASE UNCHANGED vars
  BY <1>19 DEF vars
<1>. QED
  BY <1>1, <1>2, <1>3, <1>4, <1>5, <1>6, <1>7, <1>8, <1>9, <1>10, <1>11,
     <1>12, <1>13, <1>14, <1>15, <1>16, <1>17, <1>18, <1>19
  DEF Next, WorkerStep, DogStep, Main, Ended

(* A watchdog that has run out stays so, and one that has killed too: a    *)
(* defect is simulated once, so its timer is never armed a second time.    *)
LEMMA ExpiredStays ==
  ASSUME TypeOK, HostInv, TaskInv, NEW e \in Defect, Expired(e), [Next]_vars
  PROVE  Expired(e)'
<1>. USE DEF TypeOK, HostInv, TaskInv, Expired, poolVars, workerVars,
          dogVars, threadVars, mainVars
<1>1. ASSUME NEW w \in Worker, StartSimulation(w)
      PROVE  Expired(e)'
  <2>1. task[w] # e
    BY <1>1 DEF StartSimulation, Goto
  <2>. QED
    BY <1>1, <2>1 DEF StartSimulation, Goto
<1>2. ASSUME NEW w \in Worker, EndSimulation(w)
      PROVE  Expired(e)'
  <2>1. \/ dog' = dog
        \/ /\ dog[task[w]] = "armed"
           /\ dog' = [dog EXCEPT ![task[w]] = "cancelled"]
    BY <1>2 DEF EndSimulation
  <2>. QED
    BY <2>1
<1>3. ASSUME NEW w \in Worker,
             LockQueue(w) \/ TakeTask(w) \/ SetupFails(w)
             \/ LockResults(w) \/ SendResult(w) \/ Respawn(w)
      PROVE  Expired(e)'
  BY <1>3
  DEF LockQueue, Goto, Acquire, TakeTask, Release, SetupFails, LockResults,
      SendResult, Respawn
<1>4. ASSUME NEW d \in Defect, DogFires(d)
      PROVE  Expired(e)'
  BY <1>4
  DEF DogFires
<1>5. ASSUME NEW d \in Defect, DogOpensLog(d)
      PROVE  Expired(e)'
  BY <1>5
  DEF DogOpensLog
<1>6. ASSUME NEW d \in Defect, DogWritesLog(d)
      PROVE  Expired(e)'
  BY <1>6
  DEF DogWritesLog
<1>7. ASSUME NEW d \in Defect, DogFailsToWrite(d)
      PROVE  Expired(e)'
  BY <1>7
  DEF DogFailsToWrite
<1>8. ASSUME NEW d \in Defect, DogKills(d)
      PROVE  Expired(e)'
  <2>1. dog'[e] = "spent" \/ dog'[e] = dog[e]
    BY <1>8 DEF DogKills, DogsAfterDeathOf
  <2>. QED
    BY <2>1
<1>9. CASE Thread
  BY <1>9, ThreadFrame
<1>10. CASE TerminatePool
  <2>1. dog'[e] = "spent" \/ dog'[e] = dog[e]
    BY <1>10 DEF TerminatePool, DogsAfterDeathOf
  <2>. QED
    BY <2>1
<1>11. CASE StartDashboard \/ DashboardExits \/ JoinThread
           \/ CleanAndEnd
  BY <1>11
  DEF StartDashboard, GotoMain, DashboardExits, JoinThread, CleanAndEnd
<1>12. CASE UserQuits
  BY <1>12
  DEF UserQuits, GotoMain
<1>13. CASE Interrupt
  BY <1>13
  DEF Interrupt
<1>14. CASE UNCHANGED vars
  BY <1>14 DEF vars
<1>. QED
  BY <1>1, <1>2, <1>3, <1>4, <1>5, <1>6, <1>7, <1>8, <1>9, <1>10, <1>11,
     <1>12, <1>13, <1>14
  DEF Next, WorkerStep, DogStep, Main, Ended

(* A watchdog that has killed its process is never armed again.            *)
LEMMA SpentStays ==
  ASSUME TypeOK, HostInv, TaskInv, NEW e \in Defect, dog[e] = "spent",
         [Next]_vars
  PROVE  dog'[e] = "spent"
<1>. USE DEF TypeOK, HostInv, TaskInv, poolVars, workerVars, dogVars,
          threadVars, mainVars
<1>1. ASSUME NEW w \in Worker, StartSimulation(w)
      PROVE  dog'[e] = "spent"
  <2>1. task[w] # e
    BY <1>1 DEF StartSimulation, Goto
  <2>. QED
    BY <1>1, <2>1 DEF StartSimulation, Goto
<1>2. ASSUME NEW w \in Worker, EndSimulation(w)
      PROVE  dog'[e] = "spent"
  <2>1. \/ dog' = dog
        \/ /\ dog[task[w]] = "armed"
           /\ dog' = [dog EXCEPT ![task[w]] = "cancelled"]
    BY <1>2 DEF EndSimulation
  <2>. QED
    BY <2>1
<1>3. ASSUME NEW w \in Worker,
             LockQueue(w) \/ TakeTask(w) \/ SetupFails(w)
             \/ LockResults(w) \/ SendResult(w) \/ Respawn(w)
      PROVE  dog'[e] = "spent"
  BY <1>3
  DEF LockQueue, Goto, Acquire, TakeTask, Release, SetupFails, LockResults,
      SendResult, Respawn
<1>4. ASSUME NEW d \in Defect, DogFires(d)
      PROVE  dog'[e] = "spent"
  BY <1>4
  DEF DogFires
<1>5. ASSUME NEW d \in Defect, DogOpensLog(d)
      PROVE  dog'[e] = "spent"
  BY <1>5
  DEF DogOpensLog
<1>6. ASSUME NEW d \in Defect, DogWritesLog(d)
      PROVE  dog'[e] = "spent"
  BY <1>6
  DEF DogWritesLog
<1>7. ASSUME NEW d \in Defect, DogFailsToWrite(d)
      PROVE  dog'[e] = "spent"
  BY <1>7
  DEF DogFailsToWrite
<1>8. ASSUME NEW d \in Defect, DogKills(d)
      PROVE  dog'[e] = "spent"
  <2>1. dog'[e] = "spent" \/ dog'[e] = dog[e]
    BY <1>8 DEF DogKills, DogsAfterDeathOf, Expired
  <2>. QED
    BY <2>1
<1>9. CASE Thread
  BY <1>9, ThreadFrame
<1>10. CASE TerminatePool
  <2>1. dog'[e] = "spent" \/ dog'[e] = dog[e]
    BY <1>10 DEF TerminatePool, DogsAfterDeathOf, Expired
  <2>. QED
    BY <2>1
<1>11. CASE StartDashboard \/ DashboardExits \/ JoinThread
           \/ CleanAndEnd
  BY <1>11
  DEF StartDashboard, GotoMain, DashboardExits, JoinThread, CleanAndEnd
<1>12. CASE UserQuits
  BY <1>12
  DEF UserQuits, GotoMain
<1>13. CASE Interrupt
  BY <1>13
  DEF Interrupt
<1>14. CASE UNCHANGED vars
  BY <1>14 DEF vars
<1>. QED
  BY <1>1, <1>2, <1>3, <1>4, <1>5, <1>6, <1>7, <1>8, <1>9, <1>10, <1>11,
     <1>12, <1>13, <1>14
  DEF Next, WorkerStep, DogStep, Main, Ended

(* A terminated pool has no process left.                                  *)
LEMMA PoolStep ==
  ASSUME TypeOK, HostInv, TaskInv, PoolInv, [Next]_vars
  PROVE  PoolInv'
<1>. USE DEF TypeOK, HostInv, TaskInv, PoolInv, PoolOpen, MainPc, poolVars,
          workerVars, dogVars, threadVars, mainVars
<1>1. ASSUME NEW w \in Worker, LockQueue(w)
      PROVE  PoolInv'
  BY <1>1, CampaignAssumption
  DEF LockQueue, Goto, Acquire
<1>2. ASSUME NEW w \in Worker, TakeTask(w)
      PROVE  PoolInv'
  BY <1>2, CampaignAssumption
  DEF TakeTask, Goto, Release
<1>3. ASSUME NEW w \in Worker, StartSimulation(w)
      PROVE  PoolInv'
  BY <1>3, CampaignAssumption
  DEF StartSimulation, Goto
<1>4. ASSUME NEW w \in Worker, SetupFails(w)
      PROVE  PoolInv'
  BY <1>4, CampaignAssumption
  DEF SetupFails, Goto
<1>5. ASSUME NEW w \in Worker, EndSimulation(w)
      PROVE  PoolInv'
  BY <1>5, CampaignAssumption
  DEF EndSimulation, Goto
<1>6. ASSUME NEW w \in Worker, LockResults(w)
      PROVE  PoolInv'
  BY <1>6, CampaignAssumption
  DEF LockResults, Goto, Acquire
<1>7. ASSUME NEW w \in Worker, SendResult(w)
      PROVE  PoolInv'
  BY <1>7, CampaignAssumption
  DEF SendResult, Goto, Release
<1>8. ASSUME NEW w \in Worker, Respawn(w)
      PROVE  PoolInv'
  BY <1>8, CampaignAssumption
  DEF Respawn, Goto
<1>9. ASSUME NEW d \in Defect, DogFires(d)
      PROVE  PoolInv'
  BY <1>9, CampaignAssumption
  DEF DogFires
<1>10. ASSUME NEW d \in Defect, DogOpensLog(d)
      PROVE  PoolInv'
  BY <1>10, CampaignAssumption
  DEF DogOpensLog
<1>11. ASSUME NEW d \in Defect, DogWritesLog(d)
      PROVE  PoolInv'
  BY <1>11, CampaignAssumption
  DEF DogWritesLog
<1>12. ASSUME NEW d \in Defect, DogFailsToWrite(d)
      PROVE  PoolInv'
  BY <1>12, CampaignAssumption
  DEF DogFailsToWrite
<1>13. ASSUME NEW d \in Defect, DogKills(d)
      PROVE  PoolInv'
  BY <1>13, CampaignAssumption
  DEF DogKills, DogsAfterDeathOf
<1>14. CASE Thread
  BY <1>14, ThreadFrame
<1>15. CASE StartDashboard
  BY <1>15, CampaignAssumption
  DEF StartDashboard, GotoMain
<1>16. CASE DashboardExits
  BY <1>16, CampaignAssumption
  DEF DashboardExits, GotoMain
<1>17. CASE JoinThread
  BY <1>17, CampaignAssumption
  DEF JoinThread, GotoMain
<1>18. CASE TerminatePool
  BY <1>18, CampaignAssumption
  DEF TerminatePool, GotoMain, DogsAfterDeathOf
<1>19. CASE CleanAndEnd
  BY <1>19, CampaignAssumption
  DEF CleanAndEnd, GotoMain
<1>20. CASE UserQuits
  BY <1>20, CampaignAssumption
  DEF UserQuits, GotoMain
<1>21. CASE Interrupt
  BY <1>21, CampaignAssumption
  DEF Interrupt
<1>22. CASE UNCHANGED vars
  BY <1>22 DEF vars
<1>. QED
  BY <1>1, <1>2, <1>3, <1>4, <1>5, <1>6, <1>7, <1>8, <1>9, <1>10, <1>11,
     <1>12, <1>13, <1>14, <1>15, <1>16, <1>17, <1>18, <1>19, <1>20,
     <1>21, <1>22
  DEF Next, WorkerStep, DogStep, Main, Ended

(* Only a watchdog and the final clean-up touch a log.                     *)
LEMMA LogChanges ==
  ASSUME [Next]_vars
  PROVE  \/ log' = log
         \/ \E d \in Defect : DogOpensLog(d) \/ DogWritesLog(d)
         \/ CleanAndEnd
<1>1. ASSUME NEW w \in Worker, WorkerStep(w)
      PROVE  log' = log
  BY <1>1, WorkerFrame
<1>2. ASSUME NEW d \in Defect, DogFires(d) \/ DogFailsToWrite(d) \/ DogKills(d)
      PROVE  log' = log
  BY <1>2 DEF DogFires, DogFailsToWrite, DogKills
<1>3. CASE Thread
  BY <1>3, ThreadFrame
<1>4. CASE \/ StartDashboard \/ DashboardExits \/ JoinThread \/ TerminatePool
           \/ UserQuits \/ Interrupt
  BY <1>4 DEF StartDashboard, DashboardExits, JoinThread, TerminatePool,
              UserQuits, Interrupt
<1>5. CASE UNCHANGED vars
  BY <1>5 DEF vars
<1>. QED
  BY <1>1, <1>2, <1>3, <1>4, <1>5 DEF Next, DogStep, Main, Ended

(* A log that is not stale comes from a watchdog that ran out.             *)
LEMMA LogStep ==
  ASSUME TypeOK, HostInv, TaskInv, LogInv, [Next]_vars
  PROVE  LogInv'
<1>. SUFFICES ASSUME NEW e \in Defect, log'[e] \in {"partial", "full"}
              PROVE  Expired(e)'
  BY DEF LogInv
<1>1. CASE Expired(e)
  BY <1>1, ExpiredStays
<1>2. CASE ~Expired(e)
  <2>1. log[e] \notin {"partial", "full"}
    BY <1>2 DEF LogInv
  <2>2. PICK d \in Defect : DogOpensLog(d) \/ DogWritesLog(d)
    BY <2>1, LogChanges DEF CleanAndEnd
  <2>3. d = e
    BY <2>1, <2>2 DEF DogOpensLog, DogWritesLog, TypeOK
  <2>. QED
    BY <1>2, <2>2, <2>3 DEF DogOpensLog, DogWritesLog, Expired
<1>. QED
  BY <1>1, <1>2

(* The verdicts collected are those of the defects before the current one, *)
(* and run_campaign answers only when the thread is done.                  *)
LEMMA CollectStep ==
  ASSUME TypeOK, LoopInv, CollectInv, JoinInv, AnswerInv, PoolInv, [Next]_vars
  PROVE  CollectInv' /\ JoinInv' /\ AnswerInv'
<1>. USE DEF TypeOK, LoopInv, CollectInv, JoinInv, AnswerInv, PoolOpen,
          MainPc, poolVars, workerVars, dogVars, threadVars, mainVars
<1>1. ASSUME NEW w \in Worker, WorkerStep(w)
      PROVE  CollectInv' /\ JoinInv' /\ AnswerInv'
  BY <1>1, WorkerFrame
<1>2. ASSUME NEW d \in Defect, DogStep(d)
      PROVE  CollectInv' /\ JoinInv' /\ AnswerInv'
  BY <1>2, DogFrame
<1>3. CASE Submit
  BY <1>3
  DEF Submit
<1>4. CASE SubmitFails
  BY <1>4
  DEF SubmitFails
<1>5. CASE GetReturns
  BY <1>5
  DEF GetReturns, Append1
<1>6. CASE GetRaises
  BY <1>6
  DEF GetRaises
<1>7. CASE LookUpLog
  BY <1>7
  DEF LookUpLog, Break
<1>8. CASE ReadLog
  BY <1>8
  DEF ReadLog, Append1
<1>9. CASE ReadFails
  BY <1>9
  DEF ReadFails, Break
<1>10. CASE FinishThread
  BY <1>10
  DEF FinishThread
<1>11. CASE StartDashboard
  BY <1>11
  DEF StartDashboard, GotoMain
<1>12. CASE DashboardExits
  BY <1>12
  DEF DashboardExits, GotoMain
<1>13. CASE JoinThread
  BY <1>13
  DEF JoinThread, GotoMain
<1>14. CASE TerminatePool
  BY <1>14
  DEF TerminatePool, GotoMain, DogsAfterDeathOf
<1>15. CASE CleanAndEnd
  BY <1>15
  DEF CleanAndEnd, GotoMain
<1>16. CASE UserQuits
  BY <1>16
  DEF UserQuits, GotoMain
<1>17. CASE Interrupt
  BY <1>17
  DEF Interrupt
<1>18. CASE UNCHANGED vars
  BY <1>18 DEF vars
<1>. QED
  BY <1>1, <1>2, <1>3, <1>4, <1>5, <1>6, <1>7, <1>8, <1>9, <1>10, <1>11,
     <1>12, <1>13, <1>14, <1>15, <1>16, <1>17, <1>18
  DEF Next, Thread, Main, Ended

(* Only the campaign thread adds a verdict.                                *)
LEMMA ReportChanges ==
  ASSUME [Next]_vars
  PROVE  report' = report \/ GetReturns \/ ReadLog
<1>1. ASSUME NEW w \in Worker, WorkerStep(w)
      PROVE  report' = report
  BY <1>1, WorkerFrame DEF threadVars
<1>2. ASSUME NEW d \in Defect, DogStep(d)
      PROVE  report' = report
  BY <1>2, DogFrame DEF threadVars
<1>3. CASE \/ Submit \/ SubmitFails \/ GetRaises \/ LookUpLog \/ ReadFails
           \/ FinishThread
  BY <1>3 DEF Submit, SubmitFails, GetRaises, LookUpLog, ReadFails, Break,
              FinishThread
<1>4. CASE Main \/ UserQuits \/ Interrupt
  BY <1>4, MainFrame DEF threadVars
<1>5. CASE UNCHANGED vars
  BY <1>5 DEF vars, threadVars
<1>. QED
  BY <1>1, <1>2, <1>3, <1>4, <1>5 DEF Next, Thread, Ended

(* A timeout is reported only for a defect that ran out, or on a stale log. *)
LEMMA TimeoutStep ==
  ASSUME TypeOK, HostInv, LoopInv, TaskInv, LogInv, CollectInv,
         TimeoutJustified, [Next]_vars
  PROVE  TimeoutJustified'
<1>1. /\ report \in Seq(Verdict)
      /\ \A i \in 1 .. Len(report) : report[i].target \in Defect
  <2>1. report \in Seq(Verdict)
    BY DEF TypeOK
  <2>2. ASSUME NEW i \in 1 .. Len(report)
        PROVE  report[i].target \in Defect
    <3>1. report[i] \in Verdict
      BY <2>1
    <3>. QED
      BY <3>1 DEF Verdict
  <2>. QED
    BY <2>1, <2>2
<1>2. \A e \in Defect : Expired(e) => Expired(e)'
  BY ExpiredStays
<1>3. CASE report' = report
  BY <1>1, <1>2, <1>3 DEF TimeoutJustified
<1>4. CASE GetReturns
  <2>. DEFINE v == [target |-> cur, timeout_limit_exceeded |-> FALSE,
                    simulation_result |-> result[cur]]
  <2>1. report' = Append(report, v) /\ v.timeout_limit_exceeded = FALSE
    BY <1>4 DEF GetReturns, Append1
  <2>. QED
    BY <1>1, <1>2, <2>1 DEF TimeoutJustified
<1>5. CASE ReadLog
  <2>. DEFINE v == [target |-> cur, timeout_limit_exceeded |-> TRUE,
                    simulation_result |-> log[cur]]
  <2>1. /\ report' = Append(report, v)
        /\ v.target = cur /\ v.simulation_result = log[cur]
    BY <1>5 DEF ReadLog, Append1
  <2>2. cur \in Defect
    BY <1>5, CampaignAssumption DEF ReadLog, LoopInv, TypeOK, Defect
  <2>3. log[cur] # "stale" => Expired(cur)
    BY <1>5, <2>2 DEF ReadLog, LogInv, TypeOK, LogState
  <2>. HIDE DEF v
  <2>. QED
    BY <1>1, <1>2, <2>1, <2>2, <2>3 DEF TimeoutJustified
<1>. QED
  BY <1>3, <1>4, <1>5, ReportChanges

(* While the pool is open a task that was taken is being executed, has a   *)
(* result, or was lost together with a process some watchdog killed.       *)
LEMMA LossStep ==
  ASSUME TypeOK, HostInv, TaskInv, LossExplained, [Next]_vars
  PROVE  LossExplained'
<1>. SUFFICES ASSUME NEW d \in 1 .. taken', result'[d] = "none", PoolOpen',
                     \A w \in Worker : task'[w] # d
              PROVE  \E e \in Defect : dog'[e] = "spent"
  BY DEF LossExplained
<1>1. CASE \E e \in Defect : dog[e] = "spent"
  BY <1>1, SpentStays
<1>2. ASSUME UNCHANGED <<task, taken, result, dog>>, PoolOpen
      PROVE  \E e \in Defect : dog'[e] = "spent"
  BY <1>2 DEF LossExplained
<1>3. ASSUME NEW w \in Worker, TakeTask(w)
      PROVE  \E e \in Defect : dog'[e] = "spent"
  <2>1. taken' = taken + 1 /\ task' = [task EXCEPT ![w] = taken + 1]
        /\ UNCHANGED <<result, dog, mpc>> /\ task[w] = NoDefect
    BY <1>3 DEF TakeTask, Goto, TaskInv, dogVars, mainVars
  <2>2. d # taken + 1
    BY <2>1 DEF TypeOK
  <2>3. d \in 1 .. taken
    BY <2>1, <2>2 DEF TypeOK
  <2>4. \A v \in Worker : task[v] # d
    BY <2>1, <2>3 DEF TypeOK, NoDefect
  <2>. QED
    BY <2>1, <2>3, <2>4 DEF LossExplained, PoolOpen
<1>4. ASSUME NEW w \in Worker,
             LockQueue(w) \/ SetupFails(w) \/ LockResults(w) \/ Respawn(w)
      PROVE  \E e \in Defect : dog'[e] = "spent"
  BY <1>2, <1>4 DEF LockQueue, SetupFails, LockResults, Respawn, dogVars,
     poolVars, mainVars, PoolOpen
<1>5. ASSUME NEW w \in Worker, StartSimulation(w) \/ EndSimulation(w)
      PROVE  \E e \in Defect : dog'[e] = "spent"
  <2>1. UNCHANGED <<task, taken, result, mpc>>
    BY <1>5 DEF StartSimulation, EndSimulation, poolVars, mainVars
  <2>2. \E e \in Defect : dog[e] = "spent"
    BY <2>1 DEF LossExplained, PoolOpen
  <2>. QED
    BY <2>2, SpentStays
<1>6. ASSUME NEW w \in Worker, SendResult(w)
      PROVE  \E e \in Defect : dog'[e] = "spent"
  <2>1. /\ result' = [result EXCEPT ![task[w]] = outcome[w]]
        /\ task' = [task EXCEPT ![w] = NoDefect]
        /\ UNCHANGED <<taken, mpc>> /\ wpc[w] = "send"
    BY <1>6 DEF SendResult, Goto, mainVars
  <2>2. outcome[w] # "none" /\ task[w] # NoDefect
    BY <2>1 DEF TaskInv
  <2>3. task[w] # d /\ result[d] = "none"
    BY <2>1, <2>2, CampaignAssumption DEF TypeOK, Defect
  <2>4. \A v \in Worker : task[v] # d
    BY <2>1, <2>3 DEF TypeOK
  <2>5. \E e \in Defect : dog[e] = "spent"
    BY <2>1, <2>3, <2>4 DEF LossExplained, PoolOpen
  <2>. QED
    BY <2>5, SpentStays
<1>7. ASSUME NEW e \in Defect,
             \/ DogFires(e) \/ DogOpensLog(e) \/ DogWritesLog(e)
             \/ DogFailsToWrite(e)
      PROVE  \E f \in Defect : dog'[f] = "spent"
  <2>1. UNCHANGED <<task, taken, result, mpc>>
    BY <1>7 DEF DogFires, DogOpensLog, DogWritesLog, DogFailsToWrite, poolVars,
       workerVars, mainVars
  <2>2. \E f \in Defect : dog[f] = "spent"
    BY <2>1 DEF LossExplained, PoolOpen
  <2>. QED
    BY <2>2, SpentStays
<1>8. ASSUME NEW e \in Defect, DogKills(e)
      PROVE  \E f \in Defect : dog'[f] = "spent"
  BY <1>8 DEF DogKills, DogsAfterDeathOf, Expired
<1>9. CASE Thread
  BY <1>2, <1>9, ThreadFrame DEF workerVars, dogVars, PoolOpen
<1>10. CASE TerminatePool \/ CleanAndEnd
  BY <1>10 DEF TerminatePool, CleanAndEnd, GotoMain, PoolOpen
<1>11. CASE \/ StartDashboard \/ DashboardExits \/ JoinThread \/ UserQuits
            \/ Interrupt
  BY <1>2, <1>11 DEF StartDashboard, DashboardExits, JoinThread, UserQuits,
     Interrupt, GotoMain, PoolOpen, poolVars, workerVars, dogVars
<1>12. CASE UNCHANGED vars
  BY <1>2, <1>12 DEF vars, poolVars, workerVars, dogVars, mainVars, PoolOpen
<1>. QED
  BY <1>3, <1>4, <1>5, <1>6, <1>7, <1>8, <1>9, <1>10, <1>11, <1>12
  DEF Next, WorkerStep, DogStep, Main, Ended

-----------------------------------------------------------------------------
(* The invariant holds when run_campaign is called.                        *)
LEMMA InitIInv == Init => IInv
<1>. SUFFICES ASSUME Init PROVE IInv
  OBVIOUS
<1>. USE CampaignAssumption DEF Init
<1>1. TypeOK
  <2>1. log \in [Defect -> LogState]
    BY DEF LogState
  <2>2. /\ wpc \in [Worker -> WorkerPc] /\ outcome \in [Worker -> Outcome]
        /\ task \in [Worker -> Defect \cup {NoDefect}]
    BY DEF WorkerPc, Outcome
  <2>3. /\ result \in [Defect -> Outcome] /\ dog \in [Defect -> DogState]
        /\ host \in [Defect -> Worker \cup {Free}]
        /\ lock \in [Pipe -> Worker \cup {Free, Lost}]
    BY DEF Outcome, DogState
  <2>4. report \in Seq(Verdict)
    OBVIOUS
  <2>5. /\ submitted \in 0 .. NumDefects /\ taken \in 0 .. NumDefects
        /\ cur \in 1 .. NumDefects + 1
    OBVIOUS
  <2>6. /\ tpc \in ThreadPc /\ mpc \in MainPc
        /\ exitAsked \in BOOLEAN /\ interrupted \in BOOLEAN
        /\ error \in {"none", "noLog", "unreadable"}
        /\ answer \in {"none", "report", "raised", "interrupted"}
    BY DEF ThreadPc, MainPc
  <2>. QED
    BY <2>1, <2>2, <2>3, <2>4, <2>5, <2>6 DEF TypeOK
<1>2. TaskInv /\ HostInv /\ PoolInv /\ LogInv /\ LoopInv
  BY DEF TaskInv, HostInv, PoolInv, LogInv, LoopInv, NoDefect, PoolOpen
<1>3. CollectInv /\ JoinInv /\ AnswerInv
  BY DEF CollectInv, JoinInv, AnswerInv
<1>4. TimeoutJustified /\ LossExplained
  BY DEF TimeoutJustified, LossExplained
<1>. QED
  BY <1>1, <1>2, <1>3, <1>4 DEF IInv

(* Every step preserves the invariant.                                     *)
LEMMA NextIInv == IInv /\ [Next]_vars => IInv'
BY TypeStep, HostStep, LoopStep, TaskStep, PoolStep, LogStep, CollectStep,
   TimeoutStep, LossStep DEF IInv

(* IInv is an invariant of the campaign.                                   *)
THEOREM Invariance == Spec => []IInv
BY InitIInv, NextIInv, PTL DEF Spec

(* Every variable keeps its type: the pool, its locks, the timers and the  *)
(* program counters stay within what run_campaign and its helpers set.     *)
THEOREM TypeCorrect == Spec => []TypeOK
<1>1. IInv => TypeOK
  BY DEF IInv
<1>. QED
  BY <1>1, Invariance, PTL

(* run_campaign returns a verdict for every defect, in order, or none.     *)
THEOREM Completeness == Spec => []CompleteOrRaised
<1>1. IInv => CompleteOrRaised
  <2>. SUFFICES ASSUME IInv, answer = "report" PROVE
                       /\ Len(report) = NumDefects
                       /\ \A i \in Defect : report[i].target = i
    BY DEF CompleteOrRaised
  <2>1. mpc = "ended" /\ ~interrupted /\ error = "none"
    BY DEF IInv, AnswerInv
  <2>2. tpc \in {"done", "crashed"}
    BY <2>1 DEF IInv, JoinInv
  <2>3. cur = NumDefects + 1
    BY <2>1, <2>2 DEF IInv, CollectInv
  <2>. QED
    BY <2>3, CampaignAssumption DEF IInv, CollectInv, Defect
<1>. QED
  BY <1>1, Invariance, PTL

(* A verdict of timeout comes from the defect's own watchdog, or from a    *)
(* leftover log (on_timeout and _execute_campaign_tasks).                  *)
THEOREM Justification == Spec => []TimeoutJustified
<1>1. IInv => TimeoutJustified
  BY DEF IInv
<1>. QED
  BY <1>1, Invariance, PTL

(* The pool loses no result unless a watchdog has killed a worker.         *)
THEOREM NoUnexplainedLoss == Spec => []LossExplained
<1>1. IInv => LossExplained
  BY DEF IInv
<1>. QED
  BY <1>1, Invariance, PTL

(* After pool.terminate no log is created or written (the order of the     *)
(* calls in _cleanup and at the end of run_campaign).                      *)
THEOREM WritersGone == Spec => NoWriterAfterPool
<1>1. IInv /\ [Next]_vars => (~PoolOpen => OnlyRemovesLogs)
  <2>. SUFFICES ASSUME IInv, [Next]_vars, ~PoolOpen PROVE OnlyRemovesLogs
    OBVIOUS
  <2>1. \A d \in Defect : ~DogOpensLog(d) /\ ~DogWritesLog(d)
    BY DEF IInv, PoolInv, HostInv, DogOpensLog, DogWritesLog
  <2>2. log' = log \/ CleanAndEnd
    BY <2>1, LogChanges
  <2>. QED
    BY <2>2 DEF OnlyRemovesLogs, CleanAndEnd
<1>. QED
  BY <1>1, Invariance, PTL DEF Spec, NoWriterAfterPool

(* run_campaign implements its contract: a verdict is a Judge step, a      *)
(* break out of the loop a GiveUp step, the end of the clean-up one of     *)
(* Return, Raise and CutShort, and every other step changes nothing a      *)
(* caller can see.                                                         *)
THEOREM Refinement == Spec => ImplementsContract
<1>1. Init => Contract!CInit
  BY DEF Init, Contract!CInit
<1>2. IInv /\ [Next]_vars => [Contract!CNext]_(Contract!cvars)
  <2>. SUFFICES ASSUME IInv, [Next]_vars
                PROVE  Contract!CNext \/ UNCHANGED <<report, error, answer>>
    BY DEF Contract!cvars
  <2>. USE DEF threadVars, mainVars
  <2>1. ASSUME NEW w \in Worker, WorkerStep(w)
        PROVE  UNCHANGED <<report, error, answer>>
    BY <2>1, WorkerFrame
  <2>2. ASSUME NEW d \in Defect, DogStep(d)
        PROVE  UNCHANGED <<report, error, answer>>
    BY <2>2, DogFrame
  <2>3. CASE Thread
    <3>1. answer = "none" /\ answer' = "none"
      BY <2>3, ThreadFrame DEF Thread, IInv, AnswerInv
    <3>2. tpc \in {"get", "lookup", "read"} =>
            error = "none" /\ cur = Len(report) + 1 /\ Len(report) < NumDefects
      BY CampaignAssumption DEF IInv, TypeOK, LoopInv, CollectInv
    <3>3. ASSUME NEW t \in BOOLEAN, NEW p \in Outcome \cup LogState,
                 tpc \in {"get", "read"}, Append1(t, p)
          PROVE  Contract!Judge
      BY <3>1, <3>2, <3>3 DEF Append1, Contract!Judge
    <3>4. ASSUME NEW why \in {"noLog", "unreadable"},
                 tpc \in {"lookup", "read"}, Break(why)
          PROVE  Contract!GiveUp
      BY <3>1, <3>2, <3>4 DEF Break, Contract!GiveUp
    <3>5. CASE GetReturns
      <4>1. cur \in Defect
        BY <3>5, CampaignAssumption DEF GetReturns, IInv, TypeOK, LoopInv, Defect
      <4>2. result[cur] \in Outcome
        BY <4>1 DEF IInv, TypeOK
      <4>. QED
        BY <3>3, <3>5, <4>2 DEF GetReturns, Contract!CNext
    <3>6. CASE ReadLog
      <4>1. cur \in Defect
        BY <3>6, CampaignAssumption DEF ReadLog, IInv, TypeOK, LoopInv, Defect
      <4>2. log[cur] \in LogState
        BY <4>1 DEF IInv, TypeOK
      <4>. QED
        BY <3>3, <3>6, <4>2 DEF ReadLog, Contract!CNext
    <3>7. CASE LookUpLog \/ ReadFails
      BY <3>1, <3>4, <3>7 DEF LookUpLog, ReadFails, Contract!CNext
    <3>8. CASE Submit \/ SubmitFails \/ GetRaises \/ FinishThread
      BY <3>8 DEF Submit, SubmitFails, GetRaises, FinishThread
    <3>. QED
      BY <2>3, <3>5, <3>6, <3>7, <3>8 DEF Thread
  <2>4. CASE StartDashboard \/ DashboardExits \/ JoinThread \/ TerminatePool
             \/ UserQuits \/ Interrupt
    BY <2>4 DEF StartDashboard, DashboardExits, JoinThread, TerminatePool,
                UserQuits, Interrupt
  <2>5. CASE CleanAndEnd
    <3>1. answer = "none" /\ UNCHANGED <<report, error>>
      BY <2>5 DEF CleanAndEnd, GotoMain, IInv, AnswerInv
    <3>2. CASE interrupted
      BY <2>5, <3>1, <3>2
      DEF CleanAndEnd, Contract!CNext, Contract!CutShort
    <3>3. CASE ~interrupted /\ error # "none"
      BY <2>5, <3>1, <3>3 DEF CleanAndEnd, Contract!CNext, Contract!Raise
    <3>4. CASE ~interrupted /\ error = "none"
      <4>1. tpc \in {"done", "crashed"}
        BY <2>5, <3>4 DEF CleanAndEnd, GotoMain, IInv, JoinInv
      <4>2. Len(report) = NumDefects
        BY <3>4, <4>1, CampaignAssumption DEF IInv, CollectInv
      <4>. QED
        BY <2>5, <3>1, <3>4, <4>2
        DEF CleanAndEnd, Contract!CNext, Contract!Return
    <3>. QED
      BY <3>2, <3>3, <3>4
  <2>6. CASE UNCHANGED vars
    BY <2>6 DEF vars
  <2>. QED
    BY <2>1, <2>2, <2>3, <2>4, <2>5, <2>6 DEF Next, Main, Ended
<1>. QED
  BY <1>1, <1>2, Invariance, PTL DEF Spec, ImplementsContract, Contract!CSpec

=============================================================================
