---------------------------- MODULE ServersProofs ----------------------------
(***************************************************************************)
(* Theorems of Servers, for any processes, ports, documents and chunks.    *)
(* Each property has an invariant of its own: Documents, EngineIsWhole,    *)
(* Managed, Orderly, Course and Chats, over the types and over Apart,      *)
(* which says that the two programs do not meet.                           *)
(***************************************************************************)
EXTENDS Servers, SequenceTheorems, FiniteSetTheorems, TLAPS

(* While the program waits for a server to stop, it is in the table.        *)
StopsAnEntry == pc = "stopping" => \E i \in DOMAIN table : IsFirst(i, mode)

LEMMA FirstIsThere ==
  ASSUME NEW m, \E i \in DOMAIN table : IsFirst(i, m)
  PROVE  FirstOf(m) \in DOMAIN table /\ IsFirst(FirstOf(m), m)
  BY DEF FirstOf

LEMMA WithoutOne ==
  ASSUME table \in Seq(Entries), NEW k \in DOMAIN table
  PROVE  /\ Without(k) \in Seq(Entries)
         /\ Len(Without(k)) = Len(table) - 1
         /\ \A j \in 1 .. Len(table) - 1 :
              Without(k)[j] = IF j < k THEN table[j] ELSE table[j + 1]
  <1> DEFINE a == SubSeq(table, 1, k - 1)
             b == SubSeq(table, k + 1, Len(table))
  <1>0. k \in 1 .. Len(table) /\ Len(table) \in Nat
    OBVIOUS
  <1>1. /\ a \in Seq(Entries) /\ Len(a) = k - 1
        /\ \A j \in 1 .. k - 1 : a[j] = table[j]
    BY <1>0
  <1>2. /\ b \in Seq(Entries) /\ Len(b) = Len(table) - k
        /\ \A j \in 1 .. Len(table) - k : b[j] = table[k + j]
    BY <1>0
  <1> HIDE DEF a, b
  <1>3. /\ a \o b \in Seq(Entries) /\ Len(a \o b) = Len(table) - 1
        /\ \A j \in 1 .. Len(table) - 1 :
             (a \o b)[j] = IF j < k THEN table[j] ELSE table[j + 1]
    BY <1>0, <1>1, <1>2
  <1> QED BY <1>3 DEF Without, a, b

-----------------------------------------------------------------------------
(* Types.                                                                   *)
LEMMA LaunchedIsTyped ==
  ASSUME HostTyped, NEW p \in Pid, NEW port \in Port
  PROVE  Launched(p, port) \in [Pid -> [state : ProcStates, port : Port]]
  BY DEF HostTyped, Launched, ProcStates, AliveStates

LEMMA SignalledIsTyped ==
  ASSUME HostTyped, NEW S
  PROVE  Signalled(S) \in [Pid -> [state : ProcStates, port : Port]]
  BY DEF HostTyped, Signalled, Hit, ProcStates, AliveStates

LEMMA EmptyIsTyped == <<>> \in Seq(Entries)
  OBVIOUS

LEMMA ExitIsTyped ==
  ASSUME ToolkitTyped, Exit
  PROVE  pc' \in {"exiting", "down"} /\ table' \in Seq(Entries) /\ at' \in Nat
  <1>1. table \in Seq(Entries) /\ at \in Nat
    BY DEF ToolkitTyped
  <1>2. \/ pc' = "exiting" /\ at' = 0 /\ table' = table
        \/ pc' = "down" /\ table' = <<>> /\ at' = at
    BY DEF Exit
  <1>3. table' \in Seq(Entries)
    BY <1>1, <1>2, EmptyIsTyped, Zenon
  <1> QED BY <1>1, <1>2, <1>3

LEMMA StopServerIsTyped ==
  ASSUME HostTyped, ToolkitTyped, NEW m \in Modes, NEW place, StopServer(m, place),
         place \in {"documents", "embedding", "prompt", "answering", "leaving", "exiting"}
  PROVE  /\ procs' \in [Pid -> [state : ProcStates, port : Port]]
         /\ pc' \in {"stopping", place} /\ mode' \in Modes
         /\ then' \in {then, place}
         /\ table' = table => StopsAnEntry'
  <1>1. CASE Running(m)
    <2>1. /\ procs' = Signalled({table[FirstOf(m)].pid})
          /\ pc' = "stopping" /\ mode' = m /\ then' = place
      BY <1>1 DEF StopServer
    <2>2. table' = table => StopsAnEntry'
      BY <1>1, <2>1 DEF Running, StopsAnEntry, IsFirst
    <2> QED BY <2>1, <2>2, SignalledIsTyped
  <1>2. CASE ~ Running(m)
    BY <1>2 DEF StopServer, HostTyped, ToolkitTyped, StopsAnEntry
  <1> QED BY <1>1, <1>2

LEMMA StartServerIsTyped ==
  ASSUME HostTyped, ToolkitTyped, NEW m \in Modes, StartServer(m), pc # "spawned"
  PROVE  /\ procs' \in [Pid -> [state : ProcStates, port : Port]]
         /\ pc' \in {"spawned", "exiting", "down"} /\ mode' \in Modes
         /\ table' \in Seq(Entries) /\ at' \in Nat 
         /\ child' \in IF pc' = "spawned" THEN Pid ELSE {"none"}
  <1>1. CASE Running(m)
    BY <1>1, ExitIsTyped DEF StartServer, HostTyped, ToolkitTyped
  <1>2. CASE ~ Running(m)
    <2>1. PICK p \in Pid : /\ procs' = Launched(p, PortOf(m)) /\ child' = p
                           /\ pc' = "spawned" /\ mode' = m
                           /\ UNCHANGED <<table, at>>
      BY <1>2 DEF StartServer
    <2>2. PortOf(m) \in Port
      BY ToolkitAssumption DEF PortOf
    <2> QED BY <2>1, <2>2, LaunchedIsTyped DEF ToolkitTyped
  <1> QED BY <1>1, <1>2

LEMMA HostTypes ==
  ASSUME TypeOK, Host
  PROVE  TypeOK'
  <1>1. HostTyped'
    <2>1. PICK p \in Pid : Bind(p) \/ Load(p) \/ Stop(p) \/ Fail(p)
      BY DEF Host
    <2> QED BY <2>1 DEF Bind, Load, Stop, Fail, Killed, TypeOK, HostTyped, ProcStates, AliveStates
  <1>2. UNCHANGED <<toolkit, llm>>
    BY DEF Host
  <1>3. DocumentsTyped' BY <1>2 DEF TypeOK, DocumentsTyped, toolkit
  <1>4. ToolkitTyped' BY <1>2 DEF TypeOK, ToolkitTyped, toolkit
  <1>5. LlmTyped' BY <1>2 DEF TypeOK, LlmTyped, llm
  <1> QED BY <1>1, <1>3, <1>4, <1>5 DEF TypeOK

LEMMA LlmTypes ==
  ASSUME TypeOK, LlmNext, UNCHANGED toolkit
  PROVE  TypeOK'
  <1>1. DocumentsTyped' BY DEF TypeOK, DocumentsTyped, toolkit
  <1>2. ToolkitTyped' BY DEF TypeOK, ToolkitTyped, toolkit
  <1>3. HostTyped /\ LlmTyped
    BY DEF TypeOK
  <1>4. HostTyped' /\ LlmTyped'
    <2> USE <1>3 DEF HostTyped, LlmTyped
    <2>1. CASE BeginRun BY <2>1 DEF BeginRun
    <2>2. CASE Built \/ BuildFails BY <2>2 DEF Built, BuildFails
    <2>3. CASE Copied BY <2>3 DEF Copied
    <2>4. CASE CopyFails BY <2>4 DEF CopyFails, Left
    <2>5. CASE NothingToTriage BY <2>5 DEF NothingToTriage
    <2>6. CASE NoExecutable BY <2>6 DEF NoExecutable
    <2>7. CASE Popen
      <3>1. PICK p \in Pid : procs' = Launched(p, "11434") /\ spawned' = p
        BY <2>7 DEF Popen
      <3>2. procs' \in [Pid -> [state : ProcStates, port : Port]]
        BY <3>1, LlmAssumption, LaunchedIsTyped
      <3> QED BY <2>7, <3>1, <3>2 DEF Popen
    <2>8. CASE PopenReturns BY <2>8 DEF PopenReturns
    <2>9. CASE PollFails BY <2>9 DEF PollFails
    <2>10. CASE PollSucceeds BY <2>10 DEF PollSucceeds
    <2>11. CASE HealthOk BY <2>11 DEF HealthOk
    <2>12. CASE HealthFails BY <2>12 DEF HealthFails
    <2>13. CASE HealthTimesOut BY <2>13, SignalledIsTyped DEF HealthTimesOut, StopThen
    <2>14. CASE TriageEnds BY <2>14, SignalledIsTyped DEF TriageEnds, StopThen
    <2>15. CASE Waited BY <2>15 DEF Waited
    <2>16. CASE WaitTimesOut
      BY <2>16 DEF WaitTimesOut, Killed, ProcStates, llm
    <2>17. CASE DieLlm BY <2>17 DEF DieLlm, Left
    <2>18. ASSUME NEW terminal \in BOOLEAN, Signal(terminal) PROVE HostTyped' /\ LlmTyped'
      BY <2>18, SignalledIsTyped DEF Signal, Left
    <2> QED BY <2>1, <2>2, <2>3, <2>4, <2>5, <2>6, <2>7, <2>8, <2>9, <2>10, <2>11, <2>12,
               <2>13, <2>14, <2>15, <2>16, <2>17, <2>18 DEF LlmNext
  <1> QED BY <1>1, <1>2, <1>4 DEF TypeOK

LEMMA DocumentsTypes ==
  ASSUME TypeOK, ToolkitNext
  PROVE  DocumentsTyped'
  <1> USE DEF DocumentsTyped, kept
  <1>0. DocumentsTyped
    BY DEF TypeOK
  <1>s. Spoilt \subseteq Doc
    BY <1>0 DEF Spoilt
  <1>1. CASE Start BY <1>0, <1>1 DEF Start
  <1>2. ASSUME NEW d \in Doc, WriteText(d) PROVE DocumentsTyped'
    BY <1>0, <1>2 DEF WriteText
  <1>3. ASSUME NEW d \in Doc, LookUp(d) PROVE DocumentsTyped'
    BY <1>0, <1>3 DEF LookUp
  <1>4. CASE Healthy \/ TimesOut \/ Leaving
    BY <1>0, <1>4 DEF Healthy, TimesOut, Leaving
  <1>5. CASE SaveChunk
    <2>1. db[doc] + 1 \in 0 .. Chunks /\ UNCHANGED <<doc, todo, texts, cut>>
          /\ db' = [db EXCEPT ![doc] = @ + 1]
      BY <1>0, <1>5, ToolkitAssumption DEF SaveChunk, Size
    <2> QED BY <1>0, <2>1
  <1>6. CASE DocumentDone BY <1>0, <1>6 DEF DocumentDone
  <1>7. CASE ChunkRefused \/ ChunkFails
    BY <1>0, <1>7, <1>s DEF ChunkRefused, ChunkFails
  <1>8. CASE StartChat \/ Ask \/ ContextFound \/ ContextFails \/ Answered \/ Quit
    BY <1>0, <1>8 DEF StartChat, Ask, ContextFound, ContextFails, Answered, Quit
  <1>9. CASE Stopped \/ StopNext BY <1>0, <1>9 DEF Stopped, StopNext
  <1>10. CASE Die BY <1>0, <1>10, <1>s DEF Die
  <1>12. CASE Tables BY <1>0, <1>12 DEF Tables
  <1>11. ASSUME NEW t \in BOOLEAN, Interrupt(t) \/ InterruptSwallowed(t) PROVE DocumentsTyped'
    BY <1>0, <1>11, <1>s DEF Interrupt, InterruptSwallowed, toolkit
  <1> QED BY <1>1, <1>2, <1>3, <1>4, <1>5, <1>6, <1>7, <1>8, <1>9, <1>10, <1>11,
             <1>12 DEF ToolkitNext

ControlTyped == HostTyped /\ ToolkitTyped /\ StopsAnEntry

LEMMA ControlTypes ==
  ASSUME ControlTyped, ToolkitNext
  PROVE  ControlTyped'
  <1>0. HostTyped /\ ToolkitTyped /\ StopsAnEntry
    BY DEF ControlTyped
  <1>m. "embedding" \in Modes /\ "chat" \in Modes
    BY DEF Modes
  <1> USE <1>0, <1>m DEF kept, ControlTyped
  <1>1. CASE Start BY <1>1 DEF Start, HostTyped, ToolkitTyped, StopsAnEntry
  <1>2. ASSUME NEW d \in Doc, WriteText(d) PROVE ControlTyped'
    BY <1>2 DEF WriteText, HostTyped, ToolkitTyped, StopsAnEntry
  <1>3. ASSUME NEW d \in Doc, LookUp(d) PROVE ControlTyped'
    BY <1>3, StartServerIsTyped DEF LookUp, HostTyped, ToolkitTyped, StopsAnEntry
  <1>4. CASE Healthy BY <1>4 DEF Healthy, HostTyped, ToolkitTyped, StopsAnEntry
  <1>5. CASE TimesOut
    <2>1. mode \in Modes /\ (IF mode = "chat" THEN "leaving" ELSE "embedding") \in {"leaving", "embedding"}
      BY DEF ToolkitTyped
    <2> QED BY <1>5, <2>1, StopServerIsTyped DEF TimesOut, HostTyped, ToolkitTyped
  <1>6. CASE Leaving BY <1>6, ExitIsTyped DEF Leaving, HostTyped, ToolkitTyped, StopsAnEntry
  <1>7. CASE SaveChunk BY <1>7 DEF SaveChunk, HostTyped, ToolkitTyped, StopsAnEntry, IsFirst
  <1>8. CASE DocumentDone BY <1>8, StopServerIsTyped DEF DocumentDone, HostTyped, ToolkitTyped
  <1>9. CASE ChunkRefused BY <1>9, ExitIsTyped DEF ChunkRefused, HostTyped, ToolkitTyped, StopsAnEntry
  <1>10. CASE ChunkFails BY <1>10, StopServerIsTyped DEF ChunkFails, HostTyped, ToolkitTyped
  <1>11. CASE StartChat BY <1>11, StartServerIsTyped DEF StartChat, HostTyped, ToolkitTyped, StopsAnEntry
  <1>12. CASE Ask BY <1>12, StartServerIsTyped DEF Ask, HostTyped, ToolkitTyped, StopsAnEntry
  <1>13. CASE ContextFound BY <1>13, StopServerIsTyped DEF ContextFound, HostTyped, ToolkitTyped
  <1>14. CASE ContextFails BY <1>14, StopServerIsTyped DEF ContextFails, HostTyped, ToolkitTyped
  <1>15. CASE Answered BY <1>15 DEF Answered, HostTyped, ToolkitTyped, StopsAnEntry
  <1>16. CASE Quit BY <1>16, StopServerIsTyped DEF Quit, HostTyped, ToolkitTyped
  <1>17. CASE Stopped
    <2>1. FirstOf(mode) \in DOMAIN table /\ table \in Seq(Entries)
      BY <1>17, FirstIsThere DEF Stopped, StopsAnEntry, ToolkitTyped
    <2>2. table' \in Seq(Entries)
      BY <1>17, <2>1, WithoutOne DEF Stopped
    <2>3. /\ pc = "stopping" /\ pc' = then
          /\ UNCHANGED <<procs, disturbed, child, mode, then, atexit, anew, at, exits>>
      BY <1>17 DEF Stopped
    <2>3a. HostTyped' BY <2>3 DEF HostTyped
    <2>4. ToolkitTyped' BY <2>2, <2>3 DEF ToolkitTyped
    <2>5. pc' # "stopping" BY <2>3 DEF ToolkitTyped
    <2> QED BY <2>3a, <2>4, <2>5 DEF StopsAnEntry
  <1>18. CASE StopNext
    <2>1. CASE at < Len(table)
      <3>1. at + 1 \in DOMAIN table /\ table[at + 1].mode \in Modes
        <4>1. table \in Seq(Entries) /\ at \in Nat
          BY DEF ToolkitTyped
        <4>2. at + 1 \in DOMAIN table /\ table[at + 1] \in Entries
          BY <2>1, <4>1
        <4> QED BY <4>2 DEF Entries
      <3> QED BY <1>18, <2>1, <3>1, StopServerIsTyped DEF StopNext, HostTyped, ToolkitTyped
    <2>2. CASE ~ at < Len(table)
      BY <1>18, <2>2, EmptyIsTyped DEF StopNext, HostTyped, ToolkitTyped, StopsAnEntry
    <2> QED BY <2>1, <2>2
  <1>19. CASE Die BY <1>19 DEF Die, HostTyped, ToolkitTyped, StopsAnEntry
  <1>20. ASSUME NEW t \in BOOLEAN, Interrupt(t) PROVE ControlTyped'
    <2>1. procs' \in [Pid -> [state : ProcStates, port : Port]] /\ disturbed' \in BOOLEAN
      BY <1>20, SignalledIsTyped DEF Interrupt, HostTyped
    <2>2. pc' \in {"exiting", "down"} /\ table' \in Seq(Entries) /\ at' \in Nat
      <3>1. table \in Seq(Entries) /\ at \in Nat
        BY DEF ToolkitTyped
      <3> QED BY <1>20, <3>1, ExitIsTyped, EmptyIsTyped DEF Interrupt
    <2>3. exits' \subseteq {"refused", "unstopped", "second"}
      BY <1>20 DEF Interrupt, Unstopped, ToolkitTyped
    <2> QED BY <1>20, <2>1, <2>2, <2>3 DEF Interrupt, HostTyped, ToolkitTyped, StopsAnEntry
  <1>22. CASE Tables
    <2>1. mode \in Modes /\ child \in Pid /\ table \in Seq(Entries)
      BY <1>22 DEF Tables, ToolkitTyped
    <2>2. Entry(mode, child) \in Entries
      BY <2>1 DEF Entry, Entries
    <2>3. table' \in Seq(Entries)
      BY <1>22, <2>1, <2>2 DEF Tables
    <2> QED BY <1>22, <2>3 DEF Tables, HostTyped, ToolkitTyped, StopsAnEntry
  <1>21. ASSUME NEW t \in BOOLEAN, InterruptSwallowed(t) PROVE ControlTyped'
    <2>1. procs' \in [Pid -> [state : ProcStates, port : Port]] /\ UNCHANGED <<disturbed, toolkit>>
      BY <1>21, SignalledIsTyped DEF InterruptSwallowed, HostTyped
    <2> QED BY <2>1 DEF HostTyped, ToolkitTyped, StopsAnEntry, toolkit, IsFirst
  <1> QED BY <1>1, <1>2, <1>3, <1>4, <1>5, <1>6, <1>7, <1>8, <1>9, <1>10, <1>11, <1>12,
             <1>13, <1>14, <1>15, <1>16, <1>17, <1>18, <1>19, <1>20, <1>21, <1>22 DEF ToolkitNext

(* Every step is of LCPToolkit, of the manager or of the host.              *)
LEMMA NextIsOneOfThree ==
  ASSUME Next
  PROVE  /\ UNCHANGED program
         /\ \/ program = "LCPToolkit" /\ ToolkitNext /\ UNCHANGED llm
            \/ program = "edacurry2427" /\ LlmNext /\ UNCHANGED toolkit
            \/ Host /\ UNCHANGED <<toolkit, llm>>
  BY DEF Next, Host

LEMMA StepTypes ==
  ASSUME TypeOK, StopsAnEntry, [Next]_vars
  PROVE  TypeOK' /\ StopsAnEntry'
  <1>1. CASE UNCHANGED vars
    <2>1. HostTyped' /\ LlmTyped'
      BY <1>1 DEF vars, llm, TypeOK, HostTyped, LlmTyped
    <2>2. DocumentsTyped' BY <1>1 DEF vars, toolkit, TypeOK, DocumentsTyped
    <2>3. ToolkitTyped' BY <1>1 DEF vars, toolkit, TypeOK, ToolkitTyped
    <2>4. StopsAnEntry' BY <1>1 DEF vars, toolkit, StopsAnEntry, IsFirst
    <2> QED BY <2>1, <2>2, <2>3, <2>4 DEF TypeOK
  <1>2. CASE ToolkitNext /\ UNCHANGED llm
    <2>1. LlmTyped'
      BY <1>2 DEF TypeOK, LlmTyped, llm
    <2> QED BY <1>2, <2>1, DocumentsTypes, ControlTypes DEF TypeOK, ControlTyped
  <1>3. CASE LlmNext /\ UNCHANGED toolkit
    BY <1>3, LlmTypes DEF StopsAnEntry, IsFirst, toolkit
  <1>4. CASE Host /\ UNCHANGED <<toolkit, llm>>
    BY <1>4, HostTypes DEF StopsAnEntry, IsFirst, toolkit
  <1> QED BY <1>1, <1>2, <1>3, <1>4, NextIsOneOfThree

LEMMA InitTypes == Init => TypeOK /\ StopsAnEntry
  <1> SUFFICES ASSUME Init PROVE TypeOK /\ StopsAnEntry
    OBVIOUS
  <1>1. HostTyped
    BY ToolkitAssumption DEF Init, HostTyped, ProcStates, AliveStates
  <1>2. DocumentsTyped
    BY ToolkitAssumption DEF Init, InitToolkit, DocumentsTyped
  <1>3. ToolkitTyped
    BY EmptyIsTyped DEF Init, InitToolkit, ToolkitTyped, Modes
  <1>4. LlmTyped
    BY DEF Init, InitLlm, LlmTyped
  <1> QED BY <1>1, <1>2, <1>3, <1>4 DEF TypeOK, StopsAnEntry, Init, InitToolkit

(* The variables have their types in every state of every run.              *)
THEOREM TypeCorrect == Spec => []TypeOK
  <1> QED BY InitTypes, StepTypes, PTL DEF Spec

-----------------------------------------------------------------------------
(* Where a program goes that starts or stops a server.                      *)
LEMMA StopServerGoes ==
  ASSUME NEW m, NEW place, StopServer(m, place)
  PROVE  \/ pc' = "stopping" /\ mode' = m /\ then' = place
         \/ pc' = place /\ UNCHANGED <<mode, then>>
  BY DEF StopServer

LEMMA ExitGoes ==
  ASSUME Exit
  PROVE  pc' \in {"exiting", "down"}
  BY DEF Exit

LEMMA StartServerGoes ==
  ASSUME NEW m, StartServer(m)
  PROVE  (pc' = "spawned" /\ mode' = m) \/ pc' \in {"exiting", "down"}
  BY ExitGoes DEF StartServer

-----------------------------------------------------------------------------
(* The documents.  Of one that no run has died over, the database has all   *)
(* or nothing, but while it is being embedded; its text is there as a whole *)
(* or not, but while it is being written; and what a run has passed is in   *)
(* the database.                                                            *)
AllOrNothing ==
  \A d \in Doc \ cut : db[d] \in {0, Chunks} \/ (d = doc /\ pc = "embedding")
TextsAreWhole ==
  \A d \in Doc \ cut : texts[d] \in {"none", "whole"} \/ (d = doc /\ pc = "writing")
EmbedsTheWhole ==
  (/\ doc \in Doc \ cut
   /\ pc \in {"spawned", "waiting", "embedding"} \/ (pc = "stopping" /\ then = "embedding")) => texts[doc] = "whole"
PassedAreIn ==
  pc # "down" => \A d \in Doc \ (cut \cup todo) : db[d] = Chunks \/ d = doc
NoDocumentAtRest ==
  (\/ pc \in {"documents", "prompt", "answering"}
   \/ pc \in {"spawned", "waiting"} /\ mode = "chat"
   \/ pc = "stopping" /\ then \in {"documents", "prompt", "answering"}) => doc = "none"
NothingToDoWhenAsked ==
  (\/ pc \in {"prompt", "answering"}
   \/ pc = "stopping" /\ then \in {"prompt", "answering"}
   \/ doc = "none" /\ pc \in {"spawned", "waiting", "embedding"}
   \/ doc = "none" /\ pc = "stopping" /\ then = "embedding") => todo = {}

Documents ==
  /\ AllOrNothing /\ TextsAreWhole /\ EmbedsTheWhole /\ PassedAreIn
  /\ NoDocumentAtRest /\ NothingToDoWhenAsked

LEMMA DocumentsStep ==
  ASSUME TypeOK, Documents, ToolkitNext
  PROVE  Documents'
  <1> USE DEF Documents, AllOrNothing, TextsAreWhole, EmbedsTheWhole, PassedAreIn,
              NoDocumentAtRest, NothingToDoWhenAsked, kept
  <1>0. DocumentsTyped /\ "none" \notin Doc /\ Chunks # 0
    BY ToolkitAssumption DEF TypeOK
  <1>t. /\ pc # "waiting" \/ mode \in {"embedding", "chat"}
        /\ then \in {"down", "documents", "embedding", "prompt", "answering", "leaving", "exiting"}
    BY DEF TypeOK, ToolkitTyped, Modes
  <1> USE <1>0
  <1>s. cut \subseteq Spoilt /\ doc \notin Doc \ Spoilt /\ Spoilt \subseteq Doc
    BY DEF Spoilt, DocumentsTyped
  <1>1. CASE Start BY <1>1 DEF Start
  <1>2. ASSUME NEW d \in Doc, WriteText(d) PROVE Documents'
    BY <1>2 DEF WriteText, DocumentsTyped
  <1>3. ASSUME NEW d \in Doc, LookUp(d) PROVE Documents'
    <2>1. CASE db[d] = 0
      <3>1. doc' = d /\ todo' = todo \ {d} /\ UNCHANGED <<db, cut>>
        BY <1>3, <2>1 DEF LookUp
      <3>2. (pc' = "spawned" /\ mode' = "embedding") \/ pc' \in {"exiting", "down"}
        BY <1>3, <2>1, StartServerGoes DEF LookUp
      <3>3. /\ pc \in {"documents", "writing"} /\ (pc = "writing" => doc = d)
            /\ texts' = IF pc = "writing" THEN [texts EXCEPT ![d] = "whole"] ELSE texts
            /\ pc = "documents" => texts[d] # "none"
        BY <1>3 DEF LookUp, HasText
      <3> QED BY <3>1, <3>2, <3>3 DEF DocumentsTyped
    <2>2. CASE db[d] # 0
      <3>1. /\ doc' = "none" /\ pc' = "documents" /\ todo' = todo \ {d} /\ UNCHANGED <<db, cut>>
            /\ pc \in {"documents", "writing"} /\ (pc = "writing" => doc = d)
            /\ texts' = IF pc = "writing" THEN [texts EXCEPT ![d] = "whole"] ELSE texts
        BY <1>3, <2>2 DEF LookUp
      <3> QED BY <2>2, <3>1 DEF DocumentsTyped
    <2> QED BY <2>1, <2>2
  <1>4. CASE Healthy BY <1>4, <1>t DEF Healthy
  <1>5. CASE TimesOut BY <1>5, <1>t, StopServerGoes DEF TimesOut
  <1>6. CASE Leaving BY <1>6, ExitGoes DEF Leaving
  <1>7. CASE SaveChunk BY <1>7 DEF SaveChunk, DocumentsTyped
  <1>8. CASE DocumentDone
    <2>1. doc \in Doc \ cut => db[doc] = Chunks
      BY <1>8 DEF DocumentDone, Size
    <2> QED BY <1>8, <2>1, StopServerGoes DEF DocumentDone
  <1>9. CASE ChunkRefused BY <1>9, <1>s, ExitGoes DEF ChunkRefused
  <1>10. CASE ChunkFails BY <1>10, <1>s, StopServerGoes DEF ChunkFails
  <1>11. CASE StartChat BY <1>11, StartServerGoes DEF StartChat
  <1>12. CASE Ask BY <1>12, StartServerGoes DEF Ask
  <1>13. CASE ContextFound BY <1>13, StopServerGoes DEF ContextFound
  <1>14. CASE ContextFails BY <1>14, StopServerGoes DEF ContextFails
  <1>15. CASE Answered BY <1>15 DEF Answered
  <1>16. CASE Quit BY <1>16, StopServerGoes DEF Quit
  <1>17. CASE Stopped BY <1>17, <1>t DEF Stopped
  <1>18. CASE StopNext
    <2>1. UNCHANGED <<doc, todo, texts, db, cut>> /\ pc = "exiting"
      BY <1>18 DEF StopNext
    <2>2. pc' \in {"exiting", "down"} \/ (pc' = "stopping" /\ then' = "exiting")
      <3>1. CASE at < Len(table)
        <4>1. StopServer(table[at + 1].mode, "exiting")
          BY <1>18, <3>1 DEF StopNext
        <4> QED BY <4>1, StopServerGoes
      <3>2. CASE ~ at < Len(table)
        BY <1>18, <3>2 DEF StopNext
      <3> QED BY <3>1, <3>2
    <2> QED BY <2>1, <2>2
  <1>19. CASE Die BY <1>19, <1>s DEF Die
  <1>20. ASSUME NEW t \in BOOLEAN, Interrupt(t) PROVE Documents'
    BY <1>20, <1>s, ExitGoes DEF Interrupt
  <1>22. CASE Tables BY <1>22 DEF Tables
  <1>21. ASSUME NEW t \in BOOLEAN, InterruptSwallowed(t) PROVE Documents'
    BY <1>21 DEF InterruptSwallowed, toolkit
  <1> QED BY <1>1, <1>2, <1>3, <1>4, <1>5, <1>6, <1>7, <1>8, <1>9, <1>10, <1>11, <1>12,
             <1>13, <1>14, <1>15, <1>16, <1>17, <1>18, <1>19, <1>20, <1>21, <1>22 DEF ToolkitNext

LEMMA DocumentsAlways == Spec => []Documents
  <1>1. Init => Documents
    BY ToolkitAssumption DEF Init, InitToolkit, Documents, AllOrNothing, TextsAreWhole,
       EmbedsTheWhole, PassedAreIn, NoDocumentAtRest, NothingToDoWhenAsked
  <1>2. TypeOK /\ Documents /\ [Next]_vars => Documents'
    <2> SUFFICES ASSUME TypeOK, Documents, [Next]_vars PROVE Documents'
      OBVIOUS
    <2>1. CASE UNCHANGED toolkit
      BY <2>1 DEF toolkit, Documents, AllOrNothing, TextsAreWhole,
         EmbedsTheWhole, PassedAreIn, NoDocumentAtRest, NothingToDoWhenAsked
    <2>2. CASE ToolkitNext
      BY <2>2, DocumentsStep
    <2> QED BY <2>1, <2>2, NextIsOneOfThree DEF vars
  <1> QED BY <1>1, <1>2, TypeCorrect, PTL DEF Spec

(* The documents a run finds when questions can be asked are whole, unless  *)
(* a run has died over them: the property DocumentsAreWhole.                *)
THEOREM EmbeddedWhole == Spec => []DocumentsAreWhole
  <1>1. Documents => DocumentsAreWhole
    BY ToolkitAssumption DEF Documents, PassedAreIn, NoDocumentAtRest, NothingToDoWhenAsked,
       DocumentsAreWhole
  <1> QED BY <1>1, DocumentsAlways, PTL

-----------------------------------------------------------------------------
(* The engine.  Unless its copying has been broken off it is there as a     *)
(* whole or not at all.                                                     *)
EngineIsWhole ==
  /\ broken \/ engine \in {"none", "whole"}
  /\ lpc = "analysis" => engine # "none"
  /\ EngineIsMissedOnlyWhenBroken

(* An engine that is taken for complete and cannot be run comes of a run    *)
(* that was broken off while it was copied, for a build that fails leaves   *)
(* none and goes no further: the property EngineIsMissedOnlyWhenBroken.     *)
THEOREM MissedOnlyWhenBroken == Spec => []EngineIsMissedOnlyWhenBroken
  <1>1. Init => EngineIsWhole
    BY DEF Init, InitLlm, EngineIsWhole, EngineIsMissedOnlyWhenBroken
  <1>2. EngineIsWhole /\ [Next]_vars => EngineIsWhole'
    <2> SUFFICES ASSUME EngineIsWhole, [Next]_vars PROVE EngineIsWhole'
      OBVIOUS
    <2> USE DEF EngineIsWhole, EngineIsMissedOnlyWhenBroken
    <2>1. CASE UNCHANGED llm
      BY <2>1 DEF llm
    <2>2. CASE LlmNext
      <3>1. CASE BeginRun BY <3>1 DEF BeginRun, HasEngine
      <3>2. CASE Built \/ BuildFails \/ Copied BY <3>2 DEF Built, BuildFails, Copied
      <3>3. CASE CopyFails BY <3>3 DEF CopyFails
      <3>4. CASE NoExecutable BY <3>4 DEF NoExecutable
      <3>5. CASE HealthTimesOut \/ TriageEnds BY <3>5 DEF HealthTimesOut, TriageEnds, StopThen
      <3>6. CASE NothingToTriage \/ Popen \/ PopenReturns \/ PollFails \/ PollSucceeds
        BY <3>6 DEF NothingToTriage, Popen, PopenReturns, PollFails, PollSucceeds
      <3>7. CASE HealthOk \/ HealthFails \/ Waited \/ WaitTimesOut
        BY <3>7 DEF HealthOk, HealthFails, Waited, WaitTimesOut, llm
      <3>8. CASE DieLlm BY <3>8 DEF DieLlm, Left
      <3>9. ASSUME NEW terminal \in BOOLEAN, Signal(terminal) PROVE EngineIsWhole'
        BY <3>9 DEF Signal, Left
      <3> QED BY <2>2, <3>1, <3>2, <3>3, <3>4, <3>5, <3>6, <3>7, <3>8, <3>9 DEF LlmNext
    <2> QED BY <2>1, <2>2, NextIsOneOfThree DEF vars
  <1>3. EngineIsWhole => EngineIsMissedOnlyWhenBroken
    BY DEF EngineIsWhole
  <1> QED BY <1>1, <1>2, <1>3, PTL DEF Spec

-----------------------------------------------------------------------------
(* The manager's process.                                                   *)
Handles ==
  /\ lpc \in {"down", "building", "copying", "analysis"}
       => own = NoProcess /\ spawned = NoProcess
  /\ lpc = "spawned" => own = NoProcess /\ spawned \in Pid
  /\ lpc \in {"polling", "health", "triage", "stopping"}
       => own \in Pid /\ spawned = NoProcess
  /\ \A p \in Pid : p \in {own, spawned} => procs[p].port = "11434"

(* Nobody but the process that a run has started is there to be asked, a    *)
(* port has one holder, and the one that was found ready stays so.          *)
OneHolder == \A p, q \in Pid : Holds(p, "11434") /\ Holds(q, "11434") => p = q

OthersEnd ==
  ~ disturbed => \A p \in Pid : \/ p \in {own, spawned}
                                \/ procs[p].port = "11434" => procs[p].state \in {"stopping", "dead"}

TriagesReady == lpc = "triage" /\ ~ disturbed => procs[own].state = "ready"

Managed == Handles /\ OneHolder /\ OthersEnd /\ TriagesReady

(* What a step of LCPToolkit does to processes.                             *)
Effect ==
  \/ procs' = procs
  \/ \E S : procs' = Signalled(S)
  \/ \E p \in Pid, m \in Modes : /\ ~ Alive(p) /\ p \notin Tabled
                                 /\ procs' = Launched(p, PortOf(m))

LEMMA StopServerEffect ==
  ASSUME NEW m, NEW place, StopServer(m, place)
  PROVE  Effect
  BY DEF StopServer, Effect

LEMMA StartServerEffect ==
  ASSUME NEW m \in Modes, StartServer(m)
  PROVE  Effect
  BY DEF StartServer, Effect

LEMMA ToolkitEffect ==
  ASSUME ToolkitNext
  PROVE  Effect
  <1>m. "embedding" \in Modes /\ "chat" \in Modes
    BY DEF Modes
  <1>u. ASSUME procs' = procs PROVE Effect
    BY <1>u DEF Effect
  <1>s. ASSUME NEW S, procs' = Signalled(S) PROVE Effect
    BY <1>s DEF Effect
  <1>1. CASE Start BY <1>1, <1>u DEF Start
  <1>2. ASSUME NEW d \in Doc, WriteText(d) PROVE Effect
    BY <1>2, <1>u DEF WriteText
  <1>3. ASSUME NEW d \in Doc, LookUp(d) PROVE Effect
    BY <1>3, <1>u, StartServerEffect, <1>m DEF LookUp
  <1>4. CASE Healthy \/ Leaving \/ SaveChunk \/ ChunkRefused \/ Answered \/ Stopped \/ Die
             \/ Tables
    BY <1>4, <1>u DEF Tables, Healthy, Leaving, SaveChunk, ChunkRefused, Answered, Stopped, Die
  <1>5. CASE TimesOut BY <1>5, StopServerEffect DEF TimesOut
  <1>6. CASE DocumentDone BY <1>6, StopServerEffect DEF DocumentDone
  <1>7. CASE ChunkFails BY <1>7, StopServerEffect DEF ChunkFails
  <1>8. CASE ContextFound BY <1>8, StopServerEffect DEF ContextFound
  <1>9. CASE ContextFails BY <1>9, StopServerEffect DEF ContextFails
  <1>10. CASE Quit BY <1>10, StopServerEffect DEF Quit
  <1>11. CASE StartChat \/ Ask BY <1>11, StartServerEffect, <1>m DEF StartChat, Ask
  <1>12. CASE StopNext
    <2>1. CASE at < Len(table)
      <3>1. StopServer(table[at + 1].mode, "exiting")
        BY <1>12, <2>1 DEF StopNext
      <3> QED BY <3>1, StopServerEffect
    <2>2. CASE ~ at < Len(table) BY <1>12, <2>2, <1>u DEF StopNext
    <2> QED BY <2>1, <2>2
  <1>13. ASSUME NEW t \in BOOLEAN, Interrupt(t) PROVE Effect
    BY <1>13, <1>u, <1>s DEF Interrupt
  <1>14. ASSUME NEW t \in BOOLEAN, InterruptSwallowed(t) PROVE Effect
    BY <1>14, <1>u, <1>s DEF InterruptSwallowed
  <1> QED BY <1>1, <1>2, <1>3, <1>4, <1>5, <1>6, <1>7, <1>8, <1>9, <1>10, <1>11, <1>12,
             <1>13, <1>14 DEF ToolkitNext

(* LCPToolkit has nothing to do with the manager's port, nor the manager    *)
(* with LCPToolkit's table.                                                 *)
Apart ==
  /\ program \in {"LCPToolkit", "edacurry2427"}
  /\ program = "LCPToolkit" =>
       /\ lpc = "down"
       /\ \A p \in Pid : procs[p].port # "11434"
  /\ program = "edacurry2427" => pc = "down" /\ table = <<>>

LEMMA HostEffect ==
  ASSUME HostTyped, Host
  PROVE  \E p \in Pid : \/ /\ procs[p].state = "starting"
                           /\ procs' = [procs EXCEPT ![p].state =
                                          IF \E q \in Pid : Holds(q, procs[p].port)
                                          THEN "dead" ELSE "loading"]
                           /\ UNCHANGED disturbed
                        \/ /\ procs[p].state = "loading"
                           /\ procs' = [procs EXCEPT ![p].state = "ready"]
                           /\ UNCHANGED disturbed
                        \/ /\ procs[p].state = "stopping"
                           /\ procs' = [procs EXCEPT ![p].state = "dead"]
                           /\ UNCHANGED disturbed
                        \/ /\ Alive(p)
                           /\ procs' = [procs EXCEPT ![p].state = "dead"]
                           /\ disturbed'
  BY DEF Host, Bind, Load, Stop, Fail, Young, Killed, Alive, AliveStates

LEMMA ApartStep ==
  ASSUME TypeOK, Apart, [Next]_vars
  PROVE  Apart'
  <1>0. HostTyped
    BY DEF TypeOK
  <1>1. CASE UNCHANGED vars BY <1>1 DEF vars, Apart, toolkit, llm
  <1>2. CASE UNCHANGED program /\ program = "LCPToolkit" /\ ToolkitNext /\ UNCHANGED llm
    <2>1. \A m : PortOf(m) # "11434"
      BY DEF PortOf
    <2>2. \A p \in Pid : procs'[p].port # "11434"
      BY <1>0, <1>2, <2>1, ToolkitEffect DEF Effect, Apart, Signalled, Launched, HostTyped
    <2> QED BY <1>2, <2>2 DEF Apart, llm
  <1>3. CASE UNCHANGED program /\ program = "edacurry2427" /\ LlmNext /\ UNCHANGED toolkit
    BY <1>3 DEF Apart, toolkit
  <1>4. CASE UNCHANGED program /\ Host /\ UNCHANGED <<toolkit, llm>>
    <2>1. \A p \in Pid : procs'[p].port = procs[p].port
      BY <1>0, <1>4, HostEffect DEF HostTyped
    <2> QED BY <1>4, <2>1 DEF Apart, toolkit, llm
  <1> QED BY <1>1, <1>2, <1>3, <1>4, NextIsOneOfThree

LEMMA ManagedByHost ==
  ASSUME TypeOK, Managed, Host, UNCHANGED llm
  PROVE  Managed'
  <1>0. HostTyped /\ UNCHANGED <<lpc, own, spawned>>
    BY DEF TypeOK, llm
  <1>1. \A p \in Pid : procs'[p].port = procs[p].port
    BY <1>0, HostEffect DEF HostTyped
  <1>2. Handles'
    BY <1>0, <1>1 DEF Managed, Handles
  <1>3. OneHolder'
    BY <1>0, <1>1, HostEffect DEF Managed, OneHolder, Holds, HostTyped, Alive
  <1>4. OthersEnd'
    BY <1>0, <1>1, HostEffect DEF Managed, OthersEnd, HostTyped
  <1>5. TriagesReady'
    BY <1>0, HostEffect DEF Managed, TriagesReady, Handles, HostTyped
  <1> QED BY <1>2, <1>3, <1>4, <1>5 DEF Managed

(* What a step of the manager does to its process is one of five things.    *)
LEMMA OnlyHandles ==
  ASSUME TypeOK, Managed, UNCHANGED <<procs, disturbed>>, Handles',
         {own, spawned} \cap Pid \subseteq {own', spawned'}, lpc' # "triage"
  PROVE  Managed'
  BY DEF Managed, OneHolder, OthersEnd, TriagesReady, Holds, TypeOK, HostTyped

LEMMA Forgotten ==
  ASSUME TypeOK, Managed, UNCHANGED <<procs, disturbed>>, own' = NoProcess, spawned' = NoProcess,
         spawned = NoProcess, lpc' = "down", own = NoProcess \/ ~ Alive(own)
  PROVE  Managed'
  <1>1. own \in Pid => procs[own].state \in {"stopping", "dead"}
    BY PidAssumption DEF NoProcess, Alive, AliveStates, ProcStates, TypeOK, HostTyped
  <1>2. own \in Pid \/ own = NoProcess
    BY DEF TypeOK, LlmTyped
  <1>3. Handles'
    BY PidAssumption DEF Handles, NoProcess
  <1> QED BY <1>1, <1>2, <1>3, PidAssumption DEF Managed, OneHolder, OthersEnd, TriagesReady, Holds, NoProcess

LEMMA Stopping ==
  ASSUME TypeOK, Managed, NEW S, procs' = Signalled(S), lpc' \notin {"triage", "spawned"}, Handles',
         ~ disturbed' => ~ disturbed /\ \A p \in {own, spawned} \cap Pid :
                           p \in {own', spawned'} \/ p \in S \/ ~ Alive(p)
  PROVE  Managed'
  <1>0. HostTyped
    BY DEF TypeOK
  <1>1. \A p \in Pid : /\ procs'[p].port = procs[p].port
                       /\ procs'[p].state = IF p \in S THEN Hit(procs[p].state) ELSE procs[p].state
                       /\ procs[p].state \in ProcStates
    BY <1>0 DEF Signalled, HostTyped
  <1>2. OneHolder'
    BY <1>1 DEF Managed, OneHolder, Holds, Hit
  <1>3. OthersEnd'
    BY <1>1 DEF Managed, OthersEnd, Hit, Alive, AliveStates, ProcStates
  <1> QED BY <1>2, <1>3 DEF Managed, TriagesReady

LEMMA ManagedStep ==
  ASSUME TypeOK, Managed, program = "edacurry2427", LlmNext
  PROVE  Managed'
  <1>0. HostTyped /\ LlmTyped /\ Handles /\ NoProcess \notin Pid
    BY PidAssumption DEF TypeOK, Managed, NoProcess
  <1>1. CASE BeginRun \/ Built \/ BuildFails \/ Copied \/ CopyFails \/ NothingToTriage
          \/ NoExecutable
    <2>1. UNCHANGED <<procs, disturbed, own, spawned>>
      BY <1>1 DEF BeginRun, Built, BuildFails, Copied, CopyFails, NothingToTriage, NoExecutable
    <2>2. lpc \in {"down", "building", "copying", "analysis"}
      BY <1>1 DEF BeginRun, Built, BuildFails, Copied, CopyFails, NothingToTriage, NoExecutable
    <2>3. lpc' \in {"down", "building", "copying", "analysis"}
      BY <1>1 DEF BeginRun, Built, BuildFails, Copied, CopyFails, NothingToTriage, NoExecutable
    <2>4. Handles'
      BY <1>0, <2>1, <2>2, <2>3 DEF Handles
    <2> QED BY <2>1, <2>3, <2>4, OnlyHandles
  <1>2. CASE Popen
    <2>1. PICK p \in Pid : ~ Alive(p) /\ procs' = Launched(p, "11434") /\ spawned' = p
      BY <1>2 DEF Popen
    <2>2. lpc = "analysis" /\ lpc' = "spawned" /\ UNCHANGED <<disturbed, own>>
      BY <1>2 DEF Popen
    <2>3. \A q \in Pid : procs'[q] = IF q = p THEN [state |-> "starting", port |-> "11434"] ELSE procs[q]
      BY <1>0, <2>1 DEF Launched, HostTyped
    <2>4. Handles'
      BY <1>0, <2>1, <2>2, <2>3 DEF Handles
    <2>5. OneHolder' /\ OthersEnd'
      BY <1>0, <2>1, <2>2, <2>3 DEF Managed, Handles, OneHolder, OthersEnd, Holds
    <2> QED BY <2>2, <2>4, <2>5 DEF Managed, TriagesReady
  <1>3. CASE PopenReturns
    <2>1. UNCHANGED <<procs, disturbed>> /\ lpc' = "polling" /\ own' = spawned /\ spawned' = NoProcess
      BY <1>3 DEF PopenReturns
    <2>2. own = NoProcess /\ spawned \in Pid /\ procs[spawned].port = "11434"
      BY <1>0, <1>3 DEF PopenReturns, Handles
    <2>3. Handles'
      BY <1>0, <2>1, <2>2 DEF Handles
    <2> QED BY <1>0, <2>1, <2>2, <2>3, OnlyHandles
  <1>4. CASE PollFails
    <2>1. spawned = NoProcess
      BY <1>0, <1>4 DEF PollFails, Handles
    <2> QED BY <1>4, <2>1, Forgotten DEF PollFails
  <1>5. CASE PollSucceeds \/ HealthFails
    <2>1. UNCHANGED <<procs, disturbed, own, spawned>> /\ lpc' \in {"health", "polling"}
      BY <1>5 DEF PollSucceeds, HealthFails
    <2>2. Handles'
      BY <1>0, <1>5, <2>1 DEF Handles, PollSucceeds, HealthFails
    <2> QED BY <2>1, <2>2, OnlyHandles
  <1>6. CASE HealthOk
    <2>1. /\ UNCHANGED <<procs, disturbed, own, spawned>> /\ lpc' = "triage" /\ lpc = "health"
          /\ \E p \in Pid : procs[p].state = "ready" /\ procs[p].port = "11434"
      BY <1>6 DEF HealthOk, Answers
    <2>2. Handles'
      BY <1>0, <2>1 DEF Handles
    <2>3. ~ disturbed => procs[own].state = "ready"
      BY <1>0, <2>1 DEF Managed, OthersEnd, Handles
    <2> QED BY <2>1, <2>2, <2>3 DEF Managed, OneHolder, OthersEnd, TriagesReady, Holds
  <1>7. CASE HealthTimesOut \/ TriageEnds
    <2>0. PICK how : StopThen(how) /\ UNCHANGED <<disturbed, spawned>>
      BY <1>7 DEF HealthTimesOut, TriageEnds
    <2>1. lpc \in {"polling", "health", "triage"} /\ own \in Pid /\ spawned = NoProcess
      BY <1>0, <1>7 DEF HealthTimesOut, TriageEnds, Handles
    <2>2. CASE Alive(own)
      <3>1. procs' = Signalled({own}) /\ lpc' = "stopping" /\ own' = own
        BY <1>0, <2>0, <2>1, <2>2 DEF StopThen
      <3>2. Handles'
        BY <1>0, <2>0, <2>1, <3>1 DEF Handles, Signalled, HostTyped
      <3> QED BY <1>0, <2>0, <2>1, <3>1, <3>2, Stopping
    <2>3. CASE ~ Alive(own)
      <3>1. procs' = procs /\ lpc' = "down" /\ own' = NoProcess
        BY <2>0, <2>3 DEF StopThen
      <3> QED BY <2>0, <2>1, <2>3, <3>1, Forgotten
    <2> QED BY <2>2, <2>3
  <1>8. CASE Waited
    <2>1. spawned = NoProcess
      BY <1>0, <1>8 DEF Waited, Handles
    <2> QED BY <1>8, <2>1, Forgotten DEF Waited
  <1>9. CASE WaitTimesOut
    <2>1. lpc = "stopping" /\ procs' = Killed(own) /\ UNCHANGED <<disturbed, lpc, own, spawned>>
      BY <1>9 DEF WaitTimesOut, llm
    <2>2. \A q \in Pid : /\ procs'[q].port = procs[q].port
                         /\ procs'[q].state = IF q = own THEN "dead" ELSE procs[q].state
      BY <1>0, <2>1 DEF Killed, HostTyped
    <2> QED BY <2>1, <2>2 DEF Managed, Handles, OneHolder, OthersEnd, TriagesReady, Holds
  <1>10. CASE DieLlm
    <2>1. /\ procs' = procs /\ disturbed' /\ lpc' = "down"
          /\ own' = NoProcess /\ spawned' = NoProcess
      BY <1>10 DEF DieLlm
    <2> QED BY <1>0, <2>1 DEF Managed, Handles, OneHolder, OthersEnd, TriagesReady, Holds
  <1>11. ASSUME NEW terminal \in BOOLEAN, Signal(terminal) PROVE Managed'
    <2> DEFINE hit == IF terminal THEN {own, spawned} \cap Pid ELSE {}
               stopped == IF own # NoProcess /\ Alive(own) THEN {own} ELSE {}
    <2>1. /\ procs' = Signalled(hit \cup stopped)
          /\ lpc' = IF own # NoProcess /\ Alive(own) THEN "stopping" ELSE "down"
          /\ own' = IF own # NoProcess /\ Alive(own) THEN own ELSE NoProcess
          /\ spawned' = NoProcess
          /\ disturbed' = (disturbed \/ (spawned # NoProcess /\ ~ terminal))
      BY <1>11 DEF Signal
    <2>2. own \in Pid \/ own = NoProcess
      BY <1>0 DEF LlmTyped
    <2>3. \A p \in Pid : procs'[p].port = procs[p].port
      BY <1>0, <2>1 DEF Signalled, HostTyped
    <2>4. Handles'
      BY <1>0, <2>1, <2>2, <2>3 DEF Handles
    <2>5. ~ disturbed' => ~ disturbed /\ \A p \in {own, spawned} \cap Pid :
                            p \in {own', spawned'} \/ p \in hit \cup stopped \/ ~ Alive(p)
      BY <1>0, <2>1, <2>2 DEF TypeOK, HostTyped
    <2>6. lpc' \notin {"triage", "spawned"}
      BY <2>1
    <2> HIDE DEF hit, stopped
    <2> QED BY <2>1, <2>4, <2>5, <2>6, Stopping
  <1> QED BY <1>1, <1>2, <1>3, <1>4, <1>5, <1>6, <1>7, <1>8, <1>9, <1>10, <1>11 DEF LlmNext

(* Of the other program's runs nothing is said.                             *)
ManagedRuns == program = "edacurry2427" => Managed

LEMMA ManagedAlways == Spec => [](Apart /\ ManagedRuns)
  <1>1. Init => Apart
    BY DEF Init, InitToolkit, InitLlm, Apart
  <1>2. Init => ManagedRuns
    BY PidAssumption DEF Init, InitLlm, ManagedRuns, Managed, Handles, OneHolder, OthersEnd,
       TriagesReady, Holds, NoProcess
  <1>3. TypeOK /\ ManagedRuns /\ [Next]_vars => ManagedRuns'
    <2> SUFFICES ASSUME TypeOK, ManagedRuns, [Next]_vars, program' = "edacurry2427" PROVE Managed'
      BY DEF ManagedRuns
    <2>1. CASE UNCHANGED vars
      BY <2>1 DEF vars, llm, ManagedRuns, Managed, Handles, OneHolder, OthersEnd, TriagesReady, Holds
    <2>2. CASE program = "edacurry2427" /\ LlmNext
      BY <2>2, ManagedStep DEF ManagedRuns
    <2>3. CASE Host /\ UNCHANGED llm /\ UNCHANGED program
      BY <2>3, ManagedByHost DEF ManagedRuns
    <2> QED BY <2>1, <2>2, <2>3, NextIsOneOfThree
  <1> QED BY <1>1, <1>2, <1>3, ApartStep, TypeCorrect, PTL DEF Spec

(* The triage is answered by the server its run has started: the property   *)
(* TriageIsOwn.                                                             *)
THEOREM OwnTriage == Spec => []TriageIsOwn
  <1>1. TypeOK /\ Apart /\ ManagedRuns => TriageIsOwn
    <2> SUFFICES ASSUME TypeOK, Apart, ManagedRuns, lpc = "triage", ~ disturbed,
                        NEW p \in Pid, procs[p].port = "11434", Alive(p)
                 PROVE  p = own
      BY DEF TriageIsOwn
    <2>1. Managed
      BY DEF Apart, ManagedRuns
    <2>2. own \in Pid /\ spawned = NoProcess /\ procs[own].port = "11434" /\ procs[own].state = "ready"
      BY <2>1 DEF Managed, Handles, TriagesReady
    <2>3. CASE p = spawned
      BY <2>2, <2>3, PidAssumption DEF NoProcess
    <2>4. CASE p \notin {own, spawned}
      <3>1. procs[p].state = "stopping"
        BY <2>1, <2>4 DEF Managed, OthersEnd, Alive, AliveStates
      <3> QED BY <2>1, <2>2, <3>1 DEF Managed, OneHolder, Holds
    <2> QED BY <2>3, <2>4
  <1> QED BY <1>1, ManagedAlways, TypeCorrect, PTL

(* A run that ends, but by a kill, leaves no server behind: the property    *)
(* ServerIsStopped.                                                         *)
THEOREM StoppedInTheEnd == Spec => []ServerIsStopped
  <1>1. TypeOK /\ Apart /\ ManagedRuns => ServerIsStopped
    BY PidAssumption DEF Apart, ManagedRuns, Managed, Handles, OthersEnd, ServerIsStopped, NoProcess
  <1> QED BY <1>1, ManagedAlways, TypeCorrect, PTL

-----------------------------------------------------------------------------
(* The table.  A process that has died never lives again while it is in it; *)
(* so the first entry of a mode, if its process lives, is the only one.     *)
NoneRevives == \A p \in Tabled : Alive(p)' => Alive(p)

Lives(i) == Alive(table[i].pid)

Alone(m) ==
  \A i, j \in DOMAIN table :
    IsFirst(i, m) /\ Lives(i) /\ table[j].mode = m => j = i
Absent(m) == \A i \in DOMAIN table : table[i].mode # m
Single(m) == \A i, j \in DOMAIN table : table[i].mode = m /\ table[j].mode = m => i = j

(* Before a server is started, none of its mode is running.                 *)
Quiet ==
  (\/ pc \in {"documents", "writing", "prompt", "answering"}
   \/ pc \in {"spawned", "waiting"} /\ mode = "chat") => ~ Running("embedding")
Fresh == pc = "spawned" => child \notin Tabled /\ ~ Running(mode)
NoChatYet ==
  pc \in {"documents", "writing"} \/ doc # "none" \/ (pc = "stopping" /\ then = "documents")
    => Absent("chat")
StopsTheOnly ==
  pc = "stopping" => /\ Single(mode) /\ then # "down"
                     /\ then \in {"documents", "prompt", "answering"} => mode = "embedding"

Orderly ==
  /\ \A m \in Modes : Alone(m)
  /\ pc = "down" => table = <<>>
  /\ Quiet /\ Fresh /\ NoChatYet /\ StopsTheOnly

LEMMA SameTable ==
  ASSUME UNCHANGED table, NoneRevives
  PROVE  /\ \A m : Alone(m) => Alone(m)'
         /\ \A m : Running(m)' => Running(m)
         /\ \A m : Absent(m) => Absent(m)'
         /\ \A m : Single(m) => Single(m)'
  BY DEF NoneRevives, Tabled, Alone, Running, Absent, Single, IsFirst, Lives, Alive

LEMMA NoTable ==
  ASSUME table = <<>>
  PROVE  \A m : Alone(m) /\ ~ Running(m) /\ Absent(m) /\ Single(m)
  <1>1. DOMAIN table = {}
    OBVIOUS
  <1> QED BY <1>1 DEF Alone, Running, Absent, Single

LEMMA OneMore ==
  ASSUME table \in Seq(Entries), NEW m \in Modes, NEW p \in Pid, ~ Running(m), p \notin Tabled,
         table' = Append(table, Entry(m, p)), NoneRevives
  PROVE  /\ \A n \in Modes : Alone(n) => Alone(n)'
         /\ \A n \in Modes \ {m} : (Running(n)' => Running(n)) /\ (Absent(n) => Absent(n)')
  <1>1. /\ Len(table) \in Nat /\ DOMAIN table = 1 .. Len(table)
        /\ DOMAIN table' = 1 .. Len(table) + 1
        /\ \A i \in DOMAIN table : table'[i] = table[i]
        /\ table'[Len(table) + 1].mode = m
    BY DEF Entry
  <1>2. \A i \in DOMAIN table : \A n : IsFirst(i, n)' <=> IsFirst(i, n)
    BY <1>1 DEF IsFirst
  <1>3. \A i \in DOMAIN table : Lives(i)' => Lives(i)
    BY <1>1 DEF NoneRevives, Tabled, Alive, Lives
  <1>4. ASSUME NEW n \in Modes, Alone(n) PROVE Alone(n)'
    <2> SUFFICES ASSUME NEW i \in DOMAIN table', NEW j \in DOMAIN table',
                        IsFirst(i, n)', Lives(i)', table'[j].mode = n
                 PROVE  j = i
      BY DEF Alone
    <2>1. CASE i \in DOMAIN table /\ j \in DOMAIN table
      BY <1>1, <1>2, <1>3, <1>4, <2>1 DEF Alone
    <2>2. CASE i \in DOMAIN table /\ j = Len(table) + 1
      <3>1. n = m /\ IsFirst(i, m) /\ Lives(i)
        BY <1>1, <1>2, <1>3, <2>2
      <3> QED BY <2>2, <3>1 DEF Running, Lives
    <2>3. CASE i = Len(table) + 1
      BY <1>1, <2>3 DEF IsFirst
    <2> QED BY <1>1, <2>1, <2>2, <2>3
  <1>5. ASSUME NEW n \in Modes \ {m}, Running(n)' PROVE Running(n)
    <2>1. PICK i \in DOMAIN table' : IsFirst(i, n)' /\ Lives(i)'
      BY <1>5 DEF Running, Lives
    <2>2. i \in DOMAIN table
      BY <1>1, <1>5, <2>1 DEF IsFirst
    <2> QED BY <1>2, <1>3, <2>1, <2>2 DEF Running, Lives
  <1>6. ASSUME NEW n \in Modes \ {m}, Absent(n) PROVE Absent(n)'
    BY <1>1, <1>6 DEF Absent
  <1> QED BY <1>4, <1>5, <1>6

LEMMA OneLess ==
  ASSUME table \in Seq(Entries), NEW k \in DOMAIN table, NEW m, table[k].mode = m, Single(m),
         table' = Without(k), NoneRevives
  PROVE  /\ \A n \in Modes : Alone(n) => Alone(n)'
         /\ Absent(m)'
         /\ \A n : Absent(n) => Absent(n)'
  <1> DEFINE old(i) == IF i < k THEN i ELSE i + 1
  <1>1. /\ Len(table) \in Nat /\ DOMAIN table = 1 .. Len(table) /\ k \in 1 .. Len(table)
        /\ DOMAIN table' = 1 .. Len(table) - 1
        /\ \A i \in DOMAIN table' : table'[i] = table[old(i)]
    <2>1. Len(table) \in Nat /\ DOMAIN table = 1 .. Len(table) /\ k \in 1 .. Len(table)
      OBVIOUS
    <2>2. /\ table' \in Seq(Entries) /\ Len(table') = Len(table) - 1
          /\ \A j \in 1 .. Len(table) - 1 : table'[j] = table[old(j)]
      BY WithoutOne
    <2>3. DOMAIN table' = 1 .. Len(table')
      BY <2>2
    <2> QED BY <2>1, <2>2, <2>3
  <1>2. \A i \in DOMAIN table' : old(i) \in DOMAIN table \ {k}
    BY <1>1
  <1>3. \A j \in DOMAIN table \ {k} : \E i \in DOMAIN table' : old(i) = j
    <2> TAKE j \in DOMAIN table \ {k}
    <2>1. CASE j < k BY <1>1, <2>1
    <2>2. CASE j > k
      <3>1. j - 1 \in DOMAIN table' /\ old(j - 1) = j
        BY <1>1, <2>2
      <3> QED BY <3>1
    <2> QED BY <1>1, <2>1, <2>2
  <1>4. \A i \in DOMAIN table' : Lives(i)' => Lives(old(i))
    BY <1>1, <1>2 DEF NoneRevives, Tabled, Alive, Lives
  <1>5. Absent(m)'
    BY <1>1, <1>2 DEF Absent, Single
  <1>6. ASSUME NEW n, Absent(n) PROVE Absent(n)'
    BY <1>1, <1>2, <1>6 DEF Absent
  <1>7. ASSUME NEW n \in Modes, Alone(n) PROVE Alone(n)'
    <2>1. CASE n = m
      BY <1>5, <2>1 DEF Absent, Alone
    <2>2. CASE n # m
      <3> SUFFICES ASSUME NEW i \in DOMAIN table', NEW j \in DOMAIN table',
                          IsFirst(i, n)', Lives(i)', table'[j].mode = n
                   PROVE  j = i
        BY DEF Alone
      <3>1. IsFirst(old(i), n)
        <4>1. table[old(i)].mode = n
          BY <1>1 DEF IsFirst
        <4>2. ASSUME NEW h \in 1 .. old(i) - 1 PROVE table[h].mode # n
          <5>1. CASE h = k BY <2>2, <5>1
          <5>2. CASE h # k
            <6>0. old(i) \in 1 .. Len(table) /\ h \in 1 .. Len(table)
              BY <1>1, <1>2
            <6>1. PICK g \in DOMAIN table' : old(g) = h
              BY <1>1, <1>3, <5>2, <6>0
            <6>2. g \in 1 .. i - 1
              BY <1>1, <6>1
            <6> QED BY <1>1, <6>1, <6>2 DEF IsFirst
          <5> QED BY <5>1, <5>2
        <4> QED BY <4>1, <4>2 DEF IsFirst
      <3>2. old(j) = old(i)
        BY <1>1, <1>2, <1>4, <1>7, <3>1 DEF Alone
      <3> QED BY <1>1, <3>2
    <2> QED BY <2>1, <2>2
  <1> QED BY <1>5, <1>6, <1>7

LEMMA TabledAreProcesses ==
  ASSUME TypeOK
  PROVE  \A p \in Tabled : p \in Pid
  <1>1. table \in Seq(Entries)
    BY DEF TypeOK, ToolkitTyped
  <1>2. \A i \in DOMAIN table : table[i] \in Entries
    BY <1>1
  <1> QED BY <1>2 DEF Tabled, Entries

(* Only a process that is not in the table is ever launched.                *)
LEMMA ToolkitRevivesNone ==
  ASSUME TypeOK, ToolkitNext
  PROVE  NoneRevives
  <1>0. HostTyped /\ Effect
    BY ToolkitEffect DEF TypeOK
  <1>t. \A p \in Tabled : p \in Pid
    BY TabledAreProcesses
  <1>1. CASE procs' = procs
    BY <1>1 DEF NoneRevives, Alive
  <1>2. CASE \E S : procs' = Signalled(S)
    <2>1. PICK S : procs' = Signalled(S)
      BY <1>2
    <2>2. \A p \in Pid : procs'[p].state \in {procs[p].state, Hit(procs[p].state)}
      BY <1>0, <2>1 DEF Signalled, HostTyped
    <2> QED BY <1>t, <2>2 DEF NoneRevives, Alive, Hit, AliveStates
  <1>3. CASE \E p \in Pid, m \in Modes : p \notin Tabled /\ procs' = Launched(p, PortOf(m))
    BY <1>0, <1>t, <1>3 DEF NoneRevives, Alive, Launched, HostTyped
  <1> QED BY <1>0, <1>1, <1>2, <1>3 DEF Effect

LEMMA HostRevivesNone ==
  ASSUME TypeOK, Host
  PROVE  NoneRevives
  <1>1. \A p \in Tabled : p \in Pid
    BY TabledAreProcesses
  <1>2. HostTyped
    BY DEF TypeOK
  <1> QED BY <1>1, <1>2, HostEffect DEF NoneRevives, Alive, AliveStates, HostTyped

(* What a step that starts or stops a server leaves of the table.           *)
LEMMA ServerStopped ==
  ASSUME TypeOK, Orderly, NEW m \in Modes, NEW place, StopServer(m, place), NoneRevives,
         UNCHANGED table
  PROVE  \/ pc' = "stopping" /\ mode' = m /\ then' = place /\ Single(m)'
         \/ pc' = place /\ ~ Running(m)' /\ UNCHANGED <<mode, then>>
  <1>1. CASE Running(m)
    <2>1. pc' = "stopping" /\ mode' = m /\ then' = place
      BY <1>1 DEF StopServer
    <2>2. Single(m)
      <3>1. PICK i \in DOMAIN table : IsFirst(i, m) /\ Alive(table[i].pid)
        BY <1>1 DEF Running
      <3> QED BY <3>1 DEF Orderly, Alone, Single, Lives
    <2> QED BY <2>1, <2>2, SameTable
  <1>2. CASE ~ Running(m)
    BY <1>2, SameTable DEF StopServer
  <1> QED BY <1>1, <1>2

LEMMA ServerStarted ==
  ASSUME TypeOK, Orderly, NEW m \in Modes, StartServer(m), NoneRevives
  PROVE  /\ \A n \in Modes : Alone(n)'
         /\ \A n \in Modes : (Running(n)' => Running(n)) /\ (Absent(n) => Absent(n)')
         /\ \/ /\ pc' = "spawned" /\ mode' = m /\ UNCHANGED table
               /\ child' \notin Tabled' /\ ~ Running(m)'
            \/ pc' = "exiting"
            \/ pc' = "down" /\ table' = <<>>
  <1>1. CASE Running(m)
    <2>1. (pc' = "exiting" /\ table' = table) \/ (pc' = "down" /\ table' = <<>>)
      BY <1>1 DEF StartServer, Exit
    <2>2. CASE table' = table
      BY <2>1, <2>2, SameTable DEF Orderly
    <2>3. CASE table' = <<>>
      <3>1. DOMAIN table' = {}
        BY <2>3
      <3> QED BY <2>1, <2>3, <3>1 DEF Alone, Running, Absent
    <2> QED BY <2>1, <2>2, <2>3
  <1>2. CASE ~ Running(m)
    <2>1. PICK p \in Pid : /\ p \notin Tabled /\ child' = p
                           /\ pc' = "spawned" /\ mode' = m /\ UNCHANGED table
      BY <1>2 DEF StartServer
    <2>2. child' \notin Tabled'
      BY <2>1 DEF Tabled
    <2> QED BY <1>2, <2>1, <2>2, SameTable DEF Orderly
  <1> QED BY <1>1, <1>2

LEMMA OrderlyStep ==
  ASSUME TypeOK, StopsAnEntry, Documents, Orderly, ToolkitNext
  PROVE  Orderly'
  <1>n. NoneRevives
    BY ToolkitRevivesNone
  <1>m. /\ "embedding" \in Modes /\ "chat" \in Modes /\ mode \in Modes
        /\ Modes = {"embedding", "chat"}
        /\ \A d \in Doc : d # "none"
    BY ToolkitAssumption DEF Modes, TypeOK, ToolkitTyped
  <1>r. pc \in {"documents", "prompt", "answering"} => doc = "none"
    BY DEF Documents, NoDocumentAtRest
  <1>c. Absent("chat") => ~ Running("chat")
    BY DEF Absent, Running, IsFirst
  <1> USE <1>m DEF kept
  <1>u. ASSUME UNCHANGED table PROVE \A m \in Modes : Alone(m)'
    BY <1>n, <1>u, SameTable DEF Orderly
  <1>e. ASSUME \/ pc' = "exiting" /\ UNCHANGED <<table, doc>>
               \/ pc' = "down" /\ table' = <<>>
        PROVE  Orderly'
    <2>1. CASE table' = <<>>
      <3>1. DOMAIN table' = {}
        BY <2>1
      <3> QED BY <1>e, <2>1, <3>1
            DEF Orderly, Alone, Quiet, Fresh, NoChatYet, StopsTheOnly, Running, Absent, Single
    <2>2. CASE pc' = "exiting" /\ UNCHANGED <<table, doc>>
      BY <1>n, <1>u, <2>2, SameTable DEF Orderly, Quiet, Fresh, NoChatYet, StopsTheOnly
    <2> QED BY <1>e, <2>1, <2>2
  <1>1. CASE Start
    <2>1. table' = <<>> /\ pc' = "documents"
      BY <1>1 DEF Start, Orderly
    <2>2. DOMAIN table' = {}
      BY <2>1
    <2> QED BY <2>1, <2>2 DEF Orderly, Alone, Quiet, Fresh, NoChatYet, StopsTheOnly, Running, Absent
  <1>2. ASSUME NEW d \in Doc, WriteText(d) PROVE Orderly'
    <2>1. UNCHANGED table /\ pc = "documents" /\ pc' = "writing"
      BY <1>2 DEF WriteText
    <2> QED BY <1>n, <1>u, <2>1, SameTable DEF Orderly, Quiet, Fresh, NoChatYet, StopsTheOnly
  <1>3. ASSUME NEW d \in Doc, LookUp(d) PROVE Orderly'
    <2>0. pc \in {"documents", "writing"}
      BY <1>3 DEF LookUp
    <2>1. CASE db[d] = 0
      <3>1. doc' = d /\ StartServer("embedding")
        BY <1>3, <2>1 DEF LookUp
      <3> QED BY <1>n, <2>0, <3>1, ServerStarted
            DEF Orderly, Quiet, Fresh, NoChatYet, StopsTheOnly
    <2>2. CASE db[d] # 0
      <3>1. UNCHANGED table /\ pc' = "documents"
        BY <1>3, <2>2 DEF LookUp
      <3> QED BY <1>n, <1>u, <2>0, <3>1, SameTable DEF Orderly, Quiet, Fresh, NoChatYet, StopsTheOnly
    <2> QED BY <2>1, <2>2
  <1>x. ASSUME Exit, UNCHANGED doc PROVE Orderly'
    BY <1>x, <1>e DEF Exit
  <1>4. CASE Healthy
    <2>1. UNCHANGED <<table, doc>> /\ pc = "waiting" /\ pc' = IF mode = "chat" THEN "prompt" ELSE "embedding"
      BY <1>4 DEF Healthy
    <2> QED BY <1>n, <1>u, <2>1, SameTable DEF Orderly, Quiet, Fresh, NoChatYet, StopsTheOnly
  <1>5. CASE TimesOut
    <2>1. PICK m \in Modes : mode = m
      OBVIOUS
    <2>2. PICK place \in {"leaving", "embedding"} : StopServer(m, place)
      BY <1>5, <2>1 DEF TimesOut
    <2>3. UNCHANGED <<table, doc>>
      BY <1>5 DEF TimesOut
    <2> QED BY <1>n, <1>u, <2>2, <2>3, ServerStopped, SameTable
            DEF Orderly, Quiet, Fresh, NoChatYet, StopsTheOnly
  <1>6. CASE Leaving BY <1>6, <1>x DEF Leaving
  <1>7. CASE SaveChunk
    <2>1. UNCHANGED <<table, doc, mode, then, pc>> /\ pc = "embedding"
      BY <1>7 DEF SaveChunk
    <2> QED BY <1>n, <1>u, <2>1, SameTable DEF Orderly, Quiet, Fresh, NoChatYet, StopsTheOnly
  <1>8. CASE DocumentDone
    <2>1. UNCHANGED table /\ doc # "none" /\ doc' = "none" /\ StopServer("embedding", "documents")
      BY <1>8 DEF DocumentDone
    <2> QED BY <1>n, <1>u, <2>1, ServerStopped, SameTable
            DEF Orderly, Quiet, Fresh, NoChatYet, StopsTheOnly
  <1>9. CASE ChunkRefused BY <1>9, <1>x DEF ChunkRefused
  <1>10. CASE ChunkFails
    <2>1. UNCHANGED <<table, doc>> /\ StopServer("embedding", "leaving")
      BY <1>10 DEF ChunkFails
    <2> QED BY <1>n, <1>u, <2>1, ServerStopped, SameTable
            DEF Orderly, Quiet, Fresh, NoChatYet, StopsTheOnly
  <1>11. CASE StartChat
    <2>1. pc = "documents" /\ doc' = doc /\ StartServer("chat")
      BY <1>11 DEF StartChat
    <2> QED BY <1>n, <1>r, <2>1, ServerStarted DEF Orderly, Quiet, Fresh, NoChatYet, StopsTheOnly
  <1>12. CASE Ask
    <2>1. pc = "prompt" /\ doc' = doc /\ StartServer("embedding")
      BY <1>12 DEF Ask
    <2> QED BY <1>n, <1>r, <2>1, ServerStarted DEF Orderly, Quiet, Fresh, NoChatYet, StopsTheOnly
  <1>13. CASE ContextFound \/ ContextFails
    <2>1. /\ UNCHANGED <<table, doc>> /\ doc = "none"
          /\ \E place \in {"answering", "prompt", "leaving"} : StopServer("embedding", place)
      BY <1>13 DEF ContextFound, ContextFails
    <2>2. PICK place \in {"answering", "prompt", "leaving"} : StopServer("embedding", place)
      BY <2>1
    <2> QED BY <1>n, <1>u, <2>1, <2>2, ServerStopped, SameTable
            DEF Orderly, Quiet, Fresh, NoChatYet, StopsTheOnly
  <1>14. CASE Answered
    <2>1. UNCHANGED <<table, doc>> /\ pc = "answering" /\ pc' = "prompt"
      BY <1>14 DEF Answered
    <2> QED BY <1>n, <1>u, <2>1, SameTable DEF Orderly, Quiet, Fresh, NoChatYet, StopsTheOnly
  <1>15. CASE Quit
    <2>1. UNCHANGED <<table, doc>> /\ StopServer("chat", "leaving")
      BY <1>15 DEF Quit
    <2> QED BY <1>n, <1>u, <2>1, ServerStopped, SameTable
            DEF Orderly, Quiet, Fresh, NoChatYet, StopsTheOnly
  <1>16. CASE Stopped
    <2>1. PICK m \in Modes : mode = m
      OBVIOUS
    <2>2. /\ pc = "stopping" /\ table' = Without(FirstOf(mode))
          /\ pc' = then /\ UNCHANGED <<mode, then, doc>>
      BY <1>16 DEF Stopped
    <2>3. PICK k \in DOMAIN table : k = FirstOf(mode) /\ table[k].mode = m
      BY <2>1, <2>2, FirstIsThere DEF StopsAnEntry, IsFirst
    <2>4. Single(m) /\ table \in Seq(Entries)
      BY <2>1, <2>2 DEF Orderly, StopsTheOnly, TypeOK, ToolkitTyped
    <2>5. /\ \A n \in Modes : Alone(n)'
          /\ Absent(m)' /\ \A n : Absent(n) => Absent(n)'
      BY <1>n, <2>2, <2>3, <2>4, OneLess DEF Orderly
    <2>6. then \in {"down", "documents", "embedding", "prompt", "answering", "leaving", "exiting"}
      BY DEF TypeOK, ToolkitTyped
    <2>7. pc' # "down"
      BY <2>2 DEF Orderly, StopsTheOnly
    <2> QED BY <2>1, <2>2, <2>5, <2>6, <2>7 DEF Orderly, Quiet, Fresh, NoChatYet, StopsTheOnly, Absent, Running, IsFirst
  <1>17. CASE StopNext
    <2>0. pc = "exiting" /\ doc' = doc
      BY <1>17 DEF StopNext
    <2>1. CASE at < Len(table)
      <3>1. table[at + 1].mode \in Modes
        <4>1. table \in Seq(Entries) /\ at \in Nat
          BY DEF TypeOK, ToolkitTyped
        <4>2. table[at + 1] \in Entries
          BY <2>1, <4>1
        <4> QED BY <4>2 DEF Entries
      <3>2. PICK m \in Modes : table[at + 1].mode = m
        BY <3>1
      <3>3. UNCHANGED table /\ StopServer(m, "exiting")
        BY <1>17, <2>1, <3>2 DEF StopNext
      <3> QED BY <1>n, <1>u, <2>0, <3>3, ServerStopped, SameTable
              DEF Orderly, Quiet, Fresh, NoChatYet, StopsTheOnly
    <2>2. CASE ~ at < Len(table)
      BY <1>17, <2>2, <1>e DEF StopNext
    <2> QED BY <2>1, <2>2
  <1>18. CASE Die BY <1>18, <1>e DEF Die
  <1>19. ASSUME NEW t \in BOOLEAN, Interrupt(t) PROVE Orderly'
    <2>1. UNCHANGED doc /\ ((pc' = "down" /\ table' = <<>>) \/ Exit)
      BY <1>19 DEF Interrupt
    <2> QED BY <2>1, <1>e, <1>x
  <1>21. CASE Tables
    <2>1. PICK m \in Modes : mode = m
      OBVIOUS
    <2>2. /\ pc = "spawned" /\ pc' = "waiting" /\ UNCHANGED <<mode, then, doc>>
          /\ table' = Append(table, Entry(m, child))
      BY <1>21, <2>1 DEF Tables
    <2>3. child \in Pid /\ child \notin Tabled /\ ~ Running(m) /\ table \in Seq(Entries)
      BY <2>1, <2>2 DEF Orderly, Fresh, TypeOK, ToolkitTyped
    <2>4. /\ \A n \in Modes : Alone(n)'
          /\ \A n \in Modes \ {m} : (Running(n)' => Running(n)) /\ (Absent(n) => Absent(n)')
      BY <1>n, <2>2, <2>3, OneMore DEF Orderly
    <2>5. m = "chat" => doc = "none"
      BY <2>1, <2>2 DEF Documents, NoDocumentAtRest
    <2> QED BY <2>1, <2>2, <2>4, <2>5 DEF Orderly, Quiet, Fresh, NoChatYet, StopsTheOnly
  <1>20. ASSUME NEW t \in BOOLEAN, InterruptSwallowed(t) PROVE Orderly'
    <2>1. pc = "waiting" /\ UNCHANGED <<table, doc, mode, then, pc>>
      BY <1>20 DEF InterruptSwallowed, toolkit
    <2> QED BY <1>n, <1>u, <2>1, SameTable DEF Orderly, Quiet, Fresh, NoChatYet, StopsTheOnly
  <1> QED BY <1>1, <1>2, <1>3, <1>4, <1>5, <1>6, <1>7, <1>8, <1>9, <1>10, <1>11, <1>12,
             <1>13, <1>14, <1>15, <1>16, <1>17, <1>18, <1>19, <1>20, <1>21 DEF ToolkitNext

LEMMA OrderlyAlways == Spec => []Orderly
  <1>1. Init => Orderly
    <2> SUFFICES ASSUME Init PROVE Orderly
      OBVIOUS
    <2>1. table = <<>> /\ pc = "down"
      BY DEF Init, InitToolkit
    <2> QED BY <2>1, NoTable DEF Orderly, Quiet, Fresh, NoChatYet, StopsTheOnly
  <1>2. TypeOK /\ StopsAnEntry /\ Documents /\ Apart /\ Orderly /\ [Next]_vars => Orderly'
    <2> SUFFICES ASSUME TypeOK, StopsAnEntry, Documents, Apart, Orderly, [Next]_vars
                 PROVE  Orderly'
      OBVIOUS
    <2>1. ASSUME NoneRevives, UNCHANGED toolkit PROVE Orderly'
      <3>1. UNCHANGED <<table, child, pc, mode, then, doc>>
        BY <2>1 DEF toolkit
      <3>2. Tabled' = Tabled /\ (pc = "spawned" => mode \in Modes)
        BY <3>1 DEF Tabled, TypeOK, ToolkitTyped
      <3> QED BY <3>2, <2>1, <3>1, SameTable DEF Orderly, Quiet, Fresh, NoChatYet, StopsTheOnly
    <2>2. CASE UNCHANGED vars
      BY <2>1, <2>2 DEF vars, NoneRevives, Alive
    <2>3. CASE ToolkitNext BY <2>3, OrderlyStep
    <2>4. CASE program = "edacurry2427" /\ UNCHANGED toolkit
      <3>1. table = <<>>
        BY <2>4 DEF Apart
      <3>2. Tabled = {}
        BY <3>1 DEF Tabled
      <3> QED BY <2>1, <2>4, <3>2 DEF NoneRevives
    <2>5. CASE Host /\ UNCHANGED <<toolkit, llm>>
      BY <2>1, <2>5, HostRevivesNone
    <2> QED BY <2>2, <2>3, <2>4, <2>5, NextIsOneOfThree
  <1>3. Spec => [](StopsAnEntry /\ TypeOK)
    BY InitTypes, StepTypes, PTL DEF Spec
  <1> QED BY <1>1, <1>2, <1>3, DocumentsAlways, ManagedAlways, PTL DEF Spec

(* A server is only started where none of its kind is running: the property *)
(* NoStartIsRefused.                                                        *)
THEOREM StartsAreFree == Spec => []NoStartIsRefused
  <1>1. TypeOK /\ Orderly => NoStartIsRefused
    BY DEF Orderly, Quiet, NoChatYet, Absent, NoStartIsRefused, Running, IsFirst
  <1> QED BY <1>1, OrderlyAlways, TypeCorrect, PTL

-------------------------------------------------------------------------------
(***************************************************************************)
(* LCPToolkit's servers, as the table has them.  Nobody stops a server     *)
(* that has died in the table, stop_all_servers passes over the entry      *)
(* behind each one it stops, and the program may end at any step: what is  *)
(* left behind depends on which entries there can be at each step, which   *)
(* is what is proved here.                                                 *)
(***************************************************************************)

(* The host is disturbed, or a run has left servers as the code lets it.   *)
Marred == disturbed \/ exits # {}

(* A mode none of whose entries has a process that is not told to stop.    *)
Still(m) == \A i \in DOMAIN table : table[i].mode = m => ~ Young(table[i].pid)

(* Each entry is of a process of its own, on the port of its mode.         *)
Ported ==
  /\ \A p \in Pid : procs[p].port \in {"8080", "8888"}
  /\ \A i \in DOMAIN table : procs[table[i].pid].port = PortOf(table[i].mode)
  /\ \A i, j \in DOMAIN table : table[i].pid = table[j].pid => i = j
  /\ child \in Pid => procs[child].port = PortOf(mode)

(* While nothing is marred every process that is not told to stop is one   *)
(* of the run's, each mode has one entry, chat is the first, and there is  *)
(* room for the one that is to be entered.                                 *)
Held ==
  ~ Marred =>
    /\ \A p \in Pid : Young(p) => p \in Started
    /\ \A m \in Modes : Single(m)
    /\ \A i \in DOMAIN table : table[i].mode = "chat" => i = 1
    /\ child \in Pid => Absent(mode) /\ (mode = "chat" => Absent("embedding"))

(* No embedding server is in the table where one is started next, not even *)
(* one that has died.                                                      *)
NoneEmbeds ==
  (/\ ~ Marred
   /\ \/ pc \in {"documents", "writing", "prompt", "answering"}
      \/ pc = "waiting" /\ mode = "chat") => Absent("embedding")

(* A question is asked only after stop_all_servers has been registered.    *)
Registered ==
  (\/ pc \in {"prompt", "answering"}
   \/ /\ doc = "none"
      /\ \/ pc = "embedding"
         \/ pc \in {"spawned", "waiting"} /\ mode = "embedding"
         \/ pc = "stopping" /\ then \in {"embedding", "prompt", "answering"}) => atexit

(* A document whose server is still to answer has nothing in the database; *)
(* one that has something there has been answered by a server in the table.*)
Begun ==
  (/\ doc # "none"
   /\ \/ pc \in {"spawned", "waiting"} /\ mode = "embedding"
      \/ pc = "stopping" /\ then = "embedding") => db[doc] = 0

Embeds ==
  (~ Marred /\ pc = "embedding" /\ doc # "none" /\ db[doc] > 0) =>
    \E i \in DOMAIN table : table[i].mode = "embedding" /\ procs[table[i].pid].state = "ready"

(* What the end of a program still has to stop is the chat server, if that *)
(* is the first entry and stop_all_servers is registered, and no other.    *)
Leaves ==
  (~ Marred /\ (pc = "leaving" \/ (pc = "stopping" /\ then = "leaving"))) =>
    Still("embedding") /\ (atexit \/ Still("chat"))

Exits ==
  ~ Marred =>
    /\ pc = "exiting" => \A i \in DOMAIN table : Young(table[i].pid) => i = 1 /\ at = 0
    /\ (pc = "stopping" /\ then = "exiting") => \A i \in DOMAIN table : ~ Young(table[i].pid)

Shape == Ported /\ Held
Course == NoneEmbeds /\ Registered /\ Begun /\ Embeds /\ Leaves /\ Exits

-----------------------------------------------------------------------------
(* No process becomes young.                                               *)
Fades == \A p \in Pid : procs'[p].port = procs[p].port /\ (Young(p)' => Young(p))

(* Those that are young after a step.                                      *)
Remains(p) == procs'[p].state \in {"starting", "loading", "ready"}

LEMMA EntriesAreTyped ==
  ASSUME TypeOK
  PROVE  \A i \in DOMAIN table : table[i].pid \in Pid /\ table[i].mode \in Modes
<1>1. table \in Seq(Entries)
  BY DEF TypeOK, ToolkitTyped
<1>2. \A i \in DOMAIN table : table[i] \in Entries
  BY <1>1
<1>. QED  BY <1>2 DEF Entries

LEMMA Unchanging ==
  ASSUME UNCHANGED procs
  PROVE  Fades
  BY DEF Fades, Young

LEMMA Signalling ==
  ASSUME TypeOK, NEW S, procs' = Signalled(S)
  PROVE  Fades /\ \A p \in Pid : p \in S => ~ Young(p)'
<1>1. \A p \in Pid : /\ procs'[p].port = procs[p].port
                     /\ procs'[p].state = IF p \in S THEN Hit(procs[p].state) ELSE procs[p].state
  BY DEF TypeOK, HostTyped, Signalled
<1>. QED  BY <1>1 DEF Fades, Young, Hit

LEMMA HostFades ==
  ASSUME TypeOK, Host
  PROVE  /\ Fades /\ UNCHANGED exits
         /\ disturbed => disturbed'
         /\ ~ disturbed' => \A p \in Pid : procs[p].state = "ready" => procs'[p].state = "ready"
<1>1. HostTyped
  BY DEF TypeOK
<1>2. UNCHANGED exits
  BY DEF Host, toolkit
<1>. QED  BY <1>1, <1>2, HostEffect DEF HostTyped, Fades, Young

(* Only while a server is being started is there a process of the run that *)
(* is not in the table.                                                    *)
LEMMA NoChild ==
  ASSUME TypeOK
  PROVE  /\ pc # "spawned" => child = "none"
         /\ child \in Pid <=> child # "none"
  BY PidAssumption DEF TypeOK, ToolkitTyped

-----------------------------------------------------------------------------
(* The table's shape: unchanged, with one entry more or less, or forgotten. *)
LEMMA ShapeKept ==
  ASSUME TypeOK, Shape, UNCHANGED <<table, child>>, child \in Pid => UNCHANGED mode,
         Fades, Marred => Marred'
  PROVE  Shape'
<1>1. Ported'
  BY EntriesAreTyped DEF Shape, Ported, Fades
<1>2. Started' = Started /\ (\A m : Single(m)' <=> Single(m)) /\ (\A m : Absent(m)' <=> Absent(m))
  BY DEF Started, Tabled, Single, Absent
<1>3. Held'
  BY <1>2 DEF Shape, Held, Fades
<1>. QED  BY <1>1, <1>3 DEF Shape

LEMMA ShapeLost ==
  ASSUME TypeOK, Shape, UNCHANGED table, child' = "none", Fades,
         ~ Marred' => ~ Marred /\ (child \in Pid => ~ Remains(child))
  PROVE  Shape'
<1>1. child' \notin Pid
  BY PidAssumption
<1>2. Ported'
  BY <1>1, EntriesAreTyped DEF Shape, Ported, Fades
<1>3. ASSUME ~ Marred', NEW p \in Pid, Young(p)'  PROVE p \in Started'
  BY <1>3 DEF Shape, Held, Fades, Started, Tabled, Young, Remains
<1>4. (\A m : Single(m)' <=> Single(m))
  BY DEF Single
<1>5. Held'
  BY <1>1, <1>3, <1>4 DEF Shape, Held
<1>. QED  BY <1>2, <1>5 DEF Shape

LEMMA ShapeForgotten ==
  ASSUME TypeOK, Shape, table' = <<>>, child' = "none", Fades,
         ~ Marred' => /\ ~ Marred
                      /\ \A i \in DOMAIN table : ~ Remains(table[i].pid)
                      /\ child \in Pid => ~ Remains(child)
  PROVE  Shape'
<1>1. DOMAIN table' = {} /\ child' \notin Pid
  BY PidAssumption
<1>2. Ported'
  BY <1>1 DEF Shape, Ported, Fades
<1>3. ASSUME ~ Marred', NEW p \in Pid  PROVE ~ Young(p)'
  BY <1>3 DEF Shape, Held, Fades, Started, Tabled, Young, Remains
<1>4. Held'
  BY <1>1, <1>3 DEF Held, Single
<1>. QED  BY <1>2, <1>4 DEF Shape

LEMMA ShapeSpawned ==
  ASSUME TypeOK, Shape, NEW m \in Modes, StartServer(m), ~ Running(m), UNCHANGED <<disturbed, exits>>,
         child \notin Pid,
         ~ Marred => Absent(m) /\ (m = "chat" => Absent("embedding"))
  PROVE  Shape'
<1>1. PICK p \in Pid : /\ p \notin Tabled
                       /\ procs' = Launched(p, PortOf(m))
                       /\ child' = p /\ mode' = m /\ table' = table
  BY DEF StartServer
<1>2. HostTyped
  BY DEF TypeOK
<1>3. \A q \in Pid : procs'[q] = IF q = p THEN [state |-> "starting", port |-> PortOf(m)] ELSE procs[q]
  BY <1>1, <1>2 DEF Launched, HostTyped
<1>4. \A i \in DOMAIN table : table[i].pid \in Pid \ {p} /\ table[i].mode \in Modes
  BY <1>1, EntriesAreTyped DEF Tabled
<1>5. Ported'
  <2>1. PortOf(m) \in {"8080", "8888"}
    BY DEF PortOf
  <2>2. \A q \in Pid : procs'[q].port \in {"8080", "8888"}
    BY <1>3, <2>1 DEF Shape, Ported
  <2>3. \A i \in DOMAIN table' : procs'[table'[i].pid].port = PortOf(table'[i].mode)
    BY <1>1, <1>3, <1>4 DEF Shape, Ported
  <2>4. \A i, j \in DOMAIN table' : table'[i].pid = table'[j].pid => i = j
    BY <1>1 DEF Shape, Ported
  <2>5. procs'[child'].port = PortOf(mode')
    BY <1>1, <1>3
  <2>. QED  BY <2>2, <2>3, <2>4, <2>5 DEF Ported
<1>6. ASSUME ~ Marred  PROVE Held'
  <2>1. ASSUME NEW q \in Pid, Young(q)'  PROVE q \in Started'
    <3>1. CASE q = p
      BY <1>1, <3>1 DEF Started
    <3>2. CASE q # p
      <4>1. q \in Started
        BY <1>3, <1>6, <2>1, <3>2 DEF Shape, Held, Young
      <4>. QED  BY <1>1, <4>1 DEF Started, Tabled
    <3>. QED  BY <3>1, <3>2
  <2>2. \A n \in Modes : Single(n)'
    BY <1>1, <1>6 DEF Shape, Held, Single
  <2>3. \A i \in DOMAIN table' : table'[i].mode = "chat" => i = 1
    BY <1>1, <1>6 DEF Shape, Held
  <2>4. Absent(mode)' /\ (mode' = "chat" => Absent("embedding")')
    BY <1>1, <1>6 DEF Absent
  <2>. QED  BY <2>1, <2>2, <2>3, <2>4 DEF Held
<1>7. Marred' => Held'
  BY DEF Held
<1>. QED  BY <1>5, <1>6, <1>7 DEF Shape, Marred

LEMMA ShapeTabled ==
  ASSUME TypeOK, Shape, Tables, child \notin Tabled
  PROVE  Shape'
<1>. DEFINE last == Len(table) + 1
<1>1. /\ pc = "spawned" /\ table' = Append(table, Entry(mode, child)) /\ child' = "none"
      /\ UNCHANGED <<procs, disturbed, exits, mode>>
  BY DEF Tables, kept
<1>2. table \in Seq(Entries) /\ child \in Pid /\ child' \notin Pid /\ mode \in Modes
  BY <1>1, PidAssumption DEF TypeOK, ToolkitTyped
<1>3. /\ Len(table) \in Nat /\ DOMAIN table = 1 .. Len(table)
      /\ DOMAIN table' = 1 .. last
      /\ \A i \in DOMAIN table : table'[i] = table[i]
      /\ table'[last].mode = mode /\ table'[last].pid = child
  BY <1>1, <1>2 DEF Entry
<1>5. \A i \in DOMAIN table : table[i].pid \in Pid \ {child} /\ table[i].mode \in Modes
  BY <1>1, EntriesAreTyped DEF Tabled
<1>. HIDE DEF last
<1>6. Ported'
  <2>1. \A i \in DOMAIN table' : i \in DOMAIN table \/ i = last
    BY <1>3 DEF last
  <2>2. \A i \in DOMAIN table' : procs'[table'[i].pid].port = PortOf(table'[i].mode)
    BY <1>1, <1>2, <1>3, <1>5, <2>1 DEF Shape, Ported
  <2>3. \A i, j \in DOMAIN table' : table'[i].pid = table'[j].pid => i = j
    BY <1>3, <1>5, <2>1 DEF Shape, Ported
  <2>. QED  BY <1>1, <1>2, <2>2, <2>3 DEF Shape, Ported
<1>7. ASSUME ~ Marred  PROVE Held'
  <2>0. Absent(mode) /\ (mode = "chat" => Absent("embedding"))
    BY <1>2, <1>7 DEF Shape, Held
  <2>1. ASSUME NEW q \in Pid, Young(q)'  PROVE q \in Started'
    <3>1. q \in Tabled \/ q = child
      BY <1>1, <1>7, <2>1 DEF Shape, Held, Young, Started
    <3>2. last \in DOMAIN table'
      BY <1>3 DEF last
    <3>3. child \in Tabled'
      BY <1>3, <3>2 DEF Tabled
    <3>4. q \in Tabled => q \in Tabled'
      BY <1>3 DEF Tabled, last
    <3>. QED  BY <3>1, <3>3, <3>4 DEF Started
  <2>2. ASSUME NEW n \in Modes  PROVE Single(n)'
    <3>1. Single(n)
      BY <1>7 DEF Shape, Held
    <3>. QED  BY <1>3, <2>0, <3>1 DEF Single, Absent, last
  <2>3. ASSUME NEW i \in DOMAIN table', table'[i].mode = "chat"  PROVE i = 1
    <3>1. CASE mode = "chat"
      <4>1. DOMAIN table = {}
        BY <1>5, <2>0, <3>1 DEF Absent, Modes
      <4>. QED  BY <1>3, <4>1 DEF last
    <3>2. CASE mode # "chat"
      BY <1>3, <1>7, <2>3, <3>2 DEF Shape, Held, last
    <3>. QED  BY <3>1, <3>2
  <2>. QED  BY <1>2, <2>1, <2>2, <2>3 DEF Held
<1>8. Marred' => Held'
  BY DEF Held
<1>9. Marred' = Marred
  BY <1>1 DEF Marred
<1>. QED  BY <1>6, <1>7, <1>8, <1>9 DEF Shape

LEMMA ShapeLess ==
  ASSUME TypeOK, Shape, NEW k \in DOMAIN table, ~ Alive(table[k].pid), table' = Without(k),
         UNCHANGED <<procs, disturbed, exits, child>>, child \notin Pid
  PROVE  /\ Shape'
         /\ \A i \in DOMAIN table' : \E j \in DOMAIN table : table'[i] = table[j]
<1>. DEFINE old(i) == IF i < k THEN i ELSE i + 1
<1>1. table \in Seq(Entries)
  BY DEF TypeOK, ToolkitTyped
<1>2. /\ Len(table) \in Nat /\ DOMAIN table = 1 .. Len(table) /\ k \in 1 .. Len(table)
      /\ DOMAIN table' = 1 .. Len(table) - 1
      /\ \A i \in DOMAIN table' : table'[i] = table[old(i)]
  <2>1. Len(table) \in Nat /\ DOMAIN table = 1 .. Len(table) /\ k \in 1 .. Len(table)
    BY <1>1
  <2>2. /\ table' \in Seq(Entries) /\ Len(table') = Len(table) - 1
        /\ \A j \in 1 .. Len(table) - 1 : table'[j] = table[old(j)]
    BY <1>1, WithoutOne
  <2>3. DOMAIN table' = 1 .. Len(table')
    BY <2>2
  <2>. QED  BY <2>1, <2>2, <2>3
<1>3. /\ \A i \in DOMAIN table' : old(i) \in DOMAIN table \ {k} /\ (old(i) = 1 => i = 1)
      /\ \A i, j \in DOMAIN table' : old(i) = old(j) => i = j
  BY <1>2
<1>4. \A j \in DOMAIN table \ {k} : \E i \in DOMAIN table' : old(i) = j
  <2>. TAKE j \in DOMAIN table \ {k}
  <2>1. CASE j < k
    BY <1>2, <2>1
  <2>2. CASE j > k
    <3>1. j - 1 \in DOMAIN table' /\ old(j - 1) = j
      BY <1>2, <2>2
    <3>. QED  BY <3>1
  <2>. QED  BY <1>2, <2>1, <2>2
<1>. HIDE DEF old
<1>5. Ported'
  BY <1>2, <1>3 DEF Shape, Ported
<1>6. ASSUME ~ Marred  PROVE Held'
  <2>1. ASSUME NEW p \in Pid, Young(p)'  PROVE p \in Started'
    <3>1. PICK j \in DOMAIN table : table[j].pid = p
      BY <1>6, <2>1 DEF Shape, Held, Started, Tabled, Young
    <3>2. j # k
      BY <2>1, <3>1 DEF Young, Alive, AliveStates
    <3>3. PICK i \in DOMAIN table' : old(i) = j
      BY <1>4, <3>2
    <3>. QED  BY <1>2, <3>1, <3>3 DEF Started, Tabled
  <2>2. ASSUME NEW n \in Modes  PROVE Single(n)'
    <3>1. Single(n)
      BY <1>6 DEF Shape, Held
    <3>. QED  BY <1>2, <1>3, <3>1 DEF Single
  <2>3. \A i \in DOMAIN table' : table'[i].mode = "chat" => i = 1
    BY <1>2, <1>3, <1>6 DEF Shape, Held
  <2>. QED  BY <2>1, <2>2, <2>3 DEF Held
<1>7. Marred' => Held'
  BY DEF Held
<1>. QED  BY <1>2, <1>3, <1>5, <1>6, <1>7 DEF Shape, Marred
-----------------------------------------------------------------------------
(* Stopping a server leaves none of its mode to be stopped, since the entry *)
(* that stop_server finds is the only one.                                  *)
LEMMA OneIsFirst ==
  ASSUME TypeOK, NEW m, Single(m), NEW i \in DOMAIN table, table[i].mode = m
  PROVE  IsFirst(i, m) /\ FirstOf(m) = i
<1>1. table \in Seq(Entries)
  BY DEF TypeOK, ToolkitTyped
<1>2. IsFirst(i, m)
  BY <1>1 DEF Single, IsFirst
<1>3. \A j \in DOMAIN table : IsFirst(j, m) => j = i
  BY DEF Single, IsFirst
<1>. QED  BY <1>2, <1>3 DEF FirstOf

LEMMA StopsOne ==
  ASSUME TypeOK, Shape, NEW m \in Modes, NEW place, StopServer(m, place), UNCHANGED table
  PROVE  /\ Fades
         /\ ~ Marred => \A i \in DOMAIN table : table[i].mode = m => ~ Remains(table[i].pid)
         /\ \/ pc' = "stopping" /\ mode' = m /\ then' = place
            \/ pc' = place /\ ~ Running(m) /\ UNCHANGED <<procs, mode, then>>
<1>1. CASE Running(m)
  <2>1. procs' = Signalled({table[FirstOf(m)].pid}) /\ pc' = "stopping" /\ mode' = m /\ then' = place
    BY <1>1 DEF StopServer
  <2>2. Fades /\ \A p \in Pid : p \in {table[FirstOf(m)].pid} => ~ Young(p)'
    BY <2>1, Signalling, Zenon
  <2>3. ASSUME ~ Marred, NEW i \in DOMAIN table, table[i].mode = m
        PROVE  ~ Remains(table[i].pid)
    <3>1. FirstOf(m) = i
      BY <2>3, OneIsFirst DEF Shape, Held
    <3>2. table[i].pid \in Pid
      BY EntriesAreTyped
    <3>. QED  BY <2>2, <3>1, <3>2 DEF Young, Remains
  <2>. QED  BY <2>1, <2>2, <2>3
<1>2. CASE ~ Running(m)
  <2>1. pc' = place /\ UNCHANGED <<procs, mode, then>>
    BY <1>2 DEF StopServer
  <2>2. ASSUME ~ Marred, NEW i \in DOMAIN table, table[i].mode = m
        PROVE  ~ Remains(table[i].pid)
    <3>1. IsFirst(i, m)
      BY <2>2, OneIsFirst DEF Shape, Held
    <3>. QED  BY <1>2, <2>1, <3>1 DEF Running, Remains, Alive, AliveStates
  <2>. QED  BY <1>2, <2>1, <2>2, Unchanging
<1>. QED  BY <1>1, <1>2

(* Whoever answers is in the table, by the mode of the port.               *)
LEMMA AnswersAreTabled ==
  ASSUME TypeOK, Shape, ~ Marred, child \notin Pid, Answers("8080")
  PROVE  \E i \in DOMAIN table : table[i].mode = "embedding" /\ procs[table[i].pid].state = "ready"
<1>1. PICK p \in Pid : procs[p].state = "ready" /\ procs[p].port = "8080"
  BY DEF Answers
<1>2. PICK i \in DOMAIN table : table[i].pid = p
  BY <1>1 DEF Shape, Held, Young, Started, Tabled
<1>3. table[i].mode # "chat"
  BY <1>1, <1>2 DEF Shape, Ported, PortOf
<1>4. table[i].mode \in Modes
  BY EntriesAreTyped
<1>. QED  BY <1>1, <1>2, <1>3, <1>4 DEF Modes

LEMMA AnsweringRuns ==
  ASSUME TypeOK, Shape, ~ Marred,
         NEW i \in DOMAIN table, table[i].mode = "embedding", procs[table[i].pid].state = "ready"
  PROVE  Running("embedding")
<1>1. IsFirst(i, "embedding")
  BY OneIsFirst DEF Shape, Held, Modes
<1>. QED  BY <1>1 DEF Running, Alive, AliveStates

(* The program ends: what is left to be stopped is the first entry, and    *)
(* only if stop_all_servers runs.                                          *)
LEMMA Exiting ==
  ASSUME TypeOK, Shape, Exit, Fades, child' = "none",
         ~ Marred' => /\ ~ Marred
                      /\ \A i \in DOMAIN table : Remains(table[i].pid) => atexit /\ i = 1
                      /\ child \in Pid => ~ Remains(child)
  PROVE  Shape' /\ Course'
<1>1. CASE atexit
  <2>1. pc' = "exiting" /\ at' = 0 /\ table' = table
    BY <1>1 DEF Exit
  <2>2. Shape'
    BY <2>1, ShapeLost
  <2>3. Course'
    BY <2>1 DEF Course, NoneEmbeds, Registered, Begun, Embeds, Leaves, Exits, Young, Remains
  <2>. QED  BY <2>2, <2>3
<1>2. CASE ~ atexit
  <2>1. pc' = "down" /\ table' = <<>>
    BY <1>2 DEF Exit
  <2>2. Shape'
    BY <1>2, <2>1, ShapeForgotten
  <2>3. Course'
    BY <2>1 DEF Course, NoneEmbeds, Registered, Begun, Embeds, Leaves, Exits
  <2>. QED  BY <2>2, <2>3
<1>. QED  BY <1>1, <1>2

LEMMA Ended ==
  ASSUME TypeOK, Shape, pc' = "down", table' = <<>>, child' = "none", Fades,
         ~ Marred' => /\ ~ Marred
                      /\ \A i \in DOMAIN table : ~ Remains(table[i].pid)
                      /\ child \in Pid => ~ Remains(child)
  PROVE  Shape' /\ Course'
<1>1. Shape'
  BY ShapeForgotten
<1>2. Course'
  BY DEF Course, NoneEmbeds, Registered, Begun, Embeds, Leaves, Exits
<1>. QED  BY <1>1, <1>2
(* Two processes in the table are more than one.                           *)
LEMMA TwoAreMore ==
  ASSUME TypeOK, NEW i \in DOMAIN table, NEW j \in DOMAIN table, table[i].pid # table[j].pid
  PROVE  Cardinality(Tabled) > 1
<1>. DEFINE f == [k \in DOMAIN table |-> table[k].pid]
            two == {table[i].pid} \cup {table[j].pid}
<1>1. f \in Surjection(DOMAIN table, Tabled)
  BY DEF Surjection, Tabled
<1>2. IsFiniteSet(DOMAIN table)
  <2>1. table \in Seq(Entries)
    BY DEF TypeOK, ToolkitTyped
  <2>2. DOMAIN table = 1 .. Len(table) /\ Len(table) \in Int
    BY <2>1
  <2>. QED  BY <2>2, FS_Interval
<1>3. IsFiniteSet(Tabled)
  BY <1>1, <1>2, FS_Surjection
<1>4. Cardinality(two) = 2
  <2>1. IsFiniteSet({table[i].pid}) /\ Cardinality({table[i].pid}) = 1
    BY FS_Singleton
  <2>2. table[j].pid \notin {table[i].pid}
    OBVIOUS
  <2>3. Cardinality(two) = IF table[j].pid \in {table[i].pid} THEN Cardinality({table[i].pid})
                                                             ELSE Cardinality({table[i].pid}) + 1
    BY <2>1, FS_AddElement, Zenon
  <2>. QED  BY <2>1, <2>2, <2>3
<1>5. two \in SUBSET Tabled
  BY DEF Tabled
<1>6. Cardinality(two) <= Cardinality(Tabled)
  BY <1>3, <1>5, FS_Subset
<1>7. Cardinality(Tabled) \in Nat
  BY <1>3, FS_CardinalityType
<1>. HIDE DEF two
<1>. QED  BY <1>4, <1>6, <1>7

-----------------------------------------------------------------------------
(* One case for each action of LCPToolkit.                                  *)
LEMMA StandsStep ==
  ASSUME TypeOK, StopsAnEntry, Documents, Orderly, Shape, Course, ToolkitNext
  PROVE  Shape' /\ Course'
<1>m. /\ "embedding" \in Modes /\ "chat" \in Modes /\ mode \in Modes
      /\ Modes = {"embedding", "chat"}
  BY DEF Modes, TypeOK, ToolkitTyped
<1>t. /\ then \in {"down", "documents", "embedding", "prompt", "answering", "leaving", "exiting"}
      /\ table \in Seq(Entries) /\ at \in Nat
      /\ doc \in Doc \cup {"none"} /\ "none" \notin Doc /\ db \in [Doc -> 0 .. Chunks]
  BY ToolkitAssumption DEF TypeOK, ToolkitTyped, DocumentsTyped
<1>n. NoneRevives
  BY ToolkitRevivesNone
<1>c. NoneEmbeds /\ Registered /\ Begun /\ Embeds /\ Leaves /\ Exits
  BY DEF Course
<1>r. pc \in {"documents", "prompt", "answering"} => doc = "none"
  BY DEF Documents, NoDocumentAtRest
<1>. USE <1>m, <1>c DEF kept, Marred
<1>h. pc # "spawned" => child \notin Pid
  BY NoChild
<1>p. ASSUME UNCHANGED <<procs, disturbed, exits, table, child>>, pc # "spawned"  PROVE Shape'
  BY <1>h, <1>p, ShapeKept, Unchanging DEF Marred
<1>a. \A n : Absent(n) => \A i \in DOMAIN table : table[i].mode # n
  BY DEF Absent
<1>1. CASE Start
  <2>1. table = <<>> /\ table' = table /\ pc' = "documents" /\ UNCHANGED <<procs, disturbed, exits, child>>
        /\ pc = "down"
    BY <1>1 DEF Start, Orderly
  <2>2. Absent("embedding")'
    BY <2>1, NoTable DEF Absent
  <2>3. Course'
    BY <2>1, <2>2 DEF Course, NoneEmbeds, Registered, Begun, Embeds, Leaves, Exits
  <2>. QED  BY <1>p, <2>1, <2>3
<1>2. ASSUME NEW d \in Doc, WriteText(d)  PROVE Shape' /\ Course'
  <2>1. UNCHANGED <<procs, disturbed, exits, table, child>> /\ pc = "documents" /\ pc' = "writing"
    BY <1>2 DEF WriteText
  <2>2. Course'
    BY <2>1 DEF Course, NoneEmbeds, Registered, Begun, Embeds, Leaves, Exits, Absent
  <2>. QED  BY <1>p, <2>1, <2>2
<1>3. ASSUME NEW d \in Doc, LookUp(d)  PROVE Shape' /\ Course'
  <2>1. pc \in {"documents", "writing"} /\ UNCHANGED <<disturbed, exits, db>>
    BY <1>3 DEF LookUp
  <2>2. CASE db[d] = 0
    <3>1. doc' = d /\ StartServer("embedding")
      BY <1>3, <2>2 DEF LookUp
    <3>2. ~ Running("embedding")
      BY <2>1 DEF Orderly, Quiet
    <3>3. Shape'
      BY <1>h, <2>1, <3>1, <3>2, ShapeSpawned DEF NoneEmbeds
    <3>4. pc' = "spawned" /\ mode' = "embedding"
      BY <3>1, <3>2 DEF StartServer
    <3>5. Course'
      BY <1>t, <2>1, <2>2, <3>1, <3>4 DEF Course, NoneEmbeds, Registered, Begun, Embeds, Leaves, Exits
    <3>. QED  BY <3>3, <3>5
  <2>3. CASE db[d] # 0
    <3>1. UNCHANGED <<procs, table, child>> /\ pc' = "documents"
      BY <1>3, <2>3 DEF LookUp
    <3>2. Course'
      BY <2>1, <3>1 DEF Course, NoneEmbeds, Registered, Begun, Embeds, Leaves, Exits, Absent
    <3>. QED  BY <1>p, <2>1, <3>1, <3>2
  <2>. QED  BY <2>2, <2>3
<1>4. CASE Healthy
  <2>1. /\ UNCHANGED <<procs, disturbed, exits, table, child, doc, db>> /\ pc = "waiting"
        /\ pc' = IF mode = "chat" THEN "prompt" ELSE "embedding"
        /\ atexit' = (atexit \/ mode = "chat")
    BY <1>4 DEF Healthy
  <2>2. CASE mode = "chat"
    <3>1. pc' = "prompt" /\ atexit'
      BY <2>1, <2>2
    <3>2. Course'
      BY <2>1, <2>2, <3>1 DEF Course, NoneEmbeds, Registered, Begun, Embeds, Leaves, Exits, Absent
    <3>. QED  BY <1>p, <2>1, <3>2
  <2>3. CASE mode = "embedding"
    <3>1. pc' = "embedding" /\ (atexit => atexit')
      BY <2>1, <2>3
    <3>2. NoneEmbeds' /\ Registered' /\ Begun' /\ Leaves' /\ Exits'
      BY <2>1, <2>3, <3>1 DEF NoneEmbeds, Registered, Begun, Leaves, Exits
    <3>3. Embeds'
      BY <2>1, <2>3 DEF Begun, Embeds
    <3>. QED  BY <1>p, <2>1, <3>2, <3>3 DEF Course
  <2>. QED  BY <2>2, <2>3
<1>5. CASE TimesOut
  <2>1. UNCHANGED <<disturbed, exits, table, child, doc, db, atexit>> /\ pc = "waiting"
    BY <1>5 DEF TimesOut
  <2>2. CASE mode = "chat"
    <3>1. StopServer("chat", "leaving")
      BY <1>5, <2>2 DEF TimesOut
    <3>2. /\ Fades
          /\ ~ Marred => \A i \in DOMAIN table : table[i].mode = "chat" => ~ Remains(table[i].pid)
          /\ (pc' = "stopping" /\ then' = "leaving") \/ pc' = "leaving"
      BY <2>1, <3>1, StopsOne
    <3>3. Shape'
      BY <1>h, <2>1, <3>2, ShapeKept
    <3>4. ~ Marred => Absent("embedding")
      BY <2>1, <2>2 DEF NoneEmbeds
    <3>5. Course'
      BY <2>1, <3>2, <3>4 DEF Course, NoneEmbeds, Registered, Begun, Embeds, Leaves, Exits,
                              Absent, Still, Young, Remains
    <3>. QED  BY <3>3, <3>5
  <2>3. CASE mode = "embedding"
    <3>1. StopServer("embedding", "embedding")
      BY <1>5, <2>3 DEF TimesOut
    <3>2. /\ Fades
          /\ (pc' = "stopping" /\ then' = "embedding") \/ pc' = "embedding"
      BY <2>1, <3>1, StopsOne
    <3>3. Shape'
      BY <1>h, <2>1, <3>2, ShapeKept
    <3>4. Course'
      BY <2>1, <2>3, <3>2 DEF Course, NoneEmbeds, Registered, Begun, Embeds, Leaves, Exits
    <3>. QED  BY <3>3, <3>4
  <2>. QED  BY <2>2, <2>3
<1>6. CASE Leaving
  <2>1. /\ pc = "leaving" /\ Exit /\ UNCHANGED <<procs, disturbed, exits>>
        /\ child \notin Pid /\ child' = "none"
    BY <1>6, NoChild DEF Leaving
  <2>2. ASSUME ~ Marred, NEW i \in DOMAIN table, Remains(table[i].pid)
        PROVE  atexit /\ i = 1
    <3>1. Young(table[i].pid) /\ table[i].mode \in Modes
      BY <2>1, <2>2, EntriesAreTyped DEF Remains, Young
    <3>2. table[i].mode = "chat" /\ atexit
      BY <2>1, <2>2, <3>1 DEF Leaves, Still
    <3>. QED  BY <2>2, <3>2 DEF Shape, Held
  <2>. QED  BY <2>1, <2>2, Unchanging, Exiting
<1>7. CASE SaveChunk
  <2>1. /\ UNCHANGED <<procs, disturbed, exits, table, child, doc, pc, mode, then, atexit>>
        /\ pc = "embedding" /\ Answers("8080")
    BY <1>7 DEF SaveChunk
  <2>2. Embeds'
    BY <1>h, <2>1, AnswersAreTabled DEF Embeds
  <2>3. Course'
    BY <2>1, <2>2 DEF Course, NoneEmbeds, Registered, Begun, Leaves, Exits
  <2>. QED  BY <1>p, <2>1, <2>3
<1>8. CASE DocumentDone
  <2>1. /\ UNCHANGED <<disturbed, exits, table, child>> /\ StopServer("embedding", "documents")
        /\ pc = "embedding" /\ doc # "none" /\ db[doc] = Size(doc)
    BY <1>8 DEF DocumentDone
  <2>2. /\ Fades
        /\ \/ pc' = "stopping" /\ then' = "documents"
           \/ pc' = "documents" /\ ~ Running("embedding")
    BY <2>1, StopsOne
  <2>3. Shape'
    BY <1>h, <2>1, <2>2, ShapeKept
  <2>4. ~ Marred => Running("embedding")
    <3>1. db[doc] > 0
      BY <2>1, ToolkitAssumption DEF Size
    <3>. QED  BY <2>1, <3>1, AnsweringRuns DEF Embeds
  <2>5. Course'
    BY <2>1, <2>2, <2>4 DEF Course, NoneEmbeds, Registered, Begun, Embeds, Leaves, Exits
  <2>. QED  BY <2>3, <2>5
<1>9. CASE ChunkRefused
  <2>1. Exit /\ UNCHANGED procs /\ exits' # {} /\ child' = "none"
    BY <1>9, NoChild DEF ChunkRefused
  <2>. QED  BY <2>1, Unchanging, Exiting
<1>10. CASE ChunkFails
  <2>1. /\ UNCHANGED <<disturbed, exits, table, child, atexit>> /\ StopServer("embedding", "leaving")
        /\ pc = "embedding" /\ doc # "none"
    BY <1>10 DEF ChunkFails
  <2>2. /\ Fades
        /\ ~ Marred => \A i \in DOMAIN table : table[i].mode = "embedding" => ~ Remains(table[i].pid)
        /\ (pc' = "stopping" /\ then' = "leaving") \/ pc' = "leaving"
    BY <2>1, StopsOne
  <2>3. Shape'
    BY <1>h, <2>1, <2>2, ShapeKept
  <2>4. Absent("chat")
    BY <2>1 DEF Orderly, NoChatYet
  <2>5. Course'
    BY <2>1, <2>2, <2>4 DEF Course, NoneEmbeds, Registered, Begun, Embeds, Leaves, Exits,
                            Absent, Still, Young, Remains
  <2>. QED  BY <2>3, <2>5
<1>11. CASE StartChat
  <2>1. pc = "documents" /\ StartServer("chat") /\ UNCHANGED <<disturbed, exits>>
    BY <1>11 DEF StartChat
  <2>2. Absent("chat") /\ ~ Running("chat")
    BY <2>1 DEF Orderly, NoChatYet, Absent, Running, IsFirst
  <2>3. Shape'
    BY <1>h, <2>1, <2>2, ShapeSpawned DEF NoneEmbeds
  <2>4. pc' = "spawned" /\ mode' = "chat"
    BY <2>1, <2>2 DEF StartServer
  <2>6. Course'
    BY <2>1, <2>4 DEF Course, NoneEmbeds, Registered, Begun, Embeds, Leaves, Exits
  <2>. QED  BY <2>3, <2>6
<1>12. CASE Ask
  <2>1. pc = "prompt" /\ StartServer("embedding") /\ UNCHANGED <<disturbed, exits, doc, atexit>>
    BY <1>12 DEF Ask
  <2>2. ~ Running("embedding")
    BY <2>1 DEF Orderly, Quiet
  <2>3. Shape'
    BY <1>h, <2>1, <2>2, ShapeSpawned DEF NoneEmbeds
  <2>4. pc' = "spawned" /\ mode' = "embedding"
    BY <2>1, <2>2 DEF StartServer
  <2>5. Course'
    BY <1>r, <2>1, <2>4 DEF Course, NoneEmbeds, Registered, Begun, Embeds, Leaves, Exits
  <2>. QED  BY <2>3, <2>5
<1>13. CASE ContextFound
  <2>1. /\ UNCHANGED <<disturbed, exits, table, child, doc, atexit>>
        /\ pc = "embedding" /\ doc = "none" /\ Answers("8080")
    BY <1>13 DEF ContextFound
  <2>2. PICK place \in {"answering", "prompt", "leaving"} : StopServer("embedding", place)
    BY <1>13 DEF ContextFound
  <2>3. /\ Fades
        /\ ~ Marred => \A i \in DOMAIN table : table[i].mode = "embedding" => ~ Remains(table[i].pid)
        /\ \/ pc' = "stopping" /\ then' = place
           \/ pc' = place /\ ~ Running("embedding")
    BY <2>1, <2>2, StopsOne
  <2>4. Shape'
    BY <1>h, <2>1, <2>3, ShapeKept
  <2>5. ~ Marred => Running("embedding")
    BY <1>h, <2>1, AnswersAreTabled, AnsweringRuns
  <2>6. atexit
    BY <2>1 DEF Registered
  <2>7. Course'
    BY <2>1, <2>3, <2>5, <2>6 DEF Course, NoneEmbeds, Registered, Begun, Embeds, Leaves, Exits,
                                  Still, Young, Remains
  <2>. QED  BY <2>4, <2>7
<1>14. CASE ContextFails
  <2>1. /\ UNCHANGED <<disturbed, exits, table, child, atexit>> /\ StopServer("embedding", "leaving")
        /\ pc = "embedding" /\ doc = "none"
    BY <1>14 DEF ContextFails
  <2>2. /\ Fades
        /\ ~ Marred => \A i \in DOMAIN table : table[i].mode = "embedding" => ~ Remains(table[i].pid)
        /\ (pc' = "stopping" /\ then' = "leaving") \/ pc' = "leaving"
    BY <2>1, StopsOne
  <2>3. Shape'
    BY <1>h, <2>1, <2>2, ShapeKept
  <2>4. Course'
    BY <2>1, <2>2 DEF Course, NoneEmbeds, Registered, Begun, Embeds, Leaves, Exits,
                      Still, Young, Remains
  <2>. QED  BY <2>3, <2>4
<1>15. CASE Answered
  <2>1. /\ UNCHANGED <<procs, disturbed, exits, table, child, atexit>>
        /\ pc = "answering" /\ pc' = "prompt"
    BY <1>15 DEF Answered
  <2>2. Course'
    BY <2>1 DEF Course, NoneEmbeds, Registered, Begun, Embeds, Leaves, Exits, Absent
  <2>. QED  BY <1>p, <2>1, <2>2
<1>16. CASE Quit
  <2>1. /\ UNCHANGED <<disturbed, exits, table, child, atexit>> /\ StopServer("chat", "leaving")
        /\ pc \in {"answering", "prompt"}
    BY <1>16 DEF Quit
  <2>2. /\ Fades
        /\ (pc' = "stopping" /\ then' = "leaving") \/ pc' = "leaving"
    BY <2>1, StopsOne
  <2>3. Shape'
    BY <1>h, <2>1, <2>2, ShapeKept
  <2>4. atexit /\ (~ Marred => Absent("embedding"))
    BY <2>1 DEF Registered, NoneEmbeds
  <2>5. Course'
    BY <2>1, <2>2, <2>4 DEF Course, NoneEmbeds, Registered, Begun, Embeds, Leaves, Exits,
                            Still, Absent
  <2>. QED  BY <2>3, <2>5
<1>17. CASE Stopped
  <2>1. /\ pc = "stopping" /\ table' = Without(FirstOf(mode)) /\ ~ Alive(table[FirstOf(mode)].pid)
        /\ pc' = then /\ UNCHANGED <<procs, disturbed, exits, child, mode, then, doc, db, atexit, at>>
    BY <1>17 DEF Stopped
  <2>2. PICK k \in DOMAIN table : k = FirstOf(mode) /\ table[k].mode = mode
    BY <2>1, FirstIsThere DEF StopsAnEntry, IsFirst
  <2>3. Shape' /\ \A i \in DOMAIN table' : \E j \in DOMAIN table : table'[i] = table[j]
    BY <1>h, <2>1, <2>2, ShapeLess
  <2>4. Single(mode) /\ then # "down"
        /\ (then \in {"documents", "prompt", "answering"} => mode = "embedding")
    BY <2>1 DEF Orderly, StopsTheOnly
  <2>5. \A n : n = mode => Absent(n)'
    BY <1>n, <1>t, <2>1, <2>2, <2>4, OneLess
  <2>6. NoneEmbeds'
    BY <1>t, <2>1, <2>4, <2>5 DEF NoneEmbeds
  <2>7. Registered'
    <3>1. then \in {"prompt", "answering"} => doc = "none"
      BY <2>1 DEF Documents, NoDocumentAtRest
    <3>. QED  BY <1>t, <2>1, <3>1 DEF Registered
  <2>8. Begun' /\ Embeds'
    BY <1>t, <2>1 DEF Begun, Embeds
  <2>9. Leaves' /\ Exits'
    BY <1>t, <2>1, <2>3 DEF Leaves, Exits, Still, Young
  <2>. QED  BY <2>3, <2>6, <2>7, <2>8, <2>9 DEF Course
<1>18. CASE StopNext
  <2>0. pc = "exiting" /\ UNCHANGED <<disturbed, exits, child>>
    BY <1>18 DEF StopNext
  <2>1. CASE at < Len(table)
    <3>1. at + 1 \in DOMAIN table
      BY <1>t, <2>1
    <3>2. PICK m \in Modes : table[at + 1].mode = m
      BY <3>1, EntriesAreTyped
    <3>3. UNCHANGED table /\ StopServer(m, "exiting") /\ at' = at + 1
      BY <1>18, <2>1, <3>2 DEF StopNext
    <3>4. /\ Fades
          /\ ~ Marred => \A i \in DOMAIN table : table[i].mode = m => ~ Remains(table[i].pid)
          /\ (pc' = "stopping" /\ then' = "exiting") \/ pc' = "exiting"
      BY <3>3, StopsOne
    <3>5. Shape'
      BY <1>h, <2>0, <3>3, <3>4, ShapeKept
    <3>6. ASSUME ~ Marred, NEW i \in DOMAIN table  PROVE ~ Remains(table[i].pid)
      <4>1. CASE Young(table[i].pid)
        <5>1. i = at + 1
          BY <2>0, <3>6, <4>1 DEF Exits
        <5>. QED  BY <3>2, <3>4, <3>6, <5>1
      <4>2. CASE ~ Young(table[i].pid)
        <5>1. table[i].pid \in Pid
          BY EntriesAreTyped
        <5>. QED  BY <3>4, <4>2, <5>1 DEF Fades, Young, Remains
      <4>. QED  BY <4>1, <4>2
    <3>7. Course'
      BY <2>0, <3>3, <3>4, <3>6 DEF Course, NoneEmbeds, Registered, Begun, Embeds, Leaves, Exits,
                                    Young, Remains
    <3>. QED  BY <3>5, <3>7
  <2>2. CASE ~ at < Len(table)
    <3>1. pc' = "down" /\ table' = <<>> /\ UNCHANGED procs
      BY <1>18, <2>2 DEF StopNext
    <3>2. ASSUME ~ Marred, NEW i \in DOMAIN table  PROVE ~ Remains(table[i].pid)
      <4>1. i # 1 \/ at # 0
        BY <1>t, <2>2
      <4>. QED  BY <2>0, <3>1, <3>2, <4>1 DEF Exits, Young, Remains
    <3>3. child' = "none" /\ child \notin Pid
      BY <1>h, <2>0, NoChild
    <3>. QED  BY <2>0, <3>1, <3>2, <3>3, Unchanging, Ended
  <2>. QED  BY <2>1, <2>2
<1>19. CASE Die
  <2>1. pc' = "down" /\ table' = <<>> /\ child' = "none" /\ disturbed' /\ UNCHANGED procs
    BY <1>19 DEF Die
  <2>. QED  BY <2>1, Unchanging, Ended
<1>20. ASSUME NEW t \in BOOLEAN, Interrupt(t)  PROVE Shape' /\ Course'
  <2>1. /\ Marred => Marred'
        /\ child' = "none"
        /\ (Ending /\ pc' = "down" /\ table' = <<>>) \/ (~ Ending /\ Exit)
    BY <1>20 DEF Interrupt
  <2>2. CASE t
    <3>1. procs' = Signalled(Started)
      BY <1>20, <2>2 DEF Interrupt
    <3>2. Fades /\ \A p \in Pid : p \in Started => ~ Young(p)'
      BY <3>1, Signalling
    <3>3. \A i \in DOMAIN table : ~ Remains(table[i].pid)
      BY <3>2, EntriesAreTyped DEF Started, Tabled, Young, Remains
    <3>4. child \in Pid => ~ Remains(child)
      BY <3>2 DEF Started, Young, Remains
    <3>. QED  BY <2>1, <3>2, <3>3, <3>4, Ended, Exiting
  <2>3. CASE ~ t
    <3>1. UNCHANGED <<procs, disturbed>> /\ exits' = exits \cup Unstopped
      BY <1>20, <2>3 DEF Interrupt
    <3>2. ASSUME ~ Marred', Started # {}
          PROVE  ~ Ending /\ atexit /\ child \notin Pid /\ ~ Cardinality(Tabled) > 1
      <4>1. Unstopped = {}
        BY <3>1, <3>2
      <4>. QED  BY <3>2, <4>1 DEF Unstopped
    <3>3. ASSUME ~ Marred', NEW i \in DOMAIN table
          PROVE  ~ Ending /\ atexit /\ i = 1
      <4>0. table[i].pid \in Started
        BY DEF Started, Tabled
      <4>1. ~ Ending /\ atexit /\ child \notin Pid /\ ~ Cardinality(Tabled) > 1
        BY <3>2, <3>3, <4>0
      <4>2. CASE i # 1
        <5>1. 1 \in DOMAIN table
          BY <1>t
        <5>2. table[i].pid # table[1].pid
          BY <4>2, <5>1 DEF Shape, Ported
        <5>. QED  BY <4>1, <5>1, <5>2, TwoAreMore
      <4>. QED  BY <4>1, <4>2
    <3>4. ASSUME ~ Marred', child \in Pid  PROVE FALSE
      <4>1. child \in Started
        BY <3>4 DEF Started
      <4>. QED  BY <3>2, <3>4, <4>1
    <3>. QED  BY <2>1, <3>1, <3>3, <3>4, Unchanging, Ended, Exiting
  <2>. QED  BY <2>2, <2>3
<1>21. ASSUME NEW t \in BOOLEAN, InterruptSwallowed(t)  PROVE Shape' /\ Course'
  <2>1. /\ pc = "waiting"
        /\ UNCHANGED <<disturbed, exits, pc, table, child, mode, then, doc, db, atexit, at>>
        /\ UNCHANGED procs \/ procs' = Signalled(Started)
    BY <1>21 DEF InterruptSwallowed, toolkit
  <2>2. Fades
    BY <2>1, Unchanging, Signalling
  <2>3. Shape'
    BY <2>1, <2>2, ShapeKept DEF Marred
  <2>4. Course'
    BY <2>1 DEF Course, NoneEmbeds, Registered, Begun, Embeds, Leaves, Exits, Absent, Marred
  <2>. QED  BY <2>3, <2>4
<1>22. CASE Tables
  <2>1. /\ pc = "spawned" /\ pc' = "waiting" /\ table' = Append(table, Entry(mode, child))
        /\ UNCHANGED <<disturbed, exits, mode, then, doc, db, atexit, at>>
    BY <1>22 DEF Tables
  <2>2. Shape'
    BY <1>22, <2>1, ShapeTabled DEF Orderly, Fresh
  <2>3. ~ Marred /\ mode = "chat" => Absent("embedding")'
    <3>1. DOMAIN table' = 1 .. Len(table) + 1
      BY <1>t, <2>1
    <3>2. \A i \in DOMAIN table' : table'[i] = IF i \in DOMAIN table THEN table[i] ELSE Entry(mode, child)
      BY <1>t, <2>1
    <3>3. child \in Pid
      BY <2>1 DEF TypeOK, ToolkitTyped
    <3>. QED  BY <3>2, <3>3 DEF Shape, Held, Absent, Entry
  <2>4. Course'
    BY <2>1, <2>3 DEF Course, NoneEmbeds, Registered, Begun, Embeds, Leaves, Exits, Marred
  <2>. QED  BY <2>2, <2>4
<1>. QED
  BY <1>1, <1>2, <1>3, <1>4, <1>5, <1>6, <1>7, <1>8, <1>9, <1>10, <1>11, <1>12, <1>13,
     <1>14, <1>15, <1>16, <1>17, <1>18, <1>19, <1>20, <1>21, <1>22 DEF ToolkitNext

(* A process that the host starts, serves or ends, or that ends of itself. *)
LEMMA StandsByHost ==
  ASSUME TypeOK, Shape, Course, Host, UNCHANGED toolkit
  PROVE  Shape' /\ Course'
<1>1. UNCHANGED <<pc, table, child, mode, then, doc, db, atexit, at>>
  BY DEF toolkit
<1>2. /\ Fades
      /\ Marred => Marred'
      /\ ~ Marred' => \A p \in Pid : procs[p].state = "ready" => procs'[p].state = "ready"
  BY HostFades DEF Marred
<1>3. \A i \in DOMAIN table : table[i].pid \in Pid
  BY EntriesAreTyped
<1>4. Shape'
  BY <1>1, <1>2, ShapeKept
<1>5. NoneEmbeds' /\ Registered' /\ Begun'
  BY <1>1, <1>2 DEF Course, NoneEmbeds, Registered, Begun, Absent
<1>6. Embeds'
  BY <1>1, <1>2, <1>3 DEF Course, Embeds
<1>7. Leaves' /\ Exits'
  BY <1>1, <1>2, <1>3 DEF Course, Leaves, Exits, Still, Fades
<1>. QED  BY <1>4, <1>5, <1>6, <1>7 DEF Course

-----------------------------------------------------------------------------
(* Of the other program, all that matters is that it starts no process on  *)
(* these ports.                                                            *)
Stands == program = "LCPToolkit" => Shape /\ Course
Foreign ==
  program = "edacurry2427" =>
    \A p \in Pid : procs[p].port # "11434" => procs[p].state = "dead"

LEMMA LlmEffect ==
  ASSUME LlmNext
  PROVE  \/ procs' = procs
         \/ \E S : procs' = Signalled(S)
         \/ \E p \in Pid : procs' = Launched(p, "11434")
         \/ \E p : procs' = Killed(p)
<1>1. CASE Popen
  BY <1>1 DEF Popen
<1>2. CASE HealthTimesOut \/ TriageEnds
  BY <1>2 DEF HealthTimesOut, TriageEnds, StopThen
<1>3. CASE WaitTimesOut
  BY <1>3 DEF WaitTimesOut
<1>4. ASSUME NEW terminal \in BOOLEAN, Signal(terminal)
      PROVE  \E S : procs' = Signalled(S)
  BY <1>4 DEF Signal
<1>5. CASE BeginRun \/ Built \/ BuildFails \/ Copied \/ CopyFails \/ NothingToTriage
          \/ NoExecutable
  BY <1>5 DEF BeginRun, Built, BuildFails, Copied, CopyFails, NothingToTriage, NoExecutable
<1>6. CASE PopenReturns \/ PollFails \/ PollSucceeds \/ HealthOk \/ HealthFails \/ Waited \/ DieLlm
  BY <1>6 DEF PopenReturns, PollFails, PollSucceeds, HealthOk, HealthFails, Waited, DieLlm
<1>. QED  BY <1>1, <1>2, <1>3, <1>4, <1>5, <1>6 DEF LlmNext

LEMMA ForeignStep ==
  ASSUME TypeOK, Foreign, [Next]_vars
  PROVE  Foreign'
<1>0. HostTyped
  BY DEF TypeOK
<1>1. CASE UNCHANGED vars
  BY <1>1 DEF vars, Foreign
<1>2. CASE UNCHANGED program /\ program = "LCPToolkit"
  BY <1>2 DEF Foreign
<1>3. CASE UNCHANGED program /\ program = "edacurry2427" /\ LlmNext
  <2>1. CASE procs' = procs
    BY <1>3, <2>1 DEF Foreign
  <2>2. CASE \E S : procs' = Signalled(S)
    BY <1>0, <1>3, <2>2 DEF Foreign, Signalled, Hit, HostTyped
  <2>3. CASE \E p \in Pid : procs' = Launched(p, "11434")
    BY <1>0, <1>3, <2>3 DEF Foreign, Launched, HostTyped
  <2>4. CASE \E p : procs' = Killed(p)
    BY <1>0, <1>3, <2>4 DEF Foreign, Killed, HostTyped
  <2>. QED  BY <1>3, <2>1, <2>2, <2>3, <2>4, LlmEffect
<1>4. CASE UNCHANGED program /\ Host
  <2>1. \A p \in Pid : /\ procs'[p].port = procs[p].port
                       /\ procs[p].state = "dead" => procs'[p].state = "dead"
    BY <1>0, <1>4, HostEffect DEF HostTyped, Alive, AliveStates
  <2>. QED  BY <1>4, <2>1 DEF Foreign
<1>. QED  BY <1>1, <1>2, <1>3, <1>4, NextIsOneOfThree

LEMMA StandsAlways == Spec => [](Stands /\ Foreign)
<1>1. Init => Stands /\ Foreign
  <2>. SUFFICES ASSUME Init  PROVE Stands /\ Foreign
    OBVIOUS
  <2>1. /\ \A p \in Pid : procs[p].port = "8080" /\ procs[p].state = "dead"
        /\ table = <<>> /\ pc = "down" /\ child \notin Pid
    BY PidAssumption DEF Init, InitToolkit
  <2>2. DOMAIN table = {}
    BY <2>1
  <2>3. Shape
    BY <2>1, <2>2 DEF Shape, Ported, Held, Young, Single
  <2>4. Course
    BY <2>1 DEF Course, NoneEmbeds, Registered, Begun, Embeds, Leaves, Exits
  <2>. QED  BY <2>1, <2>3, <2>4 DEF Stands, Foreign
<1>2. TypeOK /\ StopsAnEntry /\ Documents /\ Orderly /\ Stands /\ [Next]_vars => Stands'
  <2>. SUFFICES ASSUME TypeOK, StopsAnEntry, Documents, Orderly, Stands, [Next]_vars,
                       program' = "LCPToolkit"
                PROVE  Shape' /\ Course'
    BY DEF Stands
  <2>1. CASE UNCHANGED vars
    <3>1. Shape /\ Course
      BY <2>1 DEF Stands, vars
    <3>2. UNCHANGED <<procs, disturbed, exits, pc, table, child, mode, then, doc, db, atexit, at>>
      BY <2>1 DEF vars, toolkit
    <3>3. Shape'
      BY <3>1, <3>2, ShapeKept, Unchanging DEF Marred
    <3>4. Course'
      BY <3>1, <3>2 DEF Marred, Course, NoneEmbeds, Registered, Begun, Embeds, Leaves, Exits,
                        Absent, Still, Young
    <3>. QED  BY <3>3, <3>4
  <2>2. CASE program = "LCPToolkit" /\ ToolkitNext
    BY <2>2, StandsStep DEF Stands
  <2>3. CASE UNCHANGED program /\ Host /\ UNCHANGED toolkit
    BY <2>3, StandsByHost DEF Stands
  <2>. QED  BY <2>1, <2>2, <2>3, NextIsOneOfThree
<1>3. TypeOK /\ Foreign /\ [Next]_vars => Foreign'
  BY ForeignStep
<1>4. Spec => [](TypeOK /\ StopsAnEntry)
  BY InitTypes, StepTypes, PTL DEF Spec
<1>. QED  BY <1>1, <1>2, <1>3, <1>4, DocumentsAlways, OrderlyAlways, PTL DEF Spec

-----------------------------------------------------------------------------
(***************************************************************************)
(* The chat server.  It is the only one of its mode, the embedding servers *)
(* that are before it in the table are dead, so that stop_all_servers does *)
(* come to it, and the program ends without stop_all_servers only when it  *)
(* has been stopped or not been started.  This needs no more of the past   *)
(* than that no such server was left: what embedding servers were left, or *)
(* how often, does not matter.                                             *)
(***************************************************************************)
Unregistered ==
  (\/ pc \in {"documents", "writing"}
   \/ pc \in {"spawned", "waiting"} /\ mode = "chat"
   \/ pc # "down" /\ doc # "none"
   \/ pc = "stopping" /\ then = "documents") => ~ atexit
Room == (pc = "spawned" /\ mode = "chat") => Absent("chat")
DeadBefore ==
  \A i, j \in DOMAIN table :
    table[i].mode = "chat" /\ IsFirst(j, "embedding") /\ j < i => ~ Lives(j)
StopsBehind ==
  (pc = "stopping" /\ mode = "embedding") =>
    \A i, j \in DOMAIN table : table[i].mode = "chat" /\ IsFirst(j, "embedding") => i < j
ChatLeft ==
  (pc = "leaving" \/ (pc = "stopping" /\ then = "leaving")) => atexit \/ Still("chat")
ChatAhead ==
  Ending => \A i \in DOMAIN table : table[i].mode = "chat" /\ Young(table[i].pid) => at < i
ChatHeld ==
  (~ disturbed /\ "unstopped" \notin exits) =>
    \A p \in Pid : Young(p) /\ procs[p].port = "8888" => p \in Started

Line  == Single("chat") /\ DeadBefore
Turns == Unregistered /\ Room /\ StopsBehind /\ ChatLeft /\ ChatAhead
Chats == Line /\ Turns /\ ChatHeld

(* What a step does to the line, by what it does to the table.             *)
LEMMA LineKept ==
  ASSUME UNCHANGED table, NoneRevives, Line
  PROVE  Line'
  BY SameTable DEF Line, DeadBefore, NoneRevives, Tabled, Lives, IsFirst

LEMMA LineGone ==
  ASSUME table' = <<>>
  PROVE  Line'
<1>1. DOMAIN table' = {}
  OBVIOUS
<1>. QED  BY <1>1 DEF Line, Single, DeadBefore

LEMMA LineTabled ==
  ASSUME TypeOK, Orderly, Line, Room, Tables, NoneRevives
  PROVE  Line'
<1>1. /\ pc = "spawned" /\ table \in Seq(Entries) /\ UNCHANGED procs
      /\ table' = Append(table, Entry(mode, child))
  BY DEF Tables, TypeOK, ToolkitTyped
<1>2. /\ Len(table) \in Nat /\ DOMAIN table = 1 .. Len(table)
      /\ DOMAIN table' = 1 .. Len(table) + 1
      /\ \A i \in DOMAIN table : table'[i] = table[i]
      /\ table'[Len(table) + 1].mode = mode
  BY <1>1 DEF Entry
<1>3. Single("chat")'
  BY <1>1, <1>2 DEF Line, Room, Single, Absent
<1>4. ASSUME NEW i \in DOMAIN table', NEW j \in DOMAIN table',
             table'[i].mode = "chat", IsFirst(j, "embedding")', j < i
      PROVE  ~ Lives(j)'
  <2>1. j \in DOMAIN table /\ table'[j] = table[j]
    BY <1>2, <1>4
  <2>2. IsFirst(j, "embedding")
    BY <1>2, <1>4, <2>1 DEF IsFirst
  <2>3. ~ Lives(j)
    <3>1. CASE i \in DOMAIN table
      BY <1>2, <1>4, <2>1, <2>2, <3>1 DEF Line, DeadBefore
    <3>2. CASE i = Len(table) + 1
      BY <1>1, <1>2, <1>4, <2>1, <2>2, <3>2 DEF Orderly, Quiet, Running, Lives
    <3>. QED  BY <1>2, <3>1, <3>2
  <2>. QED  BY <1>1, <2>1, <2>3 DEF Lives, Alive
<1>. QED  BY <1>3, <1>4 DEF Line, DeadBefore

LEMMA LineLess ==
  ASSUME TypeOK, Line, StopsBehind, pc = "stopping",
         NEW k \in DOMAIN table, IsFirst(k, mode), table' = Without(k)
  PROVE  /\ Line'
         /\ mode = "chat" => Absent("chat")'
         /\ mode = "embedding" =>
              \A i \in DOMAIN table' : table'[i].mode = "chat" =>
                i \in DOMAIN table /\ table'[i] = table[i]
<1>. DEFINE old(i) == IF i < k THEN i ELSE i + 1
<1>1. /\ Len(table) \in Nat /\ DOMAIN table = 1 .. Len(table) /\ k \in 1 .. Len(table)
      /\ DOMAIN table' = 1 .. Len(table) - 1
      /\ \A i \in DOMAIN table' : table'[i] = table[old(i)]
  <2>1. table \in Seq(Entries) /\ Len(table) \in Nat /\ DOMAIN table = 1 .. Len(table)
    BY DEF TypeOK, ToolkitTyped
  <2>2. /\ table' \in Seq(Entries) /\ Len(table') = Len(table) - 1
        /\ \A j \in 1 .. Len(table) - 1 : table'[j] = table[old(j)]
    BY <2>1, WithoutOne
  <2>3. DOMAIN table' = 1 .. Len(table')
    BY <2>2
  <2>. QED  BY <2>1, <2>2, <2>3
<1>2. \A i \in DOMAIN table' : old(i) \in DOMAIN table \ {k}
  BY <1>1
<1>3. CASE mode = "chat"
  <2>1. Absent("chat")'
    BY <1>1, <1>2, <1>3 DEF Line, Single, Absent, IsFirst
  <2>. QED  BY <1>3, <2>1 DEF Line, Single, DeadBefore, Absent
<1>4. CASE mode = "embedding"
  <2>1. ASSUME NEW i \in DOMAIN table', table'[i].mode = "chat"
        PROVE  i < k /\ i \in DOMAIN table /\ table'[i] = table[i]
    <3>1. table[old(i)].mode = "chat" /\ old(i) \in DOMAIN table
      BY <1>1, <1>2, <2>1
    <3>2. old(i) < k
      BY <1>4, <3>1 DEF StopsBehind
    <3>. QED  BY <1>1, <2>1, <3>2
  <2>2. Single("chat")'
    BY <2>1 DEF Line, Single
  <2>3. ASSUME NEW i \in DOMAIN table', NEW j \in DOMAIN table',
               table'[i].mode = "chat", table'[j].mode = "embedding", j < i
        PROVE  FALSE
    <3>1. i < k
      BY <2>1, <2>3
    <3>2. j < k /\ table[j].mode = "embedding"
      BY <1>1, <2>3, <3>1
    <3>. QED  BY <1>1, <1>4, <3>2 DEF IsFirst
  <2>4. DeadBefore'
    BY <2>3 DEF DeadBefore, IsFirst
  <2>. QED  BY <1>4, <2>1, <2>2, <2>4 DEF Line
<1>5. mode \in {"chat", "embedding"}
  BY DEF TypeOK, ToolkitTyped, Modes
<1>. QED  BY <1>3, <1>4, <1>5

(* The server that is stopped is the chat server, or behind it.            *)
LEMMA LineStopped ==
  ASSUME TypeOK, Line, NEW m \in Modes, NEW place, StopServer(m, place), UNCHANGED table
  PROVE  /\ Fades
         /\ m = "chat" => \A i \in DOMAIN table : table[i].mode = "chat" => ~ Remains(table[i].pid)
         /\ \/ /\ pc' = "stopping" /\ mode' = m /\ then' = place
               /\ m = "embedding" => \A i, j \in DOMAIN table :
                    table[i].mode = "chat" /\ IsFirst(j, "embedding") => i < j
            \/ pc' = place /\ UNCHANGED <<procs, mode, then>>
<1>1. table \in Seq(Entries)
  BY DEF TypeOK, ToolkitTyped
<1>2. DOMAIN table = 1 .. Len(table) /\ Len(table) \in Nat
  BY <1>1
<1>3. CASE Running(m)
  <2>1. procs' = Signalled({table[FirstOf(m)].pid}) /\ pc' = "stopping" /\ mode' = m /\ then' = place
    BY <1>3 DEF StopServer
  <2>2. Fades /\ \A p \in Pid : p \in {table[FirstOf(m)].pid} => ~ Young(p)'
    BY <2>1, Signalling, Zenon
  <2>3. ASSUME m = "chat", NEW i \in DOMAIN table, table[i].mode = "chat"
        PROVE  ~ Remains(table[i].pid)
    <3>1. FirstOf(m) = i
      BY <2>3, OneIsFirst DEF Line
    <3>2. table[i].pid \in Pid
      BY EntriesAreTyped
    <3>. QED  BY <2>2, <3>1, <3>2 DEF Young, Remains
  <2>4. ASSUME m = "embedding", NEW i \in DOMAIN table, NEW j \in DOMAIN table,
               table[i].mode = "chat", IsFirst(j, "embedding")
        PROVE  i < j
    <3>1. PICK h \in DOMAIN table : IsFirst(h, "embedding") /\ Lives(h)
      BY <1>3, <2>4 DEF Running, Lives
    <3>2. h = j
      BY <1>2, <2>4, <3>1 DEF IsFirst
    <3>3. ~ j < i
      BY <2>4, <3>1, <3>2 DEF Line, DeadBefore
    <3>4. i # j
      BY <2>4 DEF IsFirst
    <3>. QED  BY <1>2, <3>3, <3>4
  <2>. QED  BY <2>1, <2>2, <2>3, <2>4
<1>4. CASE ~ Running(m)
  <2>1. pc' = place /\ UNCHANGED <<procs, mode, then>>
    BY <1>4 DEF StopServer
  <2>2. ASSUME m = "chat", NEW i \in DOMAIN table, table[i].mode = "chat"
        PROVE  ~ Remains(table[i].pid)
    <3>1. IsFirst(i, m)
      BY <2>2, OneIsFirst DEF Line
    <3>. QED  BY <1>4, <2>1, <3>1 DEF Running, Remains, Alive, AliveStates
  <2>. QED  BY <2>1, <2>2, Unchanging
<1>. QED  BY <1>3, <1>4

(* Whoever is no longer of the run is no chat server that goes on.          *)
LEMMA ChatHeldOn ==
  ASSUME ChatHeld, Fades, disturbed => disturbed', "unstopped" \in exits => "unstopped" \in exits',
         (~ disturbed' /\ "unstopped" \notin exits') =>
           \A p \in Pid : p \in Started /\ p \notin Started' =>
             ~ Remains(p) \/ procs[p].port # "8888"
  PROVE  ChatHeld'
  BY DEF ChatHeld, Fades, Young, Remains

LEMMA StartedKept ==
  ASSUME UNCHANGED <<table, child>>
  PROVE  Started' = Started
  BY DEF Started, Tabled

(* The program ends.                                                       *)
LEMMA ChatExiting ==
  ASSUME TypeOK, Ported, Line, ChatHeld, Unregistered, Exit, Fades, NoneRevives,
         pc # "down", child' = "none", UNCHANGED <<doc, atexit>>,
         disturbed => disturbed', "unstopped" \in exits => "unstopped" \in exits',
         (~ disturbed' /\ "unstopped" \notin exits') =>
           /\ \A i \in DOMAIN table :
                table[i].mode = "chat" => atexit \/ ~ Remains(table[i].pid)
           /\ child \in Pid => ~ Remains(child) \/ mode # "chat"
  PROVE  Chats'
<1>1. \A i \in DOMAIN table : table[i].pid \in Pid /\ table[i].mode \in Modes
  BY EntriesAreTyped
<1>2. child \in Pid /\ mode # "chat" => procs[child].port # "8888"
  BY DEF Ported, PortOf
<1>3. \A i \in DOMAIN table : procs[table[i].pid].port = "8888" => table[i].mode = "chat"
  BY <1>1 DEF Ported, PortOf
<1>4. CASE atexit
  <2>1. pc' = "exiting" /\ at' = 0 /\ table' = table
    BY <1>4 DEF Exit
  <2>2. Line'
    BY <2>1, LineKept
  <2>3. \A i \in DOMAIN table : 0 < i
    <3>1. table \in Seq(Entries)
      BY DEF TypeOK, ToolkitTyped
    <3>. QED  BY <3>1
  <2>4. Turns'
    BY <1>4, <2>1, <2>3 DEF Turns, Unregistered, Room, StopsBehind, ChatLeft, ChatAhead
  <2>5. Tabled' = Tabled
    BY <2>1 DEF Tabled
  <2>6. ChatHeld'
    BY <1>2, <2>5, ChatHeldOn DEF Started
  <2>. QED  BY <2>2, <2>4, <2>6 DEF Chats
<1>5. CASE ~ atexit
  <2>1. pc' = "down" /\ table' = <<>>
    BY <1>5 DEF Exit
  <2>2. Line'
    BY <2>1, LineGone
  <2>3. Turns'
    BY <2>1 DEF Turns, Unregistered, Room, StopsBehind, ChatLeft, ChatAhead, Ending
  <2>4. ChatHeld'
    BY <1>2, <1>3, <1>5, ChatHeldOn DEF Started, Tabled
  <2>. QED  BY <2>2, <2>3, <2>4 DEF Chats
<1>. QED  BY <1>4, <1>5

LEMMA ChatEnded ==
  ASSUME TypeOK, Ported, ChatHeld, pc' = "down", table' = <<>>, child' = "none", Fades,
         disturbed => disturbed', "unstopped" \in exits => "unstopped" \in exits',
         (~ disturbed' /\ "unstopped" \notin exits') =>
           /\ \A i \in DOMAIN table : table[i].mode = "chat" => ~ Remains(table[i].pid)
           /\ child \in Pid => ~ Remains(child) \/ mode # "chat"
  PROVE  Chats'
<1>1. \A i \in DOMAIN table : table[i].pid \in Pid /\ table[i].mode \in Modes
  BY EntriesAreTyped
<1>2. child \in Pid /\ mode # "chat" => procs[child].port # "8888"
  BY DEF Ported, PortOf
<1>3. \A i \in DOMAIN table : procs[table[i].pid].port = "8888" => table[i].mode = "chat"
  BY <1>1 DEF Ported, PortOf
<1>4. ChatHeld'
  BY <1>2, <1>3, ChatHeldOn DEF Started, Tabled
<1>5. Turns'
  BY DEF Turns, Unregistered, Room, StopsBehind, ChatLeft, ChatAhead, Ending
<1>. QED  BY <1>4, <1>5, LineGone DEF Chats

(* A server is started whose mode does not run.                            *)
LEMMA ChatSpawned ==
  ASSUME TypeOK, Line, ChatHeld, NEW m \in Modes, StartServer(m), ~ Running(m),
         child \notin Pid, NoneRevives, UNCHANGED <<disturbed, exits>>
  PROVE  Line' /\ ChatHeld' /\ UNCHANGED table /\ pc' = "spawned" /\ mode' = m
<1>1. PICK p \in Pid : /\ procs' = Launched(p, PortOf(m)) /\ child' = p /\ UNCHANGED table
                       /\ pc' = "spawned" /\ mode' = m
  BY DEF StartServer
<1>2. HostTyped
  BY DEF TypeOK
<1>3. \A q \in Pid \ {p} : procs'[q] = procs[q]
  BY <1>1, <1>2 DEF Launched, HostTyped
<1>4. p \in Started' /\ \A q \in Started : q \in Started'
  BY <1>1 DEF Started, Tabled
<1>5. ASSUME ~ disturbed', "unstopped" \notin exits', NEW q \in Pid, Young(q)', procs'[q].port = "8888"
      PROVE  q \in Started'
  <2>1. CASE q = p
    BY <1>4, <2>1
  <2>2. CASE q # p
    BY <1>3, <1>4, <1>5, <2>2 DEF ChatHeld, Young
  <2>. QED  BY <2>1, <2>2
<1>. QED  BY <1>1, <1>5, LineKept DEF ChatHeld

LEMMA LessKeeps ==
  ASSUME TypeOK, NEW k \in DOMAIN table, table' = Without(k)
  PROVE  \A j \in DOMAIN table \ {k} : \E i \in DOMAIN table' : table'[i] = table[j]
<1>1. table \in Seq(Entries) /\ DOMAIN table = 1 .. Len(table) /\ Len(table) \in Nat
  BY DEF TypeOK, ToolkitTyped
<1>2. /\ table' \in Seq(Entries) /\ Len(table') = Len(table) - 1
      /\ \A j \in 1 .. Len(table) - 1 : table'[j] = IF j < k THEN table[j] ELSE table[j + 1]
  BY <1>1, WithoutOne
<1>3. DOMAIN table' = 1 .. Len(table) - 1
  BY <1>2
<1>. TAKE j \in DOMAIN table \ {k}
<1>4. CASE j < k
  <2>1. j \in DOMAIN table' /\ table'[j] = table[j]
    BY <1>1, <1>2, <1>3, <1>4
  <2>. QED  BY <2>1
<1>5. CASE j > k
  <2>1. j - 1 \in DOMAIN table' /\ table'[j - 1] = table[j]
    BY <1>1, <1>2, <1>3, <1>5
  <2>. QED  BY <2>1
<1>. QED  BY <1>1, <1>4, <1>5

(* One case for each action of LCPToolkit.                                  *)
LEMMA ChatStep ==
  ASSUME TypeOK, StopsAnEntry, Documents, Orderly, Ported, Registered, Chats, ToolkitNext
  PROVE  Chats'
<1>m. /\ "embedding" \in Modes /\ "chat" \in Modes /\ mode \in Modes
      /\ Modes = {"embedding", "chat"}
  BY DEF Modes, TypeOK, ToolkitTyped
<1>t. /\ then \in {"down", "documents", "embedding", "prompt", "answering", "leaving", "exiting"}
      /\ table \in Seq(Entries) /\ at \in Nat /\ atexit \in BOOLEAN
      /\ \A d \in Doc : d # "none"
  BY ToolkitAssumption DEF TypeOK, ToolkitTyped
<1>n. NoneRevives
  BY ToolkitRevivesNone
<1>c. Line /\ ChatHeld /\ Unregistered /\ Room /\ StopsBehind /\ ChatLeft /\ ChatAhead
  BY DEF Chats, Turns
<1>h. pc # "spawned" => child \notin Pid
  BY NoChild
<1>r. (\/ pc \in {"documents", "prompt", "answering"}
       \/ pc \in {"spawned", "waiting"} /\ mode = "chat"
       \/ pc = "stopping" /\ then \in {"documents", "prompt", "answering"}) => doc = "none"
  BY DEF Documents, NoDocumentAtRest
<1>. USE <1>m, <1>c DEF kept
<1>k. ASSUME UNCHANGED <<table, child, disturbed, exits>>, Fades  PROVE Line' /\ ChatHeld'
  BY <1>k, <1>n, LineKept, ChatHeldOn, StartedKept
<1>1. CASE Start
  <2>1. /\ UNCHANGED <<procs, table, child, disturbed, exits>> /\ pc' = "documents" /\ ~ atexit'
    BY <1>1 DEF Start
  <2>2. Turns'
    BY <2>1 DEF Turns, Unregistered, Room, StopsBehind, ChatLeft, ChatAhead, Ending
  <2>. QED  BY <1>k, <2>1, <2>2, Unchanging DEF Chats
<1>2. ASSUME NEW d \in Doc, WriteText(d)  PROVE Chats'
  <2>1. /\ UNCHANGED <<procs, table, child, disturbed, exits, atexit>>
        /\ pc = "documents" /\ pc' = "writing"
    BY <1>2 DEF WriteText
  <2>2. Turns'
    BY <2>1 DEF Turns, Unregistered, Room, StopsBehind, ChatLeft, ChatAhead, Ending
  <2>. QED  BY <1>k, <2>1, <2>2, Unchanging DEF Chats
<1>3. ASSUME NEW d \in Doc, LookUp(d)  PROVE Chats'
  <2>1. pc \in {"documents", "writing"} /\ UNCHANGED <<disturbed, exits, atexit>>
    BY <1>3 DEF LookUp
  <2>2. CASE db[d] = 0
    <3>1. StartServer("embedding")
      BY <1>3, <2>2 DEF LookUp
    <3>2. ~ Running("embedding")
      BY <2>1 DEF Orderly, Quiet
    <3>3. Line' /\ ChatHeld' /\ pc' = "spawned" /\ mode' = "embedding"
      BY <1>h, <1>n, <2>1, <3>1, <3>2, ChatSpawned
    <3>4. Turns'
      BY <2>1, <3>3 DEF Turns, Unregistered, Room, StopsBehind, ChatLeft, ChatAhead, Ending
    <3>. QED  BY <3>3, <3>4 DEF Chats
  <2>3. CASE db[d] # 0
    <3>1. UNCHANGED <<procs, table, child>> /\ pc' = "documents"
      BY <1>3, <2>3 DEF LookUp
    <3>2. Turns'
      BY <2>1, <3>1 DEF Turns, Unregistered, Room, StopsBehind, ChatLeft, ChatAhead, Ending
    <3>. QED  BY <1>k, <2>1, <3>1, <3>2, Unchanging DEF Chats
  <2>. QED  BY <2>2, <2>3
<1>4. CASE Healthy
  <2>1. /\ UNCHANGED <<procs, disturbed, exits, table, child, doc, mode>> /\ pc = "waiting"
        /\ pc' = IF mode = "chat" THEN "prompt" ELSE "embedding"
        /\ atexit' = (atexit \/ mode = "chat")
    BY <1>4 DEF Healthy
  <2>2. Unregistered'
    BY <1>r, <1>t, <2>1 DEF Unregistered
  <2>3. Turns'
    BY <2>1, <2>2 DEF Turns, Room, StopsBehind, ChatLeft, ChatAhead, Ending
  <2>. QED  BY <1>k, <2>1, <2>3, Unchanging DEF Chats
<1>5. CASE TimesOut
  <2>1. UNCHANGED <<disturbed, exits, table, child, doc, atexit>> /\ pc = "waiting"
    BY <1>5 DEF TimesOut
  <2>2. CASE mode = "chat"
    <3>1. StopServer("chat", "leaving")
      BY <1>5, <2>2 DEF TimesOut
    <3>2. /\ Fades
          /\ \A i \in DOMAIN table : table[i].mode = "chat" => ~ Remains(table[i].pid)
          /\ \/ pc' = "stopping" /\ mode' = "chat" /\ then' = "leaving"
             \/ pc' = "leaving"
      BY <2>1, <3>1, LineStopped
    <3>3. Turns'
      BY <2>1, <3>2 DEF Turns, Unregistered, Room, StopsBehind, ChatLeft, ChatAhead, Ending,
                        Still, Young, Remains
    <3>. QED  BY <1>k, <2>1, <3>2, <3>3 DEF Chats
  <2>3. CASE mode = "embedding"
    <3>1. StopServer("embedding", "embedding")
      BY <1>5, <2>3 DEF TimesOut
    <3>2. /\ Fades
          /\ \/ /\ pc' = "stopping" /\ mode' = "embedding" /\ then' = "embedding"
                /\ \A i, j \in DOMAIN table :
                     table[i].mode = "chat" /\ IsFirst(j, "embedding") => i < j
             \/ pc' = "embedding"
      BY <2>1, <3>1, LineStopped
    <3>3. Turns'
      BY <2>1, <3>2 DEF Turns, Unregistered, Room, StopsBehind, ChatLeft, ChatAhead, Ending, IsFirst
    <3>. QED  BY <1>k, <2>1, <3>2, <3>3 DEF Chats
  <2>. QED  BY <2>2, <2>3
<1>6. CASE Leaving
  <2>1. /\ pc = "leaving" /\ Exit /\ UNCHANGED <<procs, disturbed, exits, doc, atexit>>
        /\ child \notin Pid /\ child' = "none"
    BY <1>6, NoChild DEF Leaving
  <2>2. \A i \in DOMAIN table : table[i].mode = "chat" => atexit \/ ~ Remains(table[i].pid)
    BY <2>1 DEF ChatLeft, Still, Young, Remains
  <2>. QED  BY <1>n, <2>1, <2>2, Unchanging, ChatExiting
<1>7. CASE SaveChunk
  <2>1. /\ UNCHANGED <<procs, disturbed, exits, table, child, doc, pc, mode, then, atexit, at>>
        /\ pc = "embedding"
    BY <1>7 DEF SaveChunk
  <2>2. Turns'
    BY <2>1 DEF Turns, Unregistered, Room, StopsBehind, ChatLeft, ChatAhead, Ending
  <2>. QED  BY <1>k, <2>1, <2>2, Unchanging DEF Chats
<1>8. ASSUME NEW place, place \in {"documents", "leaving", "answering", "prompt"},
             StopServer("embedding", place), pc = "embedding",
             UNCHANGED <<disturbed, exits, table, child, atexit>>,
             doc' \in {doc, "none"}, place = "documents" => ~ atexit,
             place = "leaving" => atexit \/ Absent("chat")
      PROVE  Chats'
  <2>1. /\ Fades
        /\ \/ /\ pc' = "stopping" /\ mode' = "embedding" /\ then' = place
              /\ \A i, j \in DOMAIN table :
                   table[i].mode = "chat" /\ IsFirst(j, "embedding") => i < j
           \/ pc' = place
    BY <1>8, LineStopped
  <2>2. Unregistered' /\ Room'
    BY <1>8, <2>1 DEF Unregistered, Room
  <2>3. StopsBehind' /\ ChatAhead'
    BY <1>8, <2>1 DEF StopsBehind, ChatAhead, Ending, IsFirst
  <2>4. ChatLeft'
    BY <1>8, <2>1 DEF ChatLeft, Still, Absent
  <2>. QED  BY <1>k, <1>8, <2>1, <2>2, <2>3, <2>4 DEF Chats, Turns
<1>9. CASE DocumentDone
  <2>1. /\ StopServer("embedding", "documents") /\ pc = "embedding" /\ doc # "none"
        /\ doc' = "none" /\ UNCHANGED <<disturbed, exits, table, child, atexit>>
    BY <1>9 DEF DocumentDone
  <2>2. ~ atexit
    BY <2>1 DEF Unregistered
  <2>. QED  BY <1>8, <2>1, <2>2
<1>10. CASE ChunkRefused
  <2>1. /\ pc = "embedding" /\ doc # "none" /\ Exit /\ UNCHANGED <<procs, disturbed, doc, atexit>>
        /\ "unstopped" \in exits => "unstopped" \in exits'
        /\ child \notin Pid /\ child' = "none"
    BY <1>10, NoChild DEF ChunkRefused
  <2>2. \A i \in DOMAIN table : table[i].mode # "chat"
    BY <2>1 DEF Orderly, NoChatYet, Absent
  <2>. QED  BY <1>n, <2>1, <2>2, Unchanging, ChatExiting
<1>11. CASE ChunkFails
  <2>1. /\ StopServer("embedding", "leaving") /\ pc = "embedding" /\ doc # "none"
        /\ UNCHANGED <<disturbed, exits, table, child, atexit, doc>>
    BY <1>11 DEF ChunkFails
  <2>2. Absent("chat")
    BY <2>1 DEF Orderly, NoChatYet
  <2>. QED  BY <1>8, <2>1, <2>2
<1>12. CASE StartChat
  <2>1. pc = "documents" /\ StartServer("chat") /\ UNCHANGED <<disturbed, exits, atexit, doc>>
    BY <1>12 DEF StartChat
  <2>2. Absent("chat") /\ ~ Running("chat")
    BY <2>1 DEF Orderly, NoChatYet, Absent, Running, IsFirst
  <2>3. Line' /\ ChatHeld' /\ UNCHANGED table /\ pc' = "spawned" /\ mode' = "chat"
    BY <1>h, <1>n, <2>1, <2>2, ChatSpawned
  <2>4. Turns'
    BY <2>1, <2>2, <2>3 DEF Turns, Unregistered, Room, StopsBehind, ChatLeft, ChatAhead, Ending, Absent
  <2>. QED  BY <2>3, <2>4 DEF Chats
<1>13. CASE Ask
  <2>1. pc = "prompt" /\ StartServer("embedding") /\ UNCHANGED <<disturbed, exits, doc, atexit>>
    BY <1>13 DEF Ask
  <2>2. ~ Running("embedding")
    BY <2>1 DEF Orderly, Quiet
  <2>3. Line' /\ ChatHeld' /\ pc' = "spawned" /\ mode' = "embedding"
    BY <1>h, <1>n, <2>1, <2>2, ChatSpawned
  <2>4. Turns'
    BY <1>r, <2>1, <2>3 DEF Turns, Unregistered, Room, StopsBehind, ChatLeft, ChatAhead, Ending
  <2>. QED  BY <2>3, <2>4 DEF Chats
<1>14. CASE ContextFound
  <2>1. /\ UNCHANGED <<disturbed, exits, table, child, doc, atexit>>
        /\ pc = "embedding" /\ doc = "none"
    BY <1>14 DEF ContextFound
  <2>2. PICK place \in {"answering", "prompt", "leaving"} : StopServer("embedding", place)
    BY <1>14 DEF ContextFound
  <2>3. atexit
    BY <2>1 DEF Registered
  <2>. QED  BY <1>8, <2>1, <2>2, <2>3
<1>15. CASE ContextFails
  <2>1. /\ StopServer("embedding", "leaving") /\ pc = "embedding" /\ doc = "none"
        /\ UNCHANGED <<disturbed, exits, table, child, atexit, doc>>
    BY <1>15 DEF ContextFails
  <2>2. atexit
    BY <2>1 DEF Registered
  <2>. QED  BY <1>8, <2>1, <2>2
<1>16. CASE Answered
  <2>1. /\ UNCHANGED <<procs, disturbed, exits, table, child, doc, atexit>>
        /\ pc = "answering" /\ pc' = "prompt"
    BY <1>16 DEF Answered
  <2>2. Turns'
    BY <2>1 DEF Turns, Unregistered, Room, StopsBehind, ChatLeft, ChatAhead, Ending
  <2>. QED  BY <1>k, <2>1, <2>2, Unchanging DEF Chats
<1>17. CASE Quit
  <2>1. /\ UNCHANGED <<disturbed, exits, table, child, doc, atexit>>
        /\ StopServer("chat", "leaving") /\ pc \in {"answering", "prompt"}
    BY <1>17 DEF Quit
  <2>2. /\ Fades
        /\ \A i \in DOMAIN table : table[i].mode = "chat" => ~ Remains(table[i].pid)
        /\ \/ pc' = "stopping" /\ mode' = "chat" /\ then' = "leaving"
           \/ pc' = "leaving"
    BY <2>1, LineStopped
  <2>3. Turns'
    BY <2>1, <2>2 DEF Turns, Unregistered, Room, StopsBehind, ChatLeft, ChatAhead, Ending,
                      Still, Young, Remains
  <2>. QED  BY <1>k, <2>1, <2>2, <2>3 DEF Chats
<1>18. CASE Stopped
  <2>1. /\ pc = "stopping" /\ table' = Without(FirstOf(mode)) /\ ~ Alive(table[FirstOf(mode)].pid)
        /\ pc' = then /\ UNCHANGED <<procs, disturbed, exits, child, mode, doc, atexit, at>>
    BY <1>18 DEF Stopped
  <2>2. PICK k \in DOMAIN table : k = FirstOf(mode) /\ IsFirst(k, mode)
    BY <2>1, FirstIsThere DEF StopsAnEntry
  <2>3. /\ Line'
        /\ mode = "chat" => Absent("chat")'
        /\ mode = "embedding" =>
             \A i \in DOMAIN table' : table'[i].mode = "chat" =>
               i \in DOMAIN table /\ table'[i] = table[i]
    BY <2>1, <2>2, LineLess
  <2>4. \A i \in DOMAIN table' : table'[i].mode = "chat" =>
          i \in DOMAIN table /\ table'[i] = table[i]
    BY <2>3 DEF Absent
  <2>5. \A p : p \in Started /\ p \notin Started' => p = table[k].pid
    <3>1. \A j \in DOMAIN table \ {k} : \E i \in DOMAIN table' : table'[i] = table[j]
      BY <2>1, <2>2, LessKeeps
    <3>. QED  BY <2>1, <3>1 DEF Started, Tabled
  <2>6. ~ Remains(table[k].pid)
    BY <2>1, <2>2 DEF Remains, Alive, AliveStates
  <2>7. ChatHeld'
    BY <2>1, <2>5, <2>6, Unchanging, ChatHeldOn
  <2>8. Unregistered' /\ Room' /\ StopsBehind'
    BY <1>r, <1>t, <2>1 DEF Unregistered, Room, StopsBehind
  <2>9. ChatLeft' /\ ChatAhead'
    BY <1>t, <2>1, <2>4 DEF ChatLeft, ChatAhead, Ending, Still, Young
  <2>. QED  BY <2>3, <2>7, <2>8, <2>9 DEF Chats, Turns
<1>19. CASE StopNext
  <2>0. pc = "exiting" /\ UNCHANGED <<disturbed, exits, child, doc, atexit>>
    BY <1>19 DEF StopNext
  <2>1. CASE at < Len(table)
    <3>1. at + 1 \in DOMAIN table
      BY <1>t, <2>1
    <3>2. PICK m \in Modes : table[at + 1].mode = m
      BY <3>1, EntriesAreTyped
    <3>3. UNCHANGED table /\ StopServer(m, "exiting") /\ at' = at + 1
      BY <1>19, <2>1, <3>2 DEF StopNext
    <3>4. /\ Fades
          /\ m = "chat" => \A i \in DOMAIN table : table[i].mode = "chat" => ~ Remains(table[i].pid)
          /\ \/ /\ pc' = "stopping" /\ mode' = m /\ then' = "exiting"
                /\ m = "embedding" => \A i, j \in DOMAIN table :
                     table[i].mode = "chat" /\ IsFirst(j, "embedding") => i < j
             \/ pc' = "exiting"
      BY <3>3, LineStopped
    <3>5. ASSUME NEW i \in DOMAIN table, table[i].mode = "chat", Remains(table[i].pid)
          PROVE  at + 1 < i
      <4>1. table[i].pid \in Pid
        BY EntriesAreTyped
      <4>2. Young(table[i].pid)
        BY <3>4, <3>5, <4>1 DEF Fades, Young, Remains
      <4>3. at < i /\ i # at + 1
        BY <2>0, <3>2, <3>4, <3>5, <4>2 DEF ChatAhead, Ending
      <4>4. i \in Nat
        BY <1>t
      <4>. QED  BY <1>t, <4>3, <4>4
    <3>6. ChatAhead'
      BY <3>3, <3>5 DEF ChatAhead, Young, Remains
    <3>7. StopsBehind'
      BY <3>3, <3>4 DEF StopsBehind, IsFirst
    <3>8. Unregistered' /\ Room' /\ ChatLeft'
      BY <2>0, <3>4 DEF Unregistered, Room, ChatLeft
    <3>. QED  BY <1>k, <2>0, <3>3, <3>4, <3>6, <3>7, <3>8 DEF Chats, Turns
  <2>2. CASE ~ at < Len(table)
    <3>1. pc' = "down" /\ table' = <<>> /\ UNCHANGED procs
      BY <1>19, <2>2 DEF StopNext
    <3>2. ASSUME NEW i \in DOMAIN table, table[i].mode = "chat"  PROVE ~ Remains(table[i].pid)
      <4>1. ~ at < i
        BY <1>t, <2>2
      <4>. QED  BY <2>0, <3>1, <3>2, <4>1 DEF ChatAhead, Ending, Young, Remains
    <3>3. child' = "none" /\ child \notin Pid
      BY <1>h, <2>0, NoChild
    <3>. QED  BY <2>0, <3>1, <3>2, <3>3, Unchanging, ChatEnded
  <2>. QED  BY <2>1, <2>2
<1>20. CASE Die
  <2>1. /\ pc' = "down" /\ table' = <<>> /\ child' = "none" /\ disturbed'
        /\ UNCHANGED <<procs, exits>>
    BY <1>20 DEF Die
  <2>. QED  BY <2>1, Unchanging, ChatEnded
<1>21. ASSUME NEW t \in BOOLEAN, Interrupt(t)  PROVE Chats'
  <2>1. /\ pc # "down" /\ UNCHANGED <<disturbed, doc, atexit>> /\ child' = "none"
        /\ "unstopped" \in exits => "unstopped" \in exits'
        /\ (Ending /\ pc' = "down" /\ table' = <<>>) \/ (~ Ending /\ Exit)
    BY <1>21 DEF Interrupt
  <2>2. CASE t
    <3>1. procs' = Signalled(Started)
      BY <1>21, <2>2 DEF Interrupt
    <3>2. Fades /\ \A p \in Pid : p \in Started => ~ Young(p)'
      BY <3>1, Signalling
    <3>3. \A i \in DOMAIN table : ~ Remains(table[i].pid)
      BY <3>2, EntriesAreTyped DEF Started, Tabled, Young, Remains
    <3>4. child \in Pid => ~ Remains(child)
      BY <3>2 DEF Started, Young, Remains
    <3>. QED  BY <1>n, <2>1, <3>2, <3>3, <3>4, ChatEnded, ChatExiting
  <2>3. CASE ~ t
    <3>1. UNCHANGED procs /\ exits' = exits \cup Unstopped
      BY <1>21, <2>3 DEF Interrupt
    <3>2. ASSUME "unstopped" \notin exits', Started # {}  PROVE ~ Ending /\ atexit
      <4>1. "unstopped" \notin Unstopped
        BY <3>1, <3>2
      <4>. QED  BY <3>2, <4>1 DEF Unstopped
    <3>3. ASSUME "unstopped" \notin exits', NEW i \in DOMAIN table
          PROVE  ~ Ending /\ atexit
      <4>1. table[i].pid \in Started
        BY DEF Started, Tabled
      <4>. QED  BY <3>2, <3>3, <4>1
    <3>4. ASSUME "unstopped" \notin exits', child \in Pid  PROVE ~ Ending /\ mode # "chat"
      <4>1. child \in Started
        BY <3>4 DEF Started
      <4>2. ~ Ending /\ atexit
        BY <3>2, <3>4, <4>1
      <4>3. pc = "spawned"
        BY <1>h, <3>4
      <4>. QED  BY <4>2, <4>3 DEF Unregistered
    <3>. QED  BY <1>n, <2>1, <3>1, <3>3, <3>4, Unchanging, ChatEnded, ChatExiting
  <2>. QED  BY <2>2, <2>3
<1>22. ASSUME NEW t \in BOOLEAN, InterruptSwallowed(t)  PROVE Chats'
  <2>1. /\ pc = "waiting"
        /\ UNCHANGED <<disturbed, exits, pc, table, child, mode, then, doc, atexit, at>>
        /\ UNCHANGED procs \/ procs' = Signalled(Started)
    BY <1>22 DEF InterruptSwallowed, toolkit
  <2>2. Fades
    BY <2>1, Unchanging, Signalling
  <2>3. Turns'
    BY <2>1 DEF Turns, Unregistered, Room, StopsBehind, ChatLeft, ChatAhead, Ending
  <2>. QED  BY <1>k, <2>1, <2>2, <2>3 DEF Chats
<1>23. CASE Tables
  <2>1. /\ pc = "spawned" /\ pc' = "waiting" /\ table' = Append(table, Entry(mode, child))
        /\ child' = "none" /\ UNCHANGED <<procs, disturbed, exits, mode, then, doc, atexit, at>>
    BY <1>23 DEF Tables
  <2>2. Line'
    BY <1>n, <1>23, LineTabled
  <2>3. ChatHeld'
    <3>1. /\ DOMAIN table' = 1 .. Len(table) + 1 /\ DOMAIN table = 1 .. Len(table)
          /\ Len(table) \in Nat
          /\ \A i \in DOMAIN table : table'[i] = table[i]
          /\ table'[Len(table) + 1].pid = child
      BY <1>t, <2>1 DEF Entry
    <3>2. child \in Tabled' /\ \A p \in Tabled : p \in Tabled'
      BY <3>1 DEF Tabled
    <3>3. \A p : p \in Started => p \in Started'
      BY <3>2 DEF Started
    <3>. QED  BY <2>1, <3>3, Unchanging, ChatHeldOn
  <2>4. Turns'
    BY <2>1 DEF Turns, Unregistered, Room, StopsBehind, ChatLeft, ChatAhead, Ending
  <2>. QED  BY <2>2, <2>3, <2>4 DEF Chats
<1>. QED
  BY <1>1, <1>2, <1>3, <1>4, <1>5, <1>6, <1>7, <1>9, <1>10, <1>11, <1>12, <1>13, <1>14,
     <1>15, <1>16, <1>17, <1>18, <1>19, <1>20, <1>21, <1>22, <1>23 DEF ToolkitNext

LEMMA ChatByHost ==
  ASSUME TypeOK, Chats, Host, UNCHANGED toolkit
  PROVE  Chats'
<1>1. UNCHANGED <<pc, table, child, mode, then, doc, atexit, at, exits>>
  BY DEF toolkit
<1>2. Fades /\ (disturbed => disturbed')
  BY HostFades
<1>3. \A i \in DOMAIN table : table[i].pid \in Pid
  BY EntriesAreTyped
<1>4. Line'
  BY <1>1, HostRevivesNone, LineKept DEF Chats
<1>5. ChatHeld'
  BY <1>1, <1>2, StartedKept, ChatHeldOn DEF Chats
<1>6. Unregistered' /\ Room' /\ StopsBehind'
  BY <1>1 DEF Chats, Turns, Unregistered, Room, StopsBehind, IsFirst, Absent
<1>7. ChatLeft' /\ ChatAhead'
  BY <1>1, <1>2, <1>3 DEF Chats, Turns, ChatLeft, ChatAhead, Ending, Still, Fades
<1>. QED  BY <1>4, <1>5, <1>6, <1>7 DEF Chats, Turns

OnlyChat == program = "LCPToolkit" => Chats

LEMMA ChatAlways == Spec => []OnlyChat
<1>1. Init => OnlyChat
  <2>. SUFFICES ASSUME Init  PROVE Chats
    BY DEF OnlyChat
  <2>1. /\ \A p \in Pid : procs[p].state = "dead"
        /\ table = <<>> /\ pc = "down"
    BY DEF Init, InitToolkit
  <2>2. DOMAIN table = {}
    BY <2>1
  <2>3. Line /\ ChatHeld
    BY <2>1, <2>2 DEF Line, Single, DeadBefore, ChatHeld, Young
  <2>4. Turns
    BY <2>1 DEF Turns, Unregistered, Room, StopsBehind, ChatLeft, ChatAhead, Ending
  <2>. QED  BY <2>3, <2>4 DEF Chats
<1>2. TypeOK /\ StopsAnEntry /\ Documents /\ Orderly /\ Stands /\ OnlyChat /\ [Next]_vars => OnlyChat'
  <2>. SUFFICES ASSUME TypeOK, StopsAnEntry, Documents, Orderly, Stands, OnlyChat, [Next]_vars,
                       program' = "LCPToolkit"
                PROVE  Chats'
    BY DEF OnlyChat
  <2>1. CASE UNCHANGED vars
    <3>1. Chats
      BY <2>1 DEF OnlyChat, vars
    <3>2. UNCHANGED <<procs, disturbed, exits, pc, table, child, mode, then, doc, atexit, at>>
      BY <2>1 DEF vars, toolkit
    <3>3. Line'
      BY <3>1, <3>2, LineKept DEF Chats, NoneRevives, Alive
    <3>4. ChatHeld'
      BY <3>1, <3>2, StartedKept, ChatHeldOn, Unchanging DEF Chats
    <3>5. Turns'
      BY <3>1, <3>2 DEF Chats, Turns, Unregistered, Room, StopsBehind, ChatLeft, ChatAhead, Ending,
                        Still, Young, IsFirst, Absent
    <3>. QED  BY <3>3, <3>4, <3>5 DEF Chats
  <2>2. CASE program = "LCPToolkit" /\ ToolkitNext
    BY <2>2, ChatStep DEF OnlyChat, Stands, Shape, Course
  <2>3. CASE UNCHANGED program /\ Host /\ UNCHANGED toolkit
    BY <2>3, ChatByHost DEF OnlyChat
  <2>. QED  BY <2>1, <2>2, <2>3, NextIsOneOfThree
<1>3. Spec => [](TypeOK /\ StopsAnEntry)
  BY InitTypes, StepTypes, PTL DEF Spec
<1>. QED  BY <1>1, <1>2, <1>3, DocumentsAlways, OrderlyAlways, StandsAlways, PTL DEF Spec

(* LCPToolkit leaves a chat server behind only where an interrupt comes     *)
(* before stop_all_servers is registered, or while it runs, and an embedding *)
(* server only where it ends over a refused chunk or by an interrupt; but   *)
(* for runs that are killed, and servers that die: ServersAreStopped.       *)
THEOREM NoneIsLeft == Spec => []ServersAreStopped
<1>1. TypeOK /\ Apart /\ Orderly /\ Stands /\ OnlyChat /\ Foreign => ServersAreStopped
  <2>. SUFFICES ASSUME TypeOK, Apart, Orderly, Stands, OnlyChat, Foreign, pc = "down", ~ disturbed,
                       NEW p \in Pid, procs[p].port \in {"8080", "8888"}, Young(p)
                PROVE  "unstopped" \in exits \/ (procs[p].port = "8080" /\ exits # {})
    BY DEF ServersAreStopped
  <2>1. CASE program = "LCPToolkit"
    <3>1. p \notin Started
      <4>1. DOMAIN table = {}
        BY DEF Orderly
      <4>. QED  BY <4>1, NoChild DEF Started, Tabled
    <3>2. exits # {}
      BY <2>1, <3>1 DEF Stands, Shape, Held, Marred
    <3>3. procs[p].port = "8888" => "unstopped" \in exits
      BY <2>1, <3>1 DEF OnlyChat, Chats, ChatHeld
    <3>. QED  BY <3>2, <3>3
  <2>2. CASE program = "edacurry2427"
    BY <2>2 DEF Foreign, Young
  <2>. QED  BY <2>1, <2>2 DEF Apart
<1>. QED  BY <1>1, OrderlyAlways, ManagedAlways, StandsAlways, ChatAlways, TypeCorrect, PTL

(* Documents and questions are answered by the servers the run has started, *)
(* until a run has left one on the port: the property AnswersAreOwn.       *)
THEOREM OwnAnswers == Spec => []AnswersAreOwn
<1>1. TypeOK /\ Apart /\ Stands => AnswersAreOwn
  <2>. SUFFICES ASSUME TypeOK, Apart, Stands, pc \in {"embedding", "prompt", "answering"},
                       ~ disturbed, exits = {}, NEW p \in Pid, procs[p].state = "ready"
                PROVE  p \in Tabled
    BY DEF AnswersAreOwn
  <2>1. child \notin Pid /\ program = "LCPToolkit"
    BY NoChild DEF Apart
  <2>2. Young(p)
    BY DEF Young
  <2>. QED  BY <2>1, <2>2 DEF Stands, Shape, Held, Marred, Started
<1>. QED  BY <1>1, ManagedAlways, StandsAlways, TypeCorrect, PTL
=============================================================================
