------------------------------- MODULE Toolkit -------------------------------
(***************************************************************************)
(* LCPToolkit: a retrieval assistant on two model servers of its own, one  *)
(* that chats for as long as the program runs and one that embeds, started *)
(* and stopped for each document and for each question.  A run begins with *)
(* the documents that the database does not have; the database and the     *)
(* texts of the documents outlive it.                                      *)
(***************************************************************************)
EXTENDS LlamaServers

CONSTANTS
  Doc,      \* the documents
  Chunks    \* how many chunks the whole text of a document has

ASSUME ToolkitAssumption ==
  Chunks \in Nat \ {0, 1} /\ {"8080", "8888"} \subseteq Port /\ "none" \notin Doc

VARIABLES
  pc,      \* where the program is
  table,   \* _active_process_list: servers started and not stopped
  child,   \* the process that Popen has created for it, or "none"
  mode,    \* the server that is being started or stopped
  then,    \* where the program goes when it has stopped
  doc,     \* the document that is being embedded, or "none" for a question
  todo,    \* the documents the run has not looked at yet
  texts,   \* the documents' texts: "none", "cut" or "whole"
  db,      \* how many chunks of each document the database has
  anew,    \* _empy_db: whether the run found the database empty
  atexit,  \* whether stop_all_servers runs at the end
  at,      \* how many servers its loop has passed
  cut,     \* the documents that a run died over
  exits    \* the ends of runs that do not stop every server of the run

toolkit == <<pc, table, child, mode, then, doc, todo, texts, db, anew, atexit, at, cut, exits>>
kept    == <<texts, db, cut, exits>>

Modes == {"embedding", "chat"}
PortOf(m) == IF m = "chat" THEN "8888" ELSE "8080"
Entries == [mode : Modes, pid : Pid]
Entry(m, p) == [mode |-> m, pid |-> p]

(* The entry of a mode that is_server_running and stop_server look at: the *)
(* first, whether its process lives or not.                                *)
IsFirst(i, m) == table[i].mode = m /\ \A j \in 1 .. i - 1 : table[j].mode # m

FirstOf(m) == CHOOSE i \in DOMAIN table : IsFirst(i, m)

Running(m) == \E i \in DOMAIN table : IsFirst(i, m) /\ Alive(table[i].pid)

Tabled == {table[i].pid : i \in DOMAIN table}

(* The processes that the run has started and not stopped.                 *)
Started == Tabled \cup ({child} \cap Pid)

(* Fault: the list is emptied.                                             *)
WithoutAny(i) == <<>>

Without(i) == SubSeq(table, 1, i - 1) \o SubSeq(table, i + 1, Len(table))

InitToolkit ==
  /\ pc = "down" /\ table = <<>> /\ child = "none" /\ mode = "chat" /\ then = "down"
  /\ doc = "none" /\ todo = {} /\ anew = FALSE
  /\ texts = [d \in Doc |-> "none"] /\ db = [d \in Doc |-> 0]
  /\ atexit = FALSE /\ at = 0 /\ cut = {} /\ exits = {}

-----------------------------------------------------------------------------
(* The program ends: what is registered with atexit runs first.            *)
Exit == IF atexit THEN pc' = "exiting" /\ at' = 0 /\ UNCHANGED table
        ELSE pc' = "down" /\ table' = <<>> /\ UNCHANGED at

(* stop_server(m), after which the program is at place.                    *)
StopServer(m, place) ==
  IF Running(m)
  THEN /\ procs' = Signalled({table[FirstOf(m)].pid})
       /\ pc' = "stopping" /\ mode' = m /\ then' = place
  ELSE pc' = place /\ UNCHANGED <<procs, mode, then>>

(* process.wait() returns: the entry is removed.                           *)
Stopped ==
  /\ pc = "stopping" /\ ~ Alive(table[FirstOf(mode)].pid)
  /\ table' = Without(FirstOf(mode))
  /\ pc' = then
  /\ UNCHANGED <<procs, disturbed, child, mode, then, doc, todo, anew, atexit, at, kept>>

(* start_server(m): a second server of a mode ends the program.  The       *)
(* process exists before it is in the table.                               *)
StartServer(m) ==
  IF Running(m) THEN Exit /\ UNCHANGED <<procs, child, mode>>
  ELSE \E p \in Pid :
         /\ ~ Alive(p) /\ p \notin Tabled
         /\ procs' = Launched(p, PortOf(m)) /\ child' = p
         /\ pc' = "spawned" /\ mode' = m
         /\ UNCHANGED <<table, at>>

Tables ==
  /\ pc = "spawned"
  /\ table' = Append(table, Entry(mode, child)) /\ child' = "none"
  /\ pc' = "waiting"
  /\ UNCHANGED <<procs, disturbed, mode, then, doc, todo, anew, atexit, at, kept>>

Start ==
  /\ pc = "down"
  /\ pc' = "documents" /\ todo' = Doc
  /\ anew' = (\A d \in Doc : db[d] = 0)
  /\ atexit' = FALSE /\ doc' = "none"
  /\ UNCHANGED <<procs, disturbed, table, child, mode, then, at, kept>>

(* The text of a document is made where there is none, or no database.     *)
WriteText(d) ==
  /\ pc = "documents" /\ d \in todo
  /\ texts[d] = "none" \/ anew
  /\ texts' = [texts EXCEPT ![d] = "cut"]
  /\ pc' = "writing" /\ doc' = d
  /\ UNCHANGED <<procs, disturbed, table, child, mode, then, todo, db, anew, atexit, at,
                 cut, exits>>

HasText(d) == (texts[d] # "none" /\ ~ anew) \/ (pc = "writing" /\ doc = d)

(* A document of which the database has nothing is embedded.               *)
LookUp(d) ==
  /\ pc \in {"documents", "writing"} /\ d \in todo /\ HasText(d)
  /\ pc = "writing" => d = doc
  /\ todo' = todo \ {d}
  /\ texts' = IF pc = "writing" THEN [texts EXCEPT ![d] = "whole"] ELSE texts
  /\ IF db[d] = 0 THEN doc' = d /\ StartServer("embedding")
     ELSE pc' = "documents" /\ doc' = "none" /\ UNCHANGED <<procs, table, child, mode, at>>
  /\ UNCHANGED <<disturbed, then, db, anew, atexit, cut, exits>>

(* The health check is answered, by whichever server has the port.         *)
Healthy ==
  /\ pc = "waiting" /\ Answers(PortOf(mode))
  /\ pc' = IF mode = "chat" THEN "prompt" ELSE "embedding"
  /\ atexit' = (atexit \/ mode = "chat")
  /\ UNCHANGED <<procs, disturbed, table, child, mode, then, doc, todo, anew, at, kept>>

(* Fault: the server goes on loading.                                      *)
TimesOutLoading ==
  /\ pc = "waiting"
  /\ pc' = IF mode = "chat" THEN "leaving" ELSE "embedding"
  /\ UNCHANGED <<procs, disturbed, table, child, mode, then, doc, todo, anew, atexit, at, kept>>

(* Or it is not, in 20 seconds.  Nobody looks at the result but the start  *)
(* of the chat server, without which the program ends.                     *)
TimesOut ==
  /\ pc = "waiting"
  /\ StopServer(mode, IF mode = "chat" THEN "leaving" ELSE "embedding")
  /\ UNCHANGED <<disturbed, table, child, doc, todo, anew, atexit, at, kept>>

Leaving ==
  /\ pc = "leaving"
  /\ Exit
  /\ UNCHANGED <<procs, disturbed, child, mode, then, doc, todo, anew, atexit, kept>>

(* Fault: one chunk too many.                                              *)
SizePast(d) == IF texts[d] = "whole" THEN Chunks + 1 ELSE 1

Size(d) == IF texts[d] = "whole" THEN Chunks ELSE 1

(* A chunk is embedded and saved; after the last one the server stops.     *)
SaveChunk ==
  /\ pc = "embedding" /\ doc # "none" /\ Answers("8080") /\ db[doc] < Size(doc)
  /\ db' = [db EXCEPT ![doc] = @ + 1]
  /\ UNCHANGED <<procs, disturbed, pc, table, child, mode, then, doc, todo, texts, anew,
                 atexit, at, cut, exits>>

(* Fault: the server goes on for the next document.                        *)
DocumentDoneRunning ==
  /\ pc = "embedding" /\ doc # "none" /\ db[doc] = Size(doc)
  /\ pc' = "documents" /\ doc' = "none"
  /\ UNCHANGED <<procs, disturbed, table, child, mode, then, todo, anew, atexit, at, kept>>

DocumentDone ==
  /\ pc = "embedding" /\ doc # "none" /\ db[doc] = Size(doc)
  /\ StopServer("embedding", "documents")
  /\ doc' = "none"
  /\ UNCHANGED <<disturbed, table, child, todo, anew, atexit, at, kept>>

(* The run ends over a document.                                           *)
Spoilt == IF doc = "none" THEN cut ELSE cut \cup {doc}

(* No vector: an answer with another status, or none at all.  The server   *)
(* is stopped only in the second case, or where the question is done with. *)
ChunkRefused ==
  /\ pc = "embedding" /\ doc # "none" /\ db[doc] < Size(doc) /\ Answers("8080")
  /\ cut' = Spoilt /\ exits' = exits \cup {"refused"}
  /\ Exit
  /\ UNCHANGED <<procs, disturbed, child, mode, then, doc, todo, texts, db, anew, atexit>>

(* Fault: the rest of the document is left out.                            *)
ChunkFailsOver ==
  /\ pc = "embedding" /\ doc # "none" /\ db[doc] < Size(doc)
  /\ StopServer("embedding", "documents")
  /\ doc' = "none"
  /\ UNCHANGED <<disturbed, table, child, todo, anew, atexit, at, kept>>

ChunkFails ==
  /\ pc = "embedding" /\ doc # "none" /\ db[doc] < Size(doc)
  /\ StopServer("embedding", "leaving")
  /\ cut' = Spoilt
  /\ UNCHANGED <<disturbed, table, child, doc, todo, texts, db, anew, atexit, at, exits>>

StartChat ==
  /\ pc = "documents" /\ todo = {}
  /\ StartServer("chat")
  /\ UNCHANGED <<disturbed, then, doc, todo, anew, atexit, kept>>

-----------------------------------------------------------------------------
(* A question: its context is searched with the embedding server, then the *)
(* chat server is asked.                                                   *)
Ask ==
  /\ pc = "prompt"
  /\ StartServer("embedding")
  /\ UNCHANGED <<disturbed, then, doc, todo, anew, atexit, kept>>

(* The question's vector, and chunks that are near or not; or none, over   *)
(* which the search raises.                                                *)
ContextFound ==
  /\ pc = "embedding" /\ doc = "none" /\ Answers("8080")
  /\ \E place \in {"answering", "prompt", "leaving"} : StopServer("embedding", place)
  /\ UNCHANGED <<disturbed, table, child, doc, todo, anew, atexit, at, kept>>

ContextFails ==
  /\ pc = "embedding" /\ doc = "none"
  /\ StopServer("embedding", "leaving")
  /\ UNCHANGED <<disturbed, table, child, doc, todo, anew, atexit, at, kept>>

Answered ==
  /\ pc = "answering" /\ Answers("8888")
  /\ pc' = "prompt"
  /\ UNCHANGED <<procs, disturbed, table, child, mode, then, doc, todo, anew, atexit, at, kept>>

(* The chat server does not answer, or the user leaves.                    *)
Quit ==
  /\ pc \in {"answering", "prompt"}
  /\ StopServer("chat", "leaving")
  /\ UNCHANGED <<disturbed, table, child, doc, todo, anew, atexit, at, kept>>

(* stop_all_servers takes the entries from the list it goes through, and   *)
(* passes over the one behind each of them.                                *)
StopNext ==
  /\ pc = "exiting"
  /\ IF at < Len(table)
     THEN StopServer(table[at + 1].mode, "exiting") /\ at' = at + 1 /\ UNCHANGED table
     ELSE pc' = "down" /\ table' = <<>> /\ UNCHANGED <<procs, mode, then, at>>
  /\ UNCHANGED <<disturbed, child, doc, todo, anew, atexit, kept>>

-----------------------------------------------------------------------------
(* The functions registered with atexit are running.                       *)
Ending == pc = "exiting" \/ (pc = "stopping" /\ then = "exiting")

(* What an interrupt finds that the end of the program will not stop: all  *)
(* of its servers, before stop_all_servers is registered or once it runs,  *)
(* or the one behind the first, in the table or not yet.                   *)
Unstopped ==
  IF Started # {} /\ (Ending \/ ~ atexit) THEN {"unstopped"}
  ELSE IF child \in Pid \/ Cardinality(Tabled) > 1 THEN {"second"} ELSE {}

(* KeyboardInterrupt.  From a terminal the servers of the run get it, too. *)
Interrupt(terminal) ==
  /\ pc # "down"
  /\ procs' = IF terminal THEN Signalled(Started) ELSE procs
  /\ exits' = IF terminal THEN exits ELSE exits \cup Unstopped
  /\ IF Ending THEN pc' = "down" /\ table' = <<>> /\ UNCHANGED at ELSE Exit
  /\ child' = "none" /\ cut' = Spoilt
  /\ UNCHANGED <<disturbed, mode, then, doc, todo, texts, db, anew, atexit>>

(* The health check swallows it.                                           *)
InterruptSwallowed(terminal) ==
  /\ pc = "waiting"
  /\ procs' = IF terminal THEN Signalled(Started) ELSE procs
  /\ UNCHANGED <<disturbed, toolkit>>

(* The program is killed, as it is by SIGTERM, for which it has no handler. *)
Die ==
  /\ pc # "down"
  /\ pc' = "down" /\ table' = <<>> /\ child' = "none" /\ disturbed' = TRUE
  /\ cut' = Spoilt
  /\ UNCHANGED <<procs, mode, then, doc, todo, texts, db, anew, atexit, at, exits>>

ToolkitNext ==
  \/ Start \/ (\E d \in Doc : WriteText(d) \/ LookUp(d)) \/ Tables \/ Healthy
  \/ TimesOut \/ Leaving \/ SaveChunk \/ DocumentDone \/ ChunkRefused \/ ChunkFails
  \/ StartChat \/ Ask \/ ContextFound \/ ContextFails \/ Answered \/ Quit
  \/ Stopped \/ StopNext \/ Die \/ \E terminal \in BOOLEAN :
       Interrupt(terminal) \/ InterruptSwallowed(terminal)
=============================================================================
