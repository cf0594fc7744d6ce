--------------------------- MODULE CampaignContract ---------------------------
(***************************************************************************)
(* What CampaignDirector.run_campaign promises its caller, without the     *)
(* pool, the timers, the logs and the threads: the defects are judged one  *)
(* after the other in the order of the universe, and the call either       *)
(* returns all the verdicts, or raises and returns none, or is cut short   *)
(* by a signal.                                                            *)
(***************************************************************************)
EXTENDS Integers, Sequences

CONSTANTS
  NumDefects,   (* the size of the defect universe                         *)
  Payload       (* what a verdict may carry                                *)

VARIABLES
  verdicts,     (* the verdicts reached so far                             *)
  failed,       (* a defect could not be judged                            *)
  answer        (* how the call ended                                      *)

cvars == <<verdicts, failed, answer>>

CInit == verdicts = <<>> /\ failed = FALSE /\ answer = "none"

Judge ==
  /\ answer = "none" /\ ~failed
  /\ Len(verdicts) < NumDefects
  /\ \E t \in BOOLEAN, p \in Payload :
       verdicts' = Append(verdicts, [target |-> Len(verdicts) + 1,
                                     timeout_limit_exceeded |-> t,
                                     simulation_result |-> p])
  /\ UNCHANGED <<failed, answer>>

GiveUp ==
  /\ answer = "none" /\ ~failed
  /\ Len(verdicts) < NumDefects
  /\ failed' = TRUE
  /\ UNCHANGED <<verdicts, answer>>

Return ==
  /\ answer = "none" /\ ~failed
  /\ Len(verdicts) = NumDefects
  /\ answer' = "report"
  /\ UNCHANGED <<verdicts, failed>>

Raise ==
  /\ answer = "none" /\ failed
  /\ answer' = "raised"
  /\ UNCHANGED <<verdicts, failed>>

CutShort ==
  /\ answer = "none"
  /\ answer' = "interrupted"
  /\ UNCHANGED <<verdicts, failed>>

CNext == Judge \/ GiveUp \/ Return \/ Raise \/ CutShort

CSpec == CInit /\ [][CNext]_cvars

=============================================================================
