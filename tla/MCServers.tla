------------------------------ MODULE MCServers ------------------------------
(* Servers for TLC: processes and documents are interchangeable, and a      *)
(* behaviour is followed until two of the things have happened that leave   *)
(* servers behind.                                                          *)
EXTENDS Servers, TLC

MCPort == {"8080", "8888", "11434"}

Symmetry == Permutations(Pid) \cup Permutations(Doc)

OneLeft == Cardinality(exits) + (IF disturbed THEN 1 ELSE 0) <= 1
=============================================================================
