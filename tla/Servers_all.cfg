\* Three processes, two documents of two chunks, any number of runs.
CONSTANTS
  Pid = {p1, p2, p3}
  Doc = {d1, d2}
  Port <- MCPort
  Chunks = 2
SPECIFICATION Spec
SYMMETRY Symmetry
CONSTRAINT OneLeft
INVARIANTS
  TypeOK
  ServersAreStopped
  AnswersAreOwn
  NoStartIsRefused
  DocumentsAreWhole
  ServerIsStopped
  TriageIsOwn
  
