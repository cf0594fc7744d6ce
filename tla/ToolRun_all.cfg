\* Two defects, and edits of the circuit that keep their names or lose one.
CONSTANTS
  a = a
  b = b
  Id = {a, b}
  Circuits = {"asIs", "sameNames", "partLess"}
  DefectsOf <- Edits
SPECIFICATION FairSpec
INVARIANTS
  TypeOK
  EveryNameIsJudged
  OneCampaign
PROPERTIES
  DiagnosesAreKept
  IncompleteIsCleared
