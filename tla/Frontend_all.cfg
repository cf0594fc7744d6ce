\* Both languages, with parts that occur twice and one level of nesting,
\* and at most one context that the parser has recovered.
CONSTANTS
  Langs <- MCLangs
  MaxRepeat = 2
  MaxDepth = 1
  Deepens <- MCDeepens
  MaxErrors = 1
  Skipped <- MCSkipped
  MaxPending = 2
SPECIFICATION Spec
INVARIANTS
  TypeOK
  StackMatchesCalls
  CastsHold
  NothingIsDropped
  NullsAreExcluded
  TokensAreKept
PROPERTY OnlyTheTopChanges
