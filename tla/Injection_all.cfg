\* Circuits of up to three parts of fifteen kinds, under four manifests,
\* and the injection of each defect of each universe; some circuits have
\* a component with the name of a subcircuit, or with dots in its name.
\* Every run ends, by an exception at the latest: no step follows.
CONSTANTS
  Name <- Strings
  Symbolic = Symbolic
  LongChannel = 2
  Circuits <- MCCircuits
  Manifests <- AllManifests
  Opened <- MCOpened
  Subcircuits <- MCSubcircuits
  Address <- MCAddress
  Split <- MCSplit
SPECIFICATION FairSpecInjection
INVARIANTS
  TypeOK
  IdsAreDistinct
  OpensBecomeOne
  OnlyNamesakesAreRefused
  OpensCanBeClosed
  DefectsAreToldApart
  OneDeviceIsHit
PROPERTIES
  CollapseIsConfined
  AnalysisEnds
CHECK_DEADLOCK FALSE
