\* A run died while it wrote a report, and the next one goes on.
CONSTANTS
  a = a
  b = b
  Id = {a, b}
  Circuits = {"asIs"}
  DefectsOf <- SameCircuit
SPECIFICATION Spec
INVARIANT IntegrityMeansReadable
