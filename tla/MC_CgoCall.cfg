CONSTANTS
  Nodes = {"T1", "T2", "T3"}
  LeafKinds = {"basic", "slice"}
  MaxFields = 2
  CallSites <- MCCallSites

SPECIFICATION Spec

\* The analyzer stops after the last call expression of the package.
CHECK_DEADLOCK FALSE

INVARIANTS
  AlgorithmAgrees
  ReportsMatchDoc
