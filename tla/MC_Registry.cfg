CONSTANTS
  a = a
  b = b
  f1 = f1
  f2 = f2
  f3 = f3
  f4 = f4
  f5 = f5
  f6 = f6
  p1 = p1
  p2 = p2
  Seg = {a, b}
  FileIds = {f1, f2, f3, f4, f5, f6}
  Paths = {p1, p2}
  Pkg <- MCPkg
  Decls <- MCDecls
  FilePath <- MCFilePath
  Placeholder = {f6}
  MaxDepth = 2
  MaxBatch = 2
  MaxCalls = 3
  NoErr = NoErr

SPECIFICATION Spec

\* The registry stops when the program has made its MaxCalls Register calls.
CHECK_DEADLOCK FALSE

INVARIANTS
  NamespaceConsistent
  FindResolves
  RangeComplete
  ByPathConsistent

PROPERTIES
  RejectIsAtomic
  ImplementsAbstract
