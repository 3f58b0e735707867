CONSTANTS
  g1 = g1
  g2 = g2
  PtrMsg = PtrMsg
  PtrOther = PtrOther
  PtrInt = PtrInt
  SliceMsg = SliceMsg
  Int = Int
  Msg = Msg
  Other = Other
  Goroutines = {g1, g2}
  GoTypes = {PtrMsg, PtrOther, PtrInt, SliceMsg, Int}
  Structs = {Msg, Other}
  Kind <- MCKind
  Elem <- MCElem
  NoElem = NoElem
  NumFields = 2
  FieldPanics <- MCFieldPanics
  HasDesc = TRUE
  RecoverModes = {FALSE}
  MaxCalls = 2
  NoType = NoType

SPECIFICATION Spec

\* The program stops when every goroutine has made its calls, or crashed.
CHECK_DEADLOCK FALSE

INVARIANTS
  TableComplete
  TypeAgreement
