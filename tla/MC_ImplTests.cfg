CONSTANTS
  Fields <- TestFields
  FieldDesc <- TestFieldDesc
  Groups = {"union"}
  NoOneof = "none"
  Default <- TestDefault
  Zero <- ZeroVal
  Vals <- TestVals
  Keys <- KeySet
  Table <- MCTable
  Nil <- NilVal
  Prog <- TestProg
  NoField = 0
SPECIFICATION Spec
CHECK_DEADLOCK FALSE
INVARIANT TestsPass
