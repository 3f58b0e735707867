------------------------- MODULE MessageTypeProofs -------------------------
(***************************************************************************)
(* Proofs about the lazy binder of module MessageType, for every value of *)
(* the constants that satisfies MessageTypeAssumption and NoneAssumption: *)
(* any number of goroutines, calls, Go types and descriptor fields.       *)
(***************************************************************************)
EXTENDS MessageType, TLAPS

\* A panic of g keeps the types: it only releases the mutex, stores done,
\* and sends g back to idle or ends the process.
LEMMA PanicType ==
  ASSUME TypeOK, NEW g \in Goroutines, Panic(g)
  PROVE  /\ onceDone' \in BOOLEAN
         /\ onceLock' \in Goroutines \cup {None}
         /\ pc' \in [Goroutines -> PCs]
         /\ pc' = pc \/ pc' = [pc EXCEPT ![g] = "idle"]
         /\ crashed' \in BOOLEAN
BY MessageTypeAssumption DEF Panic, TypeOK, PCs

\* The builder's loop index starts at 1 (ScanStruct), so the field it adds
\* is a descriptor index.
FieldIdx == \A g \in Goroutines : pc[g] = "field" => idx[g] >= 1

TypeInv == TypeOK /\ FieldIdx

LEMMA TypeStep == TypeInv /\ [Next]_vars => TypeInv'
<1> SUFFICES ASSUME TypeOK, FieldIdx, [Next]_vars PROVE TypeOK' /\ FieldIdx'
  BY DEF TypeInv
<1>1. CASE UNCHANGED vars
  BY <1>1 DEF vars, TypeOK, FieldIdx
<1>2. ASSUME NEW g \in Goroutines, Call(g) PROVE TypeOK' /\ FieldIdx'
  BY <1>2, MessageTypeAssumption DEF Call, TypeOK, PCs, FieldIdx
<1>3. ASSUME NEW g \in Goroutines, OnceDone(g) PROVE TypeOK' /\ FieldIdx'
  BY <1>3 DEF OnceDone, TypeOK, PCs, FieldIdx
<1>4. ASSUME NEW g \in Goroutines, OnceSlow(g) PROVE TypeOK' /\ FieldIdx'
  BY <1>4 DEF OnceSlow, TypeOK, PCs, FieldIdx
<1>5. ASSUME NEW g \in Goroutines, OnceLock(g) PROVE TypeOK' /\ FieldIdx'
  BY <1>5 DEF OnceLock, TypeOK, PCs, FieldIdx
<1>6. ASSUME NEW g \in Goroutines, BindType(g) PROVE TypeOK' /\ FieldIdx'
  <2>1. CASE KindCheckPanics(callType[g])
    BY <1>6, <2>1, PanicType DEF BindType, TypeOK, FieldIdx
  <2>2. CASE ~KindCheckPanics(callType[g])
    BY <1>6, <2>2 DEF BindType, TypeOK, PCs, FieldIdx
  <2>3. QED
    BY <2>1, <2>2
<1>7. ASSUME NEW g \in Goroutines, ScanStruct(g) PROVE TypeOK' /\ FieldIdx'
  <2>1. CASE Elem[callType[g]] \notin Structs
    BY <1>7, <2>1, PanicType, MessageTypeAssumption DEF ScanStruct, TypeOK, FieldIdx
  <2>2. CASE Elem[callType[g]] \in Structs /\ HasDesc
    BY <1>7, <2>2, MessageTypeAssumption DEF ScanStruct, TypeOK, PCs, FieldIdx
  <2>3. CASE Elem[callType[g]] \in Structs /\ ~HasDesc
    BY <1>7, <2>3, PanicType, MessageTypeAssumption DEF ScanStruct, TypeOK, FieldIdx
  <2>4. QED
    BY <2>1, <2>2, <2>3
<1>8. ASSUME NEW g \in Goroutines, BuildField(g) PROVE TypeOK' /\ FieldIdx'
  <2>1. CASE idx[g] > NumFields
    BY <1>8, <2>1, MessageTypeAssumption DEF BuildField, TypeOK, PCs, FieldIdx
  <2>2. CASE idx[g] <= NumFields /\ <<Elem[callType[g]], idx[g]>> \in FieldPanics
    <3>1. Panic(g) /\ UNCHANGED <<fields, idx, goType, callType, callsLeft>>
      BY <1>8, <2>2, MessageTypeAssumption DEF BuildField, TypeOK, FieldIdx
    <3>2. QED
      BY <3>1, PanicType DEF TypeOK, FieldIdx
  <2>3. CASE idx[g] <= NumFields /\ <<Elem[callType[g]], idx[g]>> \notin FieldPanics
    <3>1. /\ fields' = fields \cup {idx[g]}
          /\ idx' = [idx EXCEPT ![g] = idx[g] + 1]
          /\ UNCHANGED <<onceDone, onceLock, pc, crashed, goType, callType, callsLeft>>
      BY <1>8, <2>3, MessageTypeAssumption DEF BuildField, TypeOK
    <3>2. idx[g] \in 1..NumFields
      BY <1>8, <2>3, MessageTypeAssumption DEF BuildField, TypeOK, FieldIdx
    <3>3. fields' \subseteq AllFields
      BY <3>1, <3>2 DEF TypeOK, AllFields
    <3>4. idx' \in [Goroutines -> 0..NumFields + 1]
      BY <3>1, <3>2, MessageTypeAssumption DEF TypeOK
    <3>5. FieldIdx'
      BY <3>1, <3>2 DEF TypeOK, FieldIdx
    <3>6. QED
      BY <3>1, <3>3, <3>4, <3>5 DEF TypeOK
  <2>4. QED
    BY <2>1, <2>2, <2>3, MessageTypeAssumption DEF TypeOK
<1>9. ASSUME NEW g \in Goroutines, CheckType(g) PROVE TypeOK' /\ FieldIdx'
  <2>1. CASE callType[g] = goType
    BY <1>9, <2>1 DEF CheckType, TypeOK, PCs, FieldIdx
  <2>2. CASE callType[g] # goType
    BY <1>9, <2>2, PanicType DEF CheckType, TypeOK, FieldIdx
  <2>3. QED
    BY <2>1, <2>2
<1>10. ASSUME NEW g \in Goroutines, Return(g) PROVE TypeOK' /\ FieldIdx'
  BY <1>10 DEF Return, TypeOK, PCs, FieldIdx
<1>11. QED
  BY <1>1, <1>2, <1>3, <1>4, <1>5, <1>6, <1>7, <1>8, <1>9, <1>10 DEF Next, Step

\* The initial states satisfy TypeInv.
LEMMA TypeInitLemma == Init => TypeInv
<1> SUFFICES ASSUME Init PROVE TypeOK /\ FieldIdx
  BY DEF TypeInv
<1>1. TypeOK
  <2>1. onceDone \in BOOLEAN /\ onceLock \in Goroutines \cup {None} /\ crashed \in BOOLEAN
    BY DEF Init
  <2>2. goType \in GoTypes \cup {NoType} /\ fields \subseteq AllFields
    BY DEF Init
  <2>3. pc \in [Goroutines -> PCs] /\ callType \in [Goroutines -> GoTypes \cup {NoType}]
    BY DEF Init, PCs
  <2>4. idx \in [Goroutines -> 0..NumFields + 1] /\ callsLeft \in [Goroutines -> 0..MaxCalls]
    BY MessageTypeAssumption DEF Init
  <2>5. QED
    BY <2>1, <2>2, <2>3, <2>4 DEF TypeOK
<1>2. FieldIdx
  BY DEF Init, FieldIdx
<1>3. QED
  BY <1>1, <1>2

\* Every reachable state of the binder has the types of TypeOK, for any
\* number of goroutines, calls, Go types and descriptor fields.
THEOREM TypeCorrect == Spec => []TypeOK
BY TypeInitLemma, TypeStep, PTL DEF Spec, TypeInv

-----------------------------------------------------------------------------
(* The lock discipline of sync.Once: LockHolder, LockOwned, DoneBeforePast *)
(* and ReadyTyped hold in every state, recovered panics included.         *)

Core == LockHolder /\ LockOwned /\ DoneBeforePast /\ ReadyTyped

Past == {"check", "ready"}
InF == {"kind", "scan", "field"}

\* Only the holder of the mutex is inside f.
LEMMA HolderUnique ==
  ASSUME TypeOK, LockHolder, ~crashed, NEW g \in Goroutines, NEW h \in Goroutines,
         pc[h] \in InF, onceLock = g
  PROVE  h = g
BY DEF LockHolder, InF

\* A panic of g, outside f or as the holder of the mutex, keeps Core.
LEMMA PanicKeepsCore ==
  ASSUME TypeOK, Core, ~crashed, NEW g \in Goroutines, pc[g] \in InF \cup {"check"},
         Panic(g), UNCHANGED <<goType, callType>>
  PROVE  Core'
<1> USE DEF Core
<1>1. CASE onceLock = g
  <2>1. onceDone' = TRUE /\ onceLock' = None
    BY <1>1 DEF Panic
  <2>2. \A h \in Goroutines : h # g => pc[h] \notin InF
    BY <1>1, NoneAssumption DEF LockHolder, InF, TypeOK
  <2>3. pc' = pc \/ pc' = [pc EXCEPT ![g] = "idle"]
    BY DEF Panic
  <2>4. crashed' = TRUE \/ (crashed' = crashed /\ pc' = [pc EXCEPT ![g] = "idle"])
    BY DEF Panic
  <2>5. LockHolder'
    BY <2>1, <2>2, <2>4 DEF LockHolder, InF, TypeOK
  <2>6. LockOwned'
    BY <2>1 DEF LockOwned
  <2>7. DoneBeforePast'
    BY <2>1 DEF DoneBeforePast
  <2>8. ReadyTyped'
    BY <2>3 DEF ReadyTyped, TypeOK
  <2>9. QED
    BY <2>5, <2>6, <2>7, <2>8
<1>2. CASE onceLock # g
  <2>1. UNCHANGED <<onceDone, onceLock>>
    BY <1>2 DEF Panic
  <2>2. pc[g] = "check"
    BY <1>2 DEF LockHolder, InF
  <2>3. crashed' = TRUE \/ (crashed' = crashed /\ pc' = [pc EXCEPT ![g] = "idle"])
    BY DEF Panic
  <2>4. pc' = pc \/ pc' = [pc EXCEPT ![g] = "idle"]
    BY DEF Panic
  <2>5. LockHolder'
    BY <2>1, <2>2, <2>3 DEF LockHolder, InF, TypeOK
  <2>6. LockOwned'
    BY <1>2, <2>1, <2>3 DEF LockOwned, TypeOK
  <2>7. DoneBeforePast'
    BY <2>1, <2>4 DEF DoneBeforePast, TypeOK
  <2>8. ReadyTyped'
    BY <2>4 DEF ReadyTyped, TypeOK
  <2>9. QED
    BY <2>5, <2>6, <2>7, <2>8
<1>3. QED
  BY <1>1, <1>2

\* Every step of a goroutine keeps Core.
LEMMA CoreStep ==
  ASSUME TypeOK, Core, ~crashed, NEW g \in Goroutines, Call(g) \/ Step(g)
  PROVE  Core'
<1> USE DEF Core
<1>1. CASE Call(g)
  BY <1>1 DEF Call, LockHolder, LockOwned, DoneBeforePast, ReadyTyped, TypeOK
<1>2. CASE OnceDone(g)
  BY <1>2 DEF OnceDone, LockHolder, LockOwned, DoneBeforePast, ReadyTyped, TypeOK
<1>3. CASE OnceSlow(g)
  BY <1>3 DEF OnceSlow, LockHolder, LockOwned, DoneBeforePast, ReadyTyped, TypeOK
<1>4. CASE OnceLock(g)
  <2>1. CASE onceDone
    BY <1>4, <2>1 DEF OnceLock, LockHolder, LockOwned, DoneBeforePast, ReadyTyped, TypeOK
  <2>2. CASE ~onceDone
    <3>1. \A h \in Goroutines : pc[h] \notin InF
      BY <1>4, NoneAssumption DEF OnceLock, LockHolder, InF, TypeOK
    <3>2. onceLock' = g /\ pc' = [pc EXCEPT ![g] = "kind"]
          /\ UNCHANGED <<onceDone, goType, callType, crashed>>
      BY <1>4, <2>2 DEF OnceLock
    <3>3. QED
      BY <2>2, <3>1, <3>2 DEF LockHolder, LockOwned, DoneBeforePast, ReadyTyped, TypeOK, InF
  <2>3. QED
    BY <2>1, <2>2
<1>5. CASE BindType(g)
  <2>1. onceLock = g /\ ~onceDone
    BY <1>5 DEF BindType, LockHolder
  <2>2. CASE KindCheckPanics(callType[g])
    BY <1>5, <2>2, PanicKeepsCore DEF BindType, InF
  <2>3. CASE ~KindCheckPanics(callType[g])
    <3>1. pc' = [pc EXCEPT ![g] = "scan"] /\ UNCHANGED <<onceDone, onceLock, crashed, callType>>
      BY <1>5, <2>3 DEF BindType
    <3>2. \A h \in Goroutines : pc[h] # "ready"
      BY <2>1 DEF DoneBeforePast
    <3>3. QED
      BY <2>1, <3>1, <3>2 DEF LockHolder, LockOwned, DoneBeforePast, ReadyTyped, TypeOK
  <2>4. QED
    BY <2>2, <2>3
<1>6. CASE ScanStruct(g)
  <2>1. onceLock = g /\ ~onceDone
    BY <1>6 DEF ScanStruct, LockHolder
  <2>2. CASE Elem[callType[g]] \notin Structs \/ ~HasDesc
    <3>1. Panic(g) /\ UNCHANGED <<goType, callType>>
      BY <1>6, <2>2 DEF ScanStruct
    <3>2. QED
      BY <1>6, <3>1, PanicKeepsCore DEF ScanStruct, InF
  <2>3. CASE Elem[callType[g]] \in Structs /\ HasDesc
    <3>1. pc' = [pc EXCEPT ![g] = "field"]
          /\ UNCHANGED <<onceDone, onceLock, crashed, goType, callType>>
      BY <1>6, <2>3 DEF ScanStruct
    <3>2. QED
      BY <2>1, <3>1 DEF LockHolder, LockOwned, DoneBeforePast, ReadyTyped, TypeOK
  <2>4. QED
    BY <2>2, <2>3
<1>7. CASE BuildField(g)
  <2>1. onceLock = g /\ ~onceDone
    BY <1>7 DEF BuildField, LockHolder
  <2>2. \A h \in Goroutines : h # g => pc[h] \notin InF
    BY <2>1, NoneAssumption DEF LockHolder, InF, TypeOK
  <2>3. CASE idx[g] > NumFields
    <3>1. /\ onceDone' = TRUE /\ onceLock' = None
          /\ pc' = [pc EXCEPT ![g] = "check"]
          /\ UNCHANGED <<crashed, goType, callType>>
      BY <1>7, <2>3 DEF BuildField
    <3>2. QED
      BY <2>2, <3>1 DEF LockHolder, LockOwned, DoneBeforePast, ReadyTyped, TypeOK, InF
  <2>4. CASE ~(idx[g] > NumFields) /\ <<Elem[callType[g]], idx[g]>> \in FieldPanics
    <3>1. Panic(g) /\ UNCHANGED <<goType, callType>>
      BY <1>7, <2>4 DEF BuildField
    <3>2. QED
      BY <1>7, <3>1, PanicKeepsCore DEF BuildField, InF
  <2>5. CASE ~(idx[g] > NumFields) /\ <<Elem[callType[g]], idx[g]>> \notin FieldPanics
    <3>1. UNCHANGED <<onceDone, onceLock, pc, crashed, goType, callType>>
      BY <1>7, <2>5 DEF BuildField
    <3>2. QED
      BY <3>1 DEF LockHolder, LockOwned, DoneBeforePast, ReadyTyped
  <2>6. QED
    BY <2>3, <2>4, <2>5
<1>8. CASE CheckType(g)
  <2>1. CASE callType[g] = goType
    BY <1>8, <2>1 DEF CheckType, LockHolder, LockOwned, DoneBeforePast, ReadyTyped, TypeOK
  <2>2. CASE callType[g] # goType
    BY <1>8, <2>2, PanicKeepsCore DEF CheckType
  <2>3. QED
    BY <2>1, <2>2
<1>9. CASE Return(g)
  BY <1>9 DEF Return, LockHolder, LockOwned, DoneBeforePast, ReadyTyped, TypeOK
<1>10. QED
  BY <1>1, <1>2, <1>3, <1>4, <1>5, <1>6, <1>7, <1>8, <1>9 DEF Step

\* Core holds initially and is kept by every step of Next.
LEMMA CoreInit == Init => Core
BY NoneAssumption DEF Init, Core, LockHolder, LockOwned, DoneBeforePast, ReadyTyped

LEMMA CoreNext == TypeOK /\ Core /\ [Next]_vars => Core'
<1> SUFFICES ASSUME TypeOK, Core, [Next]_vars PROVE Core'
  OBVIOUS
<1>1. CASE UNCHANGED vars
  BY <1>1 DEF vars, Core, LockHolder, LockOwned, DoneBeforePast, ReadyTyped
<1>2. CASE Next
  BY <1>2, CoreStep DEF Next
<1>3. QED
  BY <1>1, <1>2

(* TypeAgreement for every number of goroutines, Go types, fields and    *)
(* calls, with or without recovered panics: a caller of MessageOf,       *)
(* KnownFieldsOf or UnknownFieldsOf that gets past init holds a p of the  *)
(* Go type the binder is bound to, also when it raced the first caller    *)
(* through sync.Once or called again after a recovered panic.             *)
THEOREM TypeAgreementHolds == Spec => []TypeAgreement
<1>1. Init => TypeInv /\ Core
  BY TypeInitLemma, CoreInit
<1>2. TypeInv /\ Core /\ [Next]_vars => (TypeInv /\ Core)'
  BY TypeStep, CoreNext DEF TypeInv
<1>3. Core => TypeAgreement
  BY DEF Core, ReadyTyped, TypeAgreement
<1>4. QED
  BY <1>1, <1>2, <1>3, PTL DEF Spec

-----------------------------------------------------------------------------
(* The table is complete before anyone uses it, when no panic is          *)
(* recovered.  A recovered panic of f leaves done at 1 over a partial      *)
(* table (run partial_table), so the theorem assumes RecoverModes = {FALSE}.*)

TInv == BuiltPrefix /\ DoneComplete /\ PastComplete

\* Without recovery a panic ends the process and no goroutine moves.
LEMMA PanicNoRecover ==
  ASSUME RecoverModes = {FALSE}, NEW g \in Goroutines, Panic(g)
  PROVE  crashed' = TRUE /\ pc' = pc
BY DEF Panic

\* A panic, without recovery, of a goroutine that holds the lock while no
\* goroutine is past the type check keeps TInv, whatever it does to fields.
LEMMA PanicKeepsTInv ==
  ASSUME RecoverModes = {FALSE}, NEW g \in Goroutines, Panic(g),
         \A h \in Goroutines : pc[h] \notin Past
  PROVE  TInv'
<1>1. crashed' = TRUE /\ pc' = pc
  BY PanicNoRecover
<1>2. QED
  BY <1>1 DEF TInv, BuiltPrefix, DoneComplete, PastComplete, Past

\* Every step of a goroutine keeps TInv when no panic is recovered.
LEMMA TableStep ==
  ASSUME RecoverModes = {FALSE}, TypeOK, FieldIdx, Core, TInv, ~crashed,
         NEW g \in Goroutines, Call(g) \/ Step(g)
  PROVE  TInv'
<1> USE DEF TInv
<1>1. CASE Call(g)
  BY <1>1 DEF Call, BuiltPrefix, DoneComplete, PastComplete, TypeOK
<1>2. CASE OnceDone(g)
  BY <1>2 DEF OnceDone, BuiltPrefix, DoneComplete, PastComplete, TypeOK
<1>3. CASE OnceSlow(g)
  BY <1>3 DEF OnceSlow, BuiltPrefix, DoneComplete, PastComplete, TypeOK
<1>4. CASE OnceLock(g)
  BY <1>4 DEF OnceLock, BuiltPrefix, DoneComplete, PastComplete, TypeOK
<1>5. ASSUME NEW h \in Goroutines, pc[h] \in InF PROVE \A k \in Goroutines : pc[k] \notin Past
  BY <1>5 DEF Core, LockHolder, DoneBeforePast, Past, InF
<1>6. CASE BindType(g)
  <2>1. CASE KindCheckPanics(callType[g])
    BY <1>6, <2>1, <1>5, PanicKeepsTInv DEF BindType, InF
  <2>2. CASE ~KindCheckPanics(callType[g])
    BY <1>6, <2>2 DEF BindType, BuiltPrefix, DoneComplete, PastComplete, TypeOK
  <2>3. QED
    BY <2>1, <2>2
<1>7. CASE ScanStruct(g)
  <2>1. \A k \in Goroutines : pc[k] \notin Past
    BY <1>5, <1>7 DEF ScanStruct, InF
  <2>2. ~onceDone
    BY <1>7 DEF ScanStruct, Core, LockHolder
  <2>3. \A h \in Goroutines : h # g => pc[h] # "field"
    <3>1. onceLock = g
      BY <1>7 DEF ScanStruct, Core, LockHolder
    <3>2. SUFFICES ASSUME NEW h \in Goroutines, h # g, pc[h] = "field" PROVE FALSE
      OBVIOUS
    <3>3. h = g
      BY <3>1, <3>2, HolderUnique DEF Core, InF
    <3>4. QED
      BY <3>2, <3>3
  <2>4. CASE Elem[callType[g]] \notin Structs \/ ~HasDesc
    <3>1. Panic(g)
      BY <1>7, <2>4 DEF ScanStruct
    <3>2. QED
      BY <2>1, <3>1, PanicKeepsTInv
  <2>5. CASE Elem[callType[g]] \in Structs /\ HasDesc
    <3>1. /\ fields' = {} /\ idx' = [idx EXCEPT ![g] = 1]
          /\ pc' = [pc EXCEPT ![g] = "field"]
          /\ UNCHANGED <<onceDone, crashed>>
      BY <1>7, <2>5 DEF ScanStruct
    <3>2. BuiltPrefix'
      BY <2>3, <3>1, MessageTypeAssumption DEF BuiltPrefix, TypeOK
    <3>3. DoneComplete' /\ PastComplete'
      BY <2>1, <2>2, <3>1 DEF DoneComplete, PastComplete, Past, TypeOK
    <3>4. QED
      BY <3>2, <3>3
  <2>6. QED
    BY <2>4, <2>5
<1>8. CASE BuildField(g)
  <2>1. \A k \in Goroutines : pc[k] \notin Past
    BY <1>5, <1>8 DEF BuildField, InF
  <2>2. \A h \in Goroutines : h # g => pc[h] # "field"
    <3>1. onceLock = g
      BY <1>8 DEF BuildField, Core, LockHolder
    <3>2. SUFFICES ASSUME NEW h \in Goroutines, h # g, pc[h] = "field" PROVE FALSE
      OBVIOUS
    <3>3. h = g
      BY <3>1, <3>2, HolderUnique DEF Core, InF
    <3>4. QED
      BY <3>2, <3>3
  <2>3. idx[g] \in 1..NumFields + 1 /\ fields = 1..(idx[g] - 1)
    BY <1>8 DEF BuildField, BuiltPrefix
  <2>4. CASE idx[g] > NumFields
    <3>1. /\ onceDone' = TRUE /\ pc' = [pc EXCEPT ![g] = "check"]
          /\ UNCHANGED <<fields, idx, crashed>>
      BY <1>8, <2>4 DEF BuildField
    <3>2. fields = AllFields
      BY <2>3, <2>4, MessageTypeAssumption DEF AllFields
    <3>3. QED
      BY <2>2, <3>1, <3>2 DEF BuiltPrefix, DoneComplete, PastComplete, TypeOK
  <2>5. CASE ~(idx[g] > NumFields) /\ <<Elem[callType[g]], idx[g]>> \in FieldPanics
    <3>1. Panic(g)
      BY <1>8, <2>5 DEF BuildField
    <3>2. QED
      BY <2>1, <3>1, PanicKeepsTInv
  <2>6. CASE ~(idx[g] > NumFields) /\ <<Elem[callType[g]], idx[g]>> \notin FieldPanics
    <3>1. /\ fields' = fields \cup {idx[g]} /\ idx' = [idx EXCEPT ![g] = @ + 1]
          /\ UNCHANGED <<onceDone, pc, crashed>>
      BY <1>8, <2>6 DEF BuildField
    <3>2. fields' = 1..(idx'[g] - 1) /\ idx'[g] \in 1..NumFields + 1
      BY <2>3, <2>6, <3>1, MessageTypeAssumption DEF TypeOK
    <3>3. BuiltPrefix'
      BY <2>2, <3>1, <3>2 DEF BuiltPrefix
    <3>4. ~onceDone
      BY <1>8 DEF BuildField, Core, LockHolder
    <3>5. DoneComplete' /\ PastComplete'
      BY <2>1, <3>1, <3>4 DEF DoneComplete, PastComplete, Past
    <3>6. QED
      BY <3>3, <3>5
  <2>7. QED
    BY <2>4, <2>5, <2>6
<1>9. CASE CheckType(g)
  <2>1. CASE callType[g] = goType
    BY <1>9, <2>1 DEF CheckType, BuiltPrefix, DoneComplete, PastComplete, TypeOK
  <2>2. CASE callType[g] # goType
    <3>1. crashed' = TRUE /\ pc' = pc /\ UNCHANGED fields
      BY <1>9, <2>2, PanicNoRecover DEF CheckType
    <3>2. QED
      BY <3>1 DEF BuiltPrefix, DoneComplete, PastComplete
  <2>3. QED
    BY <2>1, <2>2
<1>10. CASE Return(g)
  BY <1>10 DEF Return, BuiltPrefix, DoneComplete, PastComplete, TypeOK
<1>11. QED
  BY <1>1, <1>2, <1>3, <1>4, <1>6, <1>7, <1>8, <1>9, <1>10 DEF Step

\* TInv holds initially and is kept by [Next]_vars when no panic is recovered.
LEMMA TableNext ==
  ASSUME RecoverModes = {FALSE}
  PROVE  TypeOK /\ FieldIdx /\ Core /\ TInv /\ [Next]_vars => TInv'
<1> SUFFICES ASSUME TypeOK, FieldIdx, Core, TInv, [Next]_vars PROVE TInv'
  OBVIOUS
<1>1. CASE UNCHANGED vars
  BY <1>1 DEF vars, TInv, BuiltPrefix, DoneComplete, PastComplete
<1>2. CASE Next
  BY <1>2, TableStep DEF Next
<1>3. QED
  BY <1>1, <1>2

(* TableComplete for every number of goroutines, Go types, descriptor     *)
(* fields and calls, when no caller recovers a panic: whatever the        *)
(* interleaving of first callers through sync.Once, no MessageOf,         *)
(* KnownFieldsOf or UnknownFieldsOf returns before every field of the     *)
(* descriptor has its fieldInfo.  Along the argument, the builder holds   *)
(* the mutex with done at 0 (Core), has built exactly the fields below   *)
(* its loop index (BuiltPrefix), and stores done only after the last one *)
(* (DoneComplete), which every goroutine past the check then sees.        *)
THEOREM TableCompleteNoRecover ==
  ASSUME RecoverModes = {FALSE}
  PROVE  Spec => []TableComplete
<1>1. Init => TypeInv /\ Core /\ TInv
  <2>1. Init => TInv
    BY DEF Init, TInv, BuiltPrefix, DoneComplete, PastComplete
  <2>2. QED
    BY <2>1, TypeInitLemma, CoreInit
<1>2. TypeInv /\ Core /\ TInv /\ [Next]_vars => (TypeInv /\ Core /\ TInv)'
  BY TypeStep, CoreNext, TableNext DEF TypeInv
<1>3. TInv => TableComplete
  BY DEF TInv, PastComplete, TableComplete
<1>4. QED
  BY <1>1, <1>2, <1>3, PTL DEF Spec

-----------------------------------------------------------------------------
(* BindOnce, recovered panics included.                                   *)

\* Every step of a goroutine keeps BoundHeld.
LEMMA BoundStep ==
  ASSUME TypeOK, Core, BoundHeld, ~crashed, NEW g \in Goroutines, Call(g) \/ Step(g)
  PROVE  BoundHeld'
<1>1. onceLock = g => pc[g] \in InF
  BY NoneAssumption DEF Core, LockOwned, InF
<1>2. CASE Call(g) \/ OnceDone(g) \/ OnceSlow(g) \/ Return(g)
  <2>1. onceLock # g
    BY <1>1, <1>2 DEF Call, OnceDone, OnceSlow, Return, InF
  <2>2. UNCHANGED <<onceDone, onceLock, goType, crashed>> /\ pc' = [pc EXCEPT ![g] = pc'[g]]
    BY <1>2 DEF Call, OnceDone, OnceSlow, Return
  <2>3. QED
    BY <2>1, <2>2 DEF BoundHeld, TypeOK
<1>3. CASE OnceLock(g)
  BY <1>3 DEF OnceLock, BoundHeld, TypeOK
<1>4. CASE BindType(g)
  <2>1. onceLock = g
    BY <1>4 DEF BindType, Core, LockHolder
  <2>2. CASE KindCheckPanics(callType[g])
    BY <1>4, <2>1, <2>2 DEF BindType, Panic, BoundHeld
  <2>3. CASE ~KindCheckPanics(callType[g])
    <3>1. onceLock' = g /\ pc'[g] = "scan"
      BY <1>4, <2>1, <2>3 DEF BindType, TypeOK
    <3>2. QED
      BY <3>1, NoneAssumption DEF BoundHeld
  <2>4. QED
    BY <2>2, <2>3
<1>5. CASE ScanStruct(g)
  <2>1. onceLock = g
    BY <1>5 DEF ScanStruct, Core, LockHolder
  <2>2. CASE Elem[callType[g]] \notin Structs \/ ~HasDesc
    BY <1>5, <2>1, <2>2 DEF ScanStruct, Panic, BoundHeld
  <2>3. CASE Elem[callType[g]] \in Structs /\ HasDesc
    BY <1>5, <2>1, <2>3 DEF ScanStruct, BoundHeld, TypeOK
  <2>4. QED
    BY <2>2, <2>3
<1>6. CASE BuildField(g)
  <2>1. onceLock = g
    BY <1>6 DEF BuildField, Core, LockHolder
  <2>2. CASE idx[g] > NumFields
    BY <1>6, <2>2 DEF BuildField, BoundHeld
  <2>3. CASE ~(idx[g] > NumFields) /\ <<Elem[callType[g]], idx[g]>> \in FieldPanics
    BY <1>6, <2>1, <2>3 DEF BuildField, Panic, BoundHeld
  <2>4. CASE ~(idx[g] > NumFields) /\ <<Elem[callType[g]], idx[g]>> \notin FieldPanics
    BY <1>6, <2>4 DEF BuildField, BoundHeld
  <2>5. QED
    BY <2>2, <2>3, <2>4
<1>7. CASE CheckType(g)
  <2>1. onceDone /\ onceDone'
    BY <1>7 DEF CheckType, Panic, Core, DoneBeforePast
  <2>2. QED
    BY <2>1 DEF BoundHeld
<1>8. QED
  BY <1>2, <1>3, <1>4, <1>5, <1>6, <1>7 DEF Step

\* A step of Next keeps goType once it is set.
LEMMA BindStep ==
  TypeOK /\ Core /\ BoundHeld /\ [Next]_vars => [goType # NoType => goType' = goType]_vars
<1> SUFFICES ASSUME TypeOK, Core, BoundHeld, Next, goType # NoType PROVE goType' = goType
  BY DEF vars
<1>1. PICK g \in Goroutines : ~crashed /\ (Call(g) \/ Step(g))
  BY DEF Next
<1>2. CASE BindType(g)
  <2>1. onceLock = g /\ ~onceDone /\ pc[g] = "kind"
    BY <1>1, <1>2 DEF BindType, Core, LockHolder
  <2>2. QED
    BY <1>1, <2>1 DEF BoundHeld
<1>3. CASE ~BindType(g)
  BY <1>1, <1>3 DEF Call, Step, OnceDone, OnceSlow, OnceLock, ScanStruct, BuildField,
                    CheckType, Return, Panic
<1>4. QED
  BY <1>2, <1>3

(* BindOnce for every number of goroutines, Go types, fields and calls,   *)
(* with or without recovered panics: once mi.goType is set, no later,     *)
(* concurrent or retried MessageOf, KnownFieldsOf or UnknownFieldsOf      *)
(* rebinds it.  The step that sets it is taken by the holder of           *)
(* sync.Once's mutex before done is 1 (Core); while goType is set with     *)
(* done at 0 that holder is already past it (BoundHeld), and a panic of    *)
(* f stores done in its deferred call.                                     *)
THEOREM BindOnceHolds == Spec => BindOnce
<1>1. Init => TypeInv /\ Core /\ BoundHeld
  BY TypeInitLemma, CoreInit DEF Init, BoundHeld
<1>2. TypeInv /\ Core /\ BoundHeld /\ [Next]_vars => (TypeInv /\ Core /\ BoundHeld)'
  <2> SUFFICES ASSUME TypeInv, Core, BoundHeld, [Next]_vars PROVE (TypeInv /\ Core /\ BoundHeld)'
    OBVIOUS
  <2>1. TypeInv' /\ Core'
    BY TypeStep, CoreNext DEF TypeInv
  <2>2. CASE UNCHANGED vars
    BY <2>1, <2>2 DEF vars, BoundHeld
  <2>3. CASE Next
    BY <2>1, <2>3, BoundStep DEF Next, TypeInv
  <2>4. QED
    BY <2>1, <2>2, <2>3
<1>3. TypeInv /\ Core /\ BoundHeld /\ [Next]_vars => [goType # NoType => goType' = goType]_vars
  BY BindStep DEF TypeInv
<1>4. QED
  BY <1>1, <1>2, <1>3, PTL DEF Spec, BindOnce

=============================================================================
