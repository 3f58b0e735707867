-------------------- MODULE MessageTypeRefinementProofs --------------------
(***************************************************************************)
(* Proofs about the contract of the lazy binder of module MessageType,    *)
(* for every value of the constants that satisfies MessageTypeAssumption  *)
(* and NoneAssumption, recovered panics included unless a theorem assumes *)
(* otherwise:                                                              *)
(*   BinderRefinement        it implements MessageTypeAbstract under the   *)
(*                           mapping of AbsBinder (goType is the bound     *)
(*                           type, sync.Once.done the end of the           *)
(*                           initialisation, a goroutine is busy from its  *)
(*                           call to the end of the type check: Phase);    *)
(*   TableFrozenHolds        mi.fields never changes after done.           *)
(***************************************************************************)
EXTENDS MessageTypeProofs

\* The invariant the refinement needs: the lock discipline (Core), the
\* binder past the kind check holds the mutex (BoundHeld), and callers
\* inside init have a Go type, bound once the kind check is passed.
RInv == TypeInv /\ Core /\ BoundHeld /\ CallTyped /\ BinderBound

-----------------------------------------------------------------------------
(* RInv is inductive.                                                      *)

LEMMA BoundNext == TypeInv /\ Core /\ BoundHeld /\ [Next]_vars => BoundHeld'
<1> SUFFICES ASSUME TypeInv, Core, BoundHeld, [Next]_vars PROVE BoundHeld'
  OBVIOUS
<1>1. CASE UNCHANGED vars
  BY <1>1 DEF vars, BoundHeld
<1>2. CASE Next
  BY <1>2, BoundStep DEF Next, TypeInv
<1>3. QED
  BY <1>1, <1>2

\* A panic of g changes only done, the mutex, g's pc and crashed, and g
\* stays a caller inside init or goes back to idle.
LEMMA PanicPc ==
  ASSUME TypeOK, NEW g \in Goroutines, Panic(g)
  PROVE  \/ pc' = pc
         \/ pc' = [pc EXCEPT ![g] = "idle"] /\ crashed' = crashed
BY DEF Panic

\* Every step of a goroutine keeps CallTyped and BinderBound.
LEMMA TypedStep ==
  ASSUME TypeOK, CallTyped, BinderBound, ~crashed,
         NEW g \in Goroutines, Call(g) \/ Step(g)
  PROVE  CallTyped' /\ BinderBound'
<1>1. CASE Call(g)
  BY <1>1 DEF Call, CallTyped, BinderBound, TypeOK
<1>2. CASE OnceDone(g) \/ OnceSlow(g) \/ OnceLock(g) \/ Return(g)
  BY <1>2 DEF OnceDone, OnceSlow, OnceLock, Return, CallTyped, BinderBound, TypeOK
<1>3. CASE BindType(g)
  <2>1. CASE KindCheckPanics(callType[g])
    <3>1. Panic(g) /\ UNCHANGED <<goType, callType>>
      BY <1>3, <2>1 DEF BindType
    <3>2. QED
      BY <3>1, PanicPc DEF CallTyped, BinderBound, TypeOK
  <2>2. CASE ~KindCheckPanics(callType[g])
    <3>1. goType' = callType[g] /\ pc' = [pc EXCEPT ![g] = "scan"]
          /\ UNCHANGED <<callType, crashed>>
      BY <1>3, <2>2 DEF BindType
    <3>2. callType[g] \in GoTypes
      BY <1>3 DEF BindType, CallTyped
    <3>3. QED
      BY <3>1, <3>2 DEF CallTyped, BinderBound, TypeOK
  <2>3. QED
    BY <2>1, <2>2
<1>4. CASE ScanStruct(g)
  <2>1. goType \in GoTypes /\ callType[g] \in GoTypes
    BY <1>4 DEF ScanStruct, BinderBound, CallTyped
  <2>2. UNCHANGED <<goType, callType>>
    BY <1>4 DEF ScanStruct
  <2>3. pc' = pc \/ pc' = [pc EXCEPT ![g] = "idle"] \/ pc' = [pc EXCEPT ![g] = "field"]
    BY <1>4, PanicPc DEF ScanStruct
  <2>4. QED
    BY <2>1, <2>2, <2>3 DEF CallTyped, BinderBound, TypeOK
<1>5. CASE BuildField(g)
  <2>1. goType \in GoTypes /\ callType[g] \in GoTypes
    BY <1>5 DEF BuildField, BinderBound, CallTyped
  <2>2. UNCHANGED <<goType, callType>>
    BY <1>5 DEF BuildField
  <2>3. pc' = pc \/ pc' = [pc EXCEPT ![g] = "idle"] \/ pc' = [pc EXCEPT ![g] = "check"]
    BY <1>5, PanicPc DEF BuildField
  <2>4. QED
    BY <2>1, <2>2, <2>3 DEF CallTyped, BinderBound, TypeOK
<1>6. CASE CheckType(g)
  <2>1. UNCHANGED <<goType, callType>> /\ callType[g] \in GoTypes
    BY <1>6 DEF CheckType, CallTyped
  <2>2. pc' = pc \/ pc' = [pc EXCEPT ![g] = "idle"] \/ pc' = [pc EXCEPT ![g] = "ready"]
    BY <1>6, PanicPc DEF CheckType
  <2>3. QED
    BY <2>1, <2>2 DEF CallTyped, BinderBound, TypeOK
<1>7. QED
  BY <1>1, <1>2, <1>3, <1>4, <1>5, <1>6 DEF Step

LEMMA RInvInit == Init => RInv
BY TypeInitLemma, CoreInit DEF Init, RInv, BoundHeld, CallTyped, BinderBound

LEMMA RInvNext == RInv /\ [Next]_vars => RInv'
<1> SUFFICES ASSUME RInv, [Next]_vars PROVE RInv'
  OBVIOUS
<1>1. TypeInv' /\ Core' /\ BoundHeld'
  BY TypeStep, CoreNext, BoundNext DEF RInv, TypeInv
<1>2. CallTyped' /\ BinderBound'
  <2>1. CASE UNCHANGED vars
    BY <2>1 DEF vars, RInv, CallTyped, BinderBound
  <2>2. CASE Next
    <3>1. PICK g \in Goroutines : ~crashed /\ (Call(g) \/ Step(g))
      BY <2>2 DEF Next
    <3>2. QED
      BY <3>1, TypedStep DEF RInv, TypeInv
  <2>3. QED
    BY <2>1, <2>2
<1>3. QED
  BY <1>1, <1>2 DEF RInv

-----------------------------------------------------------------------------
(* Each step of the binder is a step of MessageTypeAbstract or leaves its *)
(* variables unchanged.                                                    *)

\* A move of g's pc moves its Phase, and nobody else's.
LEMMA PhaseUpdate ==
  ASSUME TypeOK, NEW g \in Goroutines, NEW q \in PCs, pc' = [pc EXCEPT ![g] = q]
  PROVE  Phase' = [Phase EXCEPT ![g] = IF q \in {"idle", "ready"} THEN q ELSE "busy"]
BY DEF Phase, TypeOK

\* A move of g inside init keeps Phase.
LEMMA PhaseBusy ==
  ASSUME TypeOK, NEW g \in Goroutines, NEW q \in PCs \ {"idle", "ready"},
         pc[g] \notin {"idle", "ready"}, pc' = [pc EXCEPT ![g] = q]
  PROVE  Phase' = Phase
BY DEF Phase, TypeOK

\* A panic of a caller inside init is a Fail of the abstract binder.
LEMMA PanicRefines ==
  ASSUME TypeOK, NEW g \in Goroutines, pc[g] \in InF \cup {"check"},
         Panic(g), UNCHANGED <<goType, callType>>
  PROVE  AbsBinder!Fail(g)
<1>1. Phase[g] = "busy"
  BY DEF Phase, InF, TypeOK
<1>2. onceDone' \in {onceDone, TRUE}
  BY DEF Panic
<1>3. PICK recovered \in RecoverModes :
        IF recovered
        THEN pc' = [pc EXCEPT ![g] = "idle"] /\ UNCHANGED crashed
        ELSE crashed' = TRUE /\ UNCHANGED pc
  BY DEF Panic
<1>4. CASE recovered
  <2>1. Phase' = [Phase EXCEPT ![g] = "idle"] /\ UNCHANGED crashed
    BY <1>3, <1>4, PhaseUpdate DEF PCs
  <2>2. IF recovered
        THEN Phase' = [Phase EXCEPT ![g] = "idle"] /\ crashed' = crashed
        ELSE crashed' = TRUE /\ Phase' = Phase
    BY <1>4, <2>1
  <2>3. QED
    BY <1>1, <1>2, <1>3, <2>2 DEF AbsBinder!Fail
<1>5. CASE ~recovered
  <2>1. Phase' = Phase /\ crashed' = TRUE
    BY <1>3, <1>5 DEF Phase
  <2>2. IF recovered
        THEN Phase' = [Phase EXCEPT ![g] = "idle"] /\ crashed' = crashed
        ELSE crashed' = TRUE /\ Phase' = Phase
    BY <1>5, <2>1
  <2>3. QED
    BY <1>1, <1>2, <1>3, <2>2 DEF AbsBinder!Fail
<1>6. QED
  BY <1>4, <1>5

\* Every step of a goroutine maps to a step of the abstract binder, or to
\* a stutter: the once.Do fast and slow paths, the struct scan and every
\* field built move only state the contract does not see.
LEMMA StepRefines ==
  ASSUME RInv, ~crashed, NEW g \in Goroutines, Call(g) \/ Step(g)
  PROVE  AbsBinder!AbsNext \/ UNCHANGED AbsBinder!absVars
<1> USE DEF RInv, TypeInv
<1>1. CASE Call(g)
  <2>1. Phase' = [Phase EXCEPT ![g] = "busy"] /\ Phase[g] = "idle"
    BY <1>1, PhaseUpdate DEF Call, PCs, Phase
  <2>2. AbsBinder!Call(g)
    BY <1>1, <2>1 DEF Call, AbsBinder!Call
  <2>3. QED
    BY <2>2 DEF AbsBinder!AbsNext
<1>2. CASE OnceDone(g) \/ OnceSlow(g) \/ OnceLock(g)
  <2>1. \E q \in PCs \ {"idle", "ready"} : pc' = [pc EXCEPT ![g] = q]
    BY <1>2 DEF OnceDone, OnceSlow, OnceLock, PCs
  <2>2. Phase' = Phase
    BY <1>2, <2>1, PhaseBusy DEF OnceDone, OnceSlow, OnceLock
  <2>3. QED
    BY <1>2, <2>2 DEF OnceDone, OnceSlow, OnceLock, AbsBinder!absVars
<1>3. CASE BindType(g)
  <2>1. onceLock = g /\ ~onceDone
    BY <1>3 DEF BindType, Core, LockHolder
  <2>2. CASE KindCheckPanics(callType[g])
    BY <1>3, <2>2, PanicRefines DEF BindType, InF, AbsBinder!AbsNext
  <2>3. CASE ~KindCheckPanics(callType[g])
    <3>1. goType = NoType
      BY <1>3, <2>1 DEF BindType, BoundHeld
    <3>2. Phase' = Phase /\ Phase[g] = "busy"
      BY <1>3, <2>3, PhaseBusy DEF BindType, PCs, Phase
    <3>3. AbsBinder!Bind(g)
      BY <1>3, <2>1, <2>3, <3>1, <3>2
      DEF BindType, KindCheckPanics, AbsBinder!Bind, AbsBinder!PassesKindCheck
    <3>4. QED
      BY <3>3 DEF AbsBinder!AbsNext
  <2>4. QED
    BY <2>2, <2>3
<1>4. CASE ScanStruct(g)
  <2>1. CASE Elem[callType[g]] \notin Structs \/ ~HasDesc
    <3>1. Panic(g) /\ UNCHANGED <<goType, callType>>
      BY <1>4, <2>1 DEF ScanStruct
    <3>2. QED
      BY <1>4, <3>1, PanicRefines DEF ScanStruct, InF, AbsBinder!AbsNext
  <2>2. CASE Elem[callType[g]] \in Structs /\ HasDesc
    <3>1. pc' = [pc EXCEPT ![g] = "field"] /\ UNCHANGED <<onceDone, goType, callType, crashed>>
      BY <1>4, <2>2 DEF ScanStruct
    <3>2. Phase' = Phase
      BY <1>4, <3>1, PhaseBusy DEF ScanStruct, PCs
    <3>3. QED
      BY <3>1, <3>2 DEF AbsBinder!absVars
  <2>3. QED
    BY <2>1, <2>2
<1>5. CASE BuildField(g)
  <2>1. CASE idx[g] > NumFields
    <3>1. /\ onceDone' = TRUE /\ pc' = [pc EXCEPT ![g] = "check"]
          /\ UNCHANGED <<goType, callType, crashed>>
      BY <1>5, <2>1 DEF BuildField
    <3>2. Phase' = Phase /\ Phase[g] = "busy"
      BY <1>5, <3>1, PhaseBusy DEF BuildField, PCs, Phase
    <3>3. ~onceDone /\ goType # NoType
      BY <1>5, NoneAssumption, MessageTypeAssumption
      DEF BuildField, Core, LockHolder, BinderBound
    <3>4. AbsBinder!Complete(g)
      BY <3>1, <3>2, <3>3 DEF AbsBinder!Complete
    <3>5. QED
      BY <3>4 DEF AbsBinder!AbsNext
  <2>2. CASE ~(idx[g] > NumFields) /\ <<Elem[callType[g]], idx[g]>> \in FieldPanics
    <3>1. Panic(g) /\ UNCHANGED <<goType, callType>>
      BY <1>5, <2>2 DEF BuildField
    <3>2. QED
      BY <1>5, <3>1, PanicRefines DEF BuildField, InF, AbsBinder!AbsNext
  <2>3. CASE ~(idx[g] > NumFields) /\ <<Elem[callType[g]], idx[g]>> \notin FieldPanics
    BY <1>5, <2>3 DEF BuildField, Phase, AbsBinder!absVars
  <2>4. QED
    BY <2>1, <2>2, <2>3
<1>6. CASE CheckType(g)
  <2>1. CASE callType[g] = goType
    <3>1. pc' = [pc EXCEPT ![g] = "ready"] /\ UNCHANGED <<onceDone, goType, callType, crashed>>
      BY <1>6, <2>1 DEF CheckType
    <3>2. Phase' = [Phase EXCEPT ![g] = "ready"] /\ Phase[g] = "busy"
      BY <1>6, <3>1, PhaseUpdate DEF CheckType, PCs, Phase
    <3>3. onceDone
      BY <1>6 DEF CheckType, Core, DoneBeforePast
    <3>4. AbsBinder!Serve(g)
      BY <2>1, <3>1, <3>2, <3>3 DEF AbsBinder!Serve
    <3>5. QED
      BY <3>4 DEF AbsBinder!AbsNext
  <2>2. CASE callType[g] # goType
    BY <1>6, <2>2, PanicRefines DEF CheckType, AbsBinder!AbsNext
  <2>3. QED
    BY <2>1, <2>2
<1>7. CASE Return(g)
  <2>1. Phase' = [Phase EXCEPT ![g] = "idle"] /\ Phase[g] = "ready"
    BY <1>7, PhaseUpdate DEF Return, PCs, Phase
  <2>2. AbsBinder!Return(g)
    BY <1>7, <2>1 DEF Return, AbsBinder!Return
  <2>3. QED
    BY <2>2 DEF AbsBinder!AbsNext
<1>8. QED
  BY <1>1, <1>2, <1>3, <1>4, <1>5, <1>6, <1>7 DEF Step

\* The initial state of the binder is the initial state of the contract.
LEMMA InitRefines == Init => AbsBinder!AbsInit
BY DEF Init, Phase, AbsBinder!AbsInit

(* For every number of goroutines, Go types, descriptor fields and calls, *)
(* with or without recovered panics, impl.MessageType keeps the contract   *)
(* of spec section 4.1 stated by MessageTypeAbstract: mi.goType is bound   *)
(* at most once, inside once.Do, before done is stored and to a type its   *)
(* kind check lets through; done is stored normally only after a type is  *)
(* bound; no MessageOf, KnownFieldsOf or UnknownFieldsOf gets past init    *)
(* before done is stored, and then only with a p of the bound type.  The   *)
(* invariant RInv carries the argument: the binder alone runs f, holding   *)
(* the mutex, while done is 0 (Core), and nobody binds again because the   *)
(* binder is past the kind check whenever a type is bound with done at 0   *)
(* (BoundHeld).                                                            *)
THEOREM BinderRefinement == Spec => ImplementsAbstractBinder
<1>1. Init => RInv /\ AbsBinder!AbsInit
  BY RInvInit, InitRefines
<1>2. RInv /\ [Next]_vars => RInv'
  BY RInvNext
<1>3. RInv /\ [Next]_vars => [AbsBinder!AbsNext]_AbsBinder!absVars
  <2> SUFFICES ASSUME RInv, [Next]_vars PROVE [AbsBinder!AbsNext]_AbsBinder!absVars
    OBVIOUS
  <2>1. CASE UNCHANGED vars
    BY <2>1 DEF vars, Phase, AbsBinder!absVars
  <2>2. CASE Next
    <3>1. PICK g \in Goroutines : ~crashed /\ (Call(g) \/ Step(g))
      BY <2>2 DEF Next
    <3>2. QED
      BY <3>1, StepRefines
  <2>3. QED
    BY <2>1, <2>2
<1>4. QED
  BY <1>1, <1>2, <1>3, PTL DEF Spec, ImplementsAbstractBinder, AbsBinder!AbsSpec

-----------------------------------------------------------------------------
(* TableFrozen, recovered panics included.                                 *)

\* Only the holder of the mutex inside f writes mi.fields, and then done
\* is still 0.
LEMMA FrozenStep ==
  TypeOK /\ Core /\ [Next]_vars => [onceDone => fields' = fields]_vars
<1> SUFFICES ASSUME TypeOK, Core, Next, onceDone PROVE fields' = fields
  BY DEF vars
<1>1. PICK g \in Goroutines : ~crashed /\ (Call(g) \/ Step(g))
  BY DEF Next
<1>2. CASE ScanStruct(g) \/ BuildField(g)
  <2>1. pc[g] \in InF
    BY <1>2 DEF ScanStruct, BuildField, InF
  <2>2. ~onceDone
    BY <1>1, <2>1 DEF Core, LockHolder, InF
  <2>3. QED
    BY <2>2
<1>3. CASE ~(ScanStruct(g) \/ BuildField(g))
  BY <1>1, <1>3 DEF Call, Step, OnceDone, OnceSlow, OnceLock, BindType, CheckType, Return
<1>4. QED
  BY <1>2, <1>3

(* For every number of goroutines, Go types, fields and calls, with or    *)
(* without recovered panics, mi.fields never changes once sync.Once is    *)
(* done: generateFieldFuncs writes it only from inside f, which only the  *)
(* holder of the Once's mutex runs, and only while done is 0 (Core).  A   *)
(* table left partial by a recovered panic therefore stays partial.        *)
THEOREM TableFrozenHolds == Spec => TableFrozen
<1>1. Init => TypeInv /\ Core
  BY TypeInitLemma, CoreInit
<1>2. TypeInv /\ Core /\ [Next]_vars => (TypeInv /\ Core)'
  BY TypeStep, CoreNext DEF TypeInv
<1>3. TypeInv /\ Core /\ [Next]_vars => [onceDone => fields' = fields]_vars
  BY FrozenStep DEF TypeInv
<1>4. QED
  BY <1>1, <1>2, <1>3, PTL DEF Spec, TableFrozen

=============================================================================
