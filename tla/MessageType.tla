---------------------------- MODULE MessageType ----------------------------
(***************************************************************************)
(* The lazy binder impl.MessageType (src/protobuf/internal/impl/          *)
(* message.go lines 18-182) under concurrent first use.                   *)
(*                                                                         *)
(* Every exported method (MessageOf, KnownFieldsOf, UnknownFieldsOf) calls *)
(* init(p): mi.once.Do runs the classification at most once, then the Go   *)
(* type of p is compared with the bound goType.  The function given to     *)
(* once.Do is modelled step by step because it can panic at several        *)
(* points: the kind check (line 47), the struct scan of generateFieldFuncs *)
(* (line 102), the descriptor (line 138) and each fieldInfoFor* call       *)
(* (lines 142-155).  sync.Once marks itself done and unlocks its mutex in  *)
(* deferred calls, so both happen when f panics too.  A panic either ends  *)
(* the process or is recovered by the caller, which may call again.        *)
(***************************************************************************)
EXTENDS Naturals, FiniteSets

CONSTANTS
  Goroutines,    \* callers, model values
  GoTypes,       \* the Go types callers pass as p
  Structs,       \* the struct types among the element types
  Kind,          \* Kind[t]: reflect Kind of t, "ptr" or another kind
  Elem,          \* Elem[t]: t.Elem(), or NoElem when reflect's Elem panics
  NoElem,
  NumFields,     \* md.Fields().Len()
  FieldPanics,   \* <<s, i>>: building field i against struct s panics
  HasDesc,       \* MessageType.Desc # nil
  RecoverModes,  \* TRUE: a caller recovers a panic; FALSE: the process dies
  MaxCalls,      \* calls each goroutine makes
  NoType         \* mi.goType before it is set (nil)

ASSUME MessageTypeAssumption ==
  /\ Kind \in [GoTypes -> STRING]
  /\ Elem \in [GoTypes -> Structs \cup {NoElem} \cup {"int"}]
  /\ NumFields \in Nat
  /\ FieldPanics \subseteq Structs \X (1..NumFields)
  /\ HasDesc \in BOOLEAN
  /\ RecoverModes \subseteq BOOLEAN /\ RecoverModes # {}
  /\ MaxCalls \in Nat
  /\ NoType \notin GoTypes

None == "none"

ASSUME NoneAssumption == None \notin Goroutines

VARIABLES
  onceDone,   \* sync.Once.done
  onceLock,   \* the goroutine holding sync.Once.m, or None
  goType,     \* mi.goType
  fields,     \* the descriptor indexes i with mi.fields[fd(i).Number()] set
  pc,         \* pc[g]: where goroutine g is
  callType,   \* callType[g]: the type of the p g passed
  idx,        \* idx[g]: the loop index of generateFieldFuncs (builder only)
  callsLeft,  \* callsLeft[g]: calls g has still to make
  crashed     \* an unrecovered panic has ended the process

vars == <<onceDone, onceLock, goType, fields, pc, callType, idx, callsLeft, crashed>>

PCs == {"idle", "once", "lock", "kind", "scan", "field", "check", "ready"}

AllFields == 1..NumFields

-----------------------------------------------------------------------------
(* A panic of g.  If g is inside once.Do, the deferred Store(&done, 1)    *)
(* and m.Unlock() run while the panic unwinds.  Then the caller either    *)
(* recovers (g is back to idle) or the process dies.                       *)
\* Mutant: the panic leaves done at 0 (f is run again by the next caller).
PanicNoDone(g) ==
  /\ IF onceLock = g
     THEN onceLock' = None /\ UNCHANGED onceDone
     ELSE UNCHANGED <<onceDone, onceLock>>
  /\ \E recovered \in RecoverModes :
       IF recovered
       THEN pc' = [pc EXCEPT ![g] = "idle"] /\ UNCHANGED crashed
       ELSE crashed' = TRUE /\ UNCHANGED pc

\* Mutant: the mutex is unlocked after f, not in a deferred call.
PanicKeepsLock(g) ==
  /\ IF onceLock = g
     THEN onceDone' = TRUE /\ UNCHANGED onceLock
     ELSE UNCHANGED <<onceDone, onceLock>>
  /\ \E recovered \in RecoverModes :
       IF recovered
       THEN pc' = [pc EXCEPT ![g] = "idle"] /\ UNCHANGED crashed
       ELSE crashed' = TRUE /\ UNCHANGED pc

Panic(g) ==
  /\ IF onceLock = g
     THEN onceDone' = TRUE /\ onceLock' = None
     ELSE UNCHANGED <<onceDone, onceLock>>
  /\ \E recovered \in RecoverModes :
       IF recovered
       THEN pc' = [pc EXCEPT ![g] = "idle"] /\ UNCHANGED crashed
       ELSE crashed' = TRUE /\ UNCHANGED pc

\* MessageOf / KnownFieldsOf / UnknownFieldsOf(p) with p of type t.
Call(g) ==
  /\ pc[g] = "idle"
  /\ callsLeft[g] > 0
  /\ \E t \in GoTypes : callType' = [callType EXCEPT ![g] = t]
  /\ pc' = [pc EXCEPT ![g] = "once"]
  /\ callsLeft' = [callsLeft EXCEPT ![g] = @ - 1]
  /\ UNCHANGED <<onceDone, onceLock, goType, fields, idx, crashed>>

\* once.Do fast path: atomic.LoadUint32(&o.done) == 1, f is not run.
\* Mutant: an unsynchronised lazy init that skips f once goType is set.
OnceDoneOnType(g) ==
  /\ pc[g] = "once"
  /\ goType # NoType
  /\ pc' = [pc EXCEPT ![g] = "check"]
  /\ UNCHANGED <<onceDone, onceLock, goType, fields, callType, idx, callsLeft, crashed>>

OnceDone(g) ==
  /\ pc[g] = "once"
  /\ onceDone
  /\ pc' = [pc EXCEPT ![g] = "check"]
  /\ UNCHANGED <<onceDone, onceLock, goType, fields, callType, idx, callsLeft, crashed>>

\* done was 0: g enters doSlow and waits for o.m.
OnceSlow(g) ==
  /\ pc[g] = "once"
  /\ ~onceDone
  /\ pc' = [pc EXCEPT ![g] = "lock"]
  /\ UNCHANGED <<onceDone, onceLock, goType, fields, callType, idx, callsLeft, crashed>>

\* Mutant: doSlow does not test done again once it holds o.m.
OnceLockNoRecheck(g) ==
  /\ pc[g] = "lock"
  /\ onceLock = None
  /\ pc' = [pc EXCEPT ![g] = "kind"] /\ onceLock' = g
  /\ UNCHANGED <<onceDone, goType, fields, callType, idx, callsLeft, crashed>>

\* doSlow: o.m.Lock(); if o.done == 0 g runs f, otherwise it unlocks and
\* returns without running f.
OnceLock(g) ==
  /\ pc[g] = "lock"
  /\ onceLock = None
  /\ IF onceDone
     THEN pc' = [pc EXCEPT ![g] = "check"] /\ UNCHANGED onceLock
     ELSE pc' = [pc EXCEPT ![g] = "kind"] /\ onceLock' = g
  /\ UNCHANGED <<onceDone, goType, fields, callType, idx, callsLeft, crashed>>

\* Lines 45-50: the kind check, then mi.goType = t.  The condition is
\* t.Kind() != reflect.Ptr && t.Elem().Kind() != reflect.Struct: for a
\* non-pointer, t.Elem() panics unless t has an element type.
KindCheckPanics(t) ==
  /\ Kind[t] # "ptr"
  /\ Elem[t] \notin Structs

\* Mutant: done is stored when f starts, not when it returns.
BindTypeDoneFirst(g) ==
  /\ pc[g] = "kind"
  /\ IF KindCheckPanics(callType[g])
     THEN Panic(g) /\ UNCHANGED goType
     ELSE /\ goType' = callType[g]
          /\ pc' = [pc EXCEPT ![g] = "scan"]
          /\ onceDone' = TRUE
          /\ UNCHANGED <<onceLock, crashed>>
  /\ UNCHANGED <<fields, callType, idx, callsLeft>>

BindType(g) ==
  /\ pc[g] = "kind"
  /\ IF KindCheckPanics(callType[g])
     THEN Panic(g) /\ UNCHANGED goType
     ELSE /\ goType' = callType[g]
          /\ pc' = [pc EXCEPT ![g] = "scan"]
          /\ UNCHANGED <<onceDone, onceLock, crashed>>
  /\ UNCHANGED <<fields, callType, idx, callsLeft>>

\* generateFieldFuncs lines 97-138: t.NumField() panics unless t.Elem() is
\* a struct; mi.fields becomes an empty map; md.Fields() panics on a nil
\* descriptor (the derivation at line 55 is a TODO).
ScanStruct(g) ==
  /\ pc[g] = "scan"
  /\ IF Elem[callType[g]] \notin Structs
     THEN Panic(g) /\ UNCHANGED fields
     ELSE /\ fields' = {}
          /\ IF HasDesc
             THEN /\ pc' = [pc EXCEPT ![g] = "field"]
                  /\ UNCHANGED <<onceDone, onceLock, crashed>>
             ELSE Panic(g)
  /\ idx' = [idx EXCEPT ![g] = 1]
  /\ UNCHANGED <<goType, callType, callsLeft>>

\* Lines 138-157, one descriptor field per step; fieldInfoFor* may panic
\* (a weak field, a struct field that does not match, an embedded field).
\* After the last field f returns: done is stored and m unlocked.
BuildField(g) ==
  /\ pc[g] = "field"
  /\ IF idx[g] > NumFields
     THEN /\ onceDone' = TRUE
          /\ onceLock' = None
          /\ pc' = [pc EXCEPT ![g] = "check"]
          /\ UNCHANGED <<fields, idx, crashed>>
     ELSE IF <<Elem[callType[g]], idx[g]>> \in FieldPanics
          THEN Panic(g) /\ UNCHANGED <<fields, idx>>
          ELSE /\ fields' = fields \cup {idx[g]}
               /\ idx' = [idx EXCEPT ![g] = @ + 1]
               /\ UNCHANGED <<onceDone, onceLock, pc, crashed>>
  /\ UNCHANGED <<goType, callType, callsLeft>>

\* Line 83: reflect.TypeOf(p) != mi.goType panics.
\* Mutant: the type check of line 83 is removed.
CheckTypeSkipped(g) ==
  /\ pc[g] = "check"
  /\ pc' = [pc EXCEPT ![g] = "ready"]
  /\ UNCHANGED <<onceDone, onceLock, crashed, goType, fields, callType, idx, callsLeft>>

CheckType(g) ==
  /\ pc[g] = "check"
  /\ IF callType[g] = goType
     THEN pc' = [pc EXCEPT ![g] = "ready"] /\ UNCHANGED <<onceDone, onceLock, crashed>>
     ELSE Panic(g)
  /\ UNCHANGED <<goType, fields, callType, idx, callsLeft>>

\* The method returns its wrapper over (pointer, mi), lines 160-182.
Return(g) ==
  /\ pc[g] = "ready"
  /\ pc' = [pc EXCEPT ![g] = "idle"]
  /\ UNCHANGED <<onceDone, onceLock, goType, fields, callType, idx, callsLeft, crashed>>

Init ==
  /\ onceDone = FALSE
  /\ onceLock = None
  /\ goType = NoType
  /\ fields = {}
  /\ pc = [g \in Goroutines |-> "idle"]
  /\ callType = [g \in Goroutines |-> NoType]
  /\ idx = [g \in Goroutines |-> 0]
  /\ callsLeft = [g \in Goroutines |-> MaxCalls]
  /\ crashed = FALSE

Step(g) ==
  \/ OnceDone(g) \/ OnceSlow(g) \/ OnceLock(g) \/ BindType(g) \/ ScanStruct(g)
  \/ BuildField(g) \/ CheckType(g) \/ Return(g)

Next == ~crashed /\ \E g \in Goroutines : Call(g) \/ Step(g)

\* The Go scheduler runs every runnable goroutine eventually.
Fairness == \A g \in Goroutines : WF_vars(~crashed /\ Step(g))

Spec == Init /\ [][Next]_vars /\ Fairness

-----------------------------------------------------------------------------
(* Properties                                                              *)

TypeOK ==
  /\ onceDone \in BOOLEAN
  /\ onceLock \in Goroutines \cup {None}
  /\ goType \in GoTypes \cup {NoType}
  /\ fields \subseteq AllFields
  /\ pc \in [Goroutines -> PCs]
  /\ callType \in [Goroutines -> GoTypes \cup {NoType}]
  /\ idx \in [Goroutines -> 0..NumFields + 1]
  /\ callsLeft \in [Goroutines -> 0..MaxCalls]
  /\ crashed \in BOOLEAN

(* No caller gets past init while the dispatch table is incomplete: once  *)
(* MessageOf, KnownFieldsOf or UnknownFieldsOf returns its wrapper, every  *)
(* field of the descriptor has its fieldInfo (spec section 5: no partial  *)
(* table is ever observable), whatever the interleaving of first callers. *)
TableComplete ==
  \A g \in Goroutines : pc[g] = "ready" => fields = AllFields

(* A caller gets past init only with a p of the Go type the binder is     *)
(* bound to (the check of line 83), also when it raced the first caller.  *)
TypeAgreement ==
  \A g \in Goroutines : pc[g] = "ready" => callType[g] = goType

(* Once bound, a MessageType stays bound to the same Go type: no later,   *)
(* concurrent or retried call rebinds mi.goType.                          *)
BindOnce == [][goType # NoType => goType' = goType]_vars

(* Once sync.Once is done the dispatch table never changes again: no     *)
(* later, concurrent or retried call rebuilds or extends mi.fields, as    *)
(* spec section 2 says of FieldInfo entries after the lazy init, also     *)
(* when the init panicked and left the table partial.                     *)
TableFrozen == [][onceDone => fields' = fields]_vars

(* Every call of an exported method returns or panics: no caller waits    *)
(* forever on the sync.Once, also when the first caller's f panicked.     *)
CallsReturn ==
  \A g \in Goroutines : (pc[g] # "idle") ~> (pc[g] = "idle" \/ crashed)

(* A caller gets past init only when the binder is bound to a pointer to  *)
(* a struct, as the comment of MessageType and the panic message of line  *)
(* 48 ("want *struct kind") say.                                          *)
BoundToStructPointer ==
  \A g \in Goroutines :
     pc[g] = "ready" => Kind[goType] = "ptr" /\ Elem[goType] \in Structs

-----------------------------------------------------------------------------
(* The inductive invariant behind TableComplete and TypeAgreement.        *)

(* Only the goroutine that holds sync.Once's mutex runs f, and while f    *)
(* runs done is still 0.                                                   *)
LockHolder ==
  \A g \in Goroutines :
     pc[g] \in {"kind", "scan", "field"} /\ ~crashed => onceLock = g /\ ~onceDone

(* The mutex is held only by a goroutine inside f.                         *)
LockOwned == onceLock # None /\ ~crashed => pc[onceLock] \in {"kind", "scan", "field"}

(* Nobody reaches the type check before done is 1.                         *)
DoneBeforePast == ~onceDone => \A g \in Goroutines : pc[g] \notin {"check", "ready"}

(* The builder has built exactly the fields before its loop index.        *)
BuiltPrefix ==
  \A g \in Goroutines :
     pc[g] = "field" /\ ~crashed => idx[g] \in 1..NumFields + 1 /\ fields = 1..(idx[g] - 1)

(* Without recovered panics, done is 1 only over a complete table, and    *)
(* every goroutine at or past the type check sees a complete table.        *)
DoneComplete == onceDone /\ ~crashed => fields = AllFields

PastComplete == \A g \in Goroutines : pc[g] \in {"check", "ready"} => fields = AllFields

(* A returned wrapper carries the bound Go type (TypeAgreement, also for  *)
(* callers past the check).                                                *)
ReadyTyped == \A g \in Goroutines : pc[g] = "ready" => callType[g] = goType

(* Before done is 1, goType is set only while its binder still runs f    *)
(* past the kind check: the step that sets it is not taken again.          *)
BoundHeld ==
  goType # NoType /\ ~onceDone /\ ~crashed =>
     onceLock # None /\ pc[onceLock] \in {"scan", "field"}

IInvType == TypeOK /\ LockHolder /\ LockOwned /\ DoneBeforePast /\ ReadyTyped

IInvTable == IInvType /\ BuiltPrefix /\ DoneComplete /\ PastComplete

(* A caller inside init holds a p of one of the Go types.                  *)
CallTyped == \A g \in Goroutines : pc[g] # "idle" => callType[g] \in GoTypes

(* Past the kind check, the binder has bound a Go type.                    *)
BinderBound ==
  \A g \in Goroutines : pc[g] \in {"scan", "field"} /\ ~crashed => goType \in GoTypes


-----------------------------------------------------------------------------
(* Refinement of MessageTypeAbstract: a goroutine is "busy" from the call *)
(* to the end of the type check, mi.goType is the bound type and           *)
(* sync.Once.done marks the end of the initialisation.                    *)

Phase == [g \in Goroutines |-> IF pc[g] \in {"idle", "ready"} THEN pc[g] ELSE "busy"]

AbsBinder == INSTANCE MessageTypeAbstract
               WITH bound <- goType, done <- onceDone, phase <- Phase, arg <- callType

(* The binder keeps the contract of spec section 4.1 whatever goroutines  *)
(* interleave, panic, recover and call again: mi.goType is bound at most  *)
(* once, by a caller inside once.Do and to a type the kind check passed;  *)
(* no MessageOf, KnownFieldsOf or UnknownFieldsOf gets past init before    *)
(* sync.Once's f has returned or panicked, and then only with a p of the   *)
(* bound type.                                                            *)
ImplementsAbstractBinder == AbsBinder!AbsSpec

=============================================================================
