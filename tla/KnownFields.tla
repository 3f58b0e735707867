---------------------------- MODULE KnownFields ----------------------------
(***************************************************************************)
(* The known-fields facade of impl.MessageType (src/protobuf/internal/    *)
(* impl/message.go lines 229-286) over one record instance, with the      *)
(* classification of generateFieldFuncs (lines 138-157) that picks each   *)
(* field's dispatcher.                                                     *)
(*                                                                         *)
(* The dispatchers (fieldInfoForScalar, ...ForOneof, ...ForVector,        *)
(* ...ForMap) are not part of this source tree; their has, get, set,      *)
(* clear and mutable are modelled from spec section 4.2.  The record's    *)
(* storage is abstracted per class: a scalar slot (nil or a value), one   *)
(* union slot per oneof group (the active member and its value), a list   *)
(* per repeated field, a key-value function per map field.  Values and    *)
(* keys are members of small sets.                                         *)
(***************************************************************************)
EXTENDS Naturals, Sequences, FiniteSets

CONSTANTS
  Fields,     \* the field numbers of the message descriptor
  FieldDesc,  \* FieldDesc[n]: the descriptor flags of field n
  Groups,     \* oneof group names
  NoOneof,    \* fd.OneofType() == nil
  Default,    \* Default[n]: fd.Default(), the value get returns when unset
  Zero,       \* the zero value a proto3 scalar has when unset
  Vals,       \* scalar and element values
  Keys,       \* map keys
  Table,      \* the field numbers mi.fields holds (all of Fields after init)
  Nil         \* a nil pointer, slice or map entry

ASSUME KnownFieldsAssumption ==
  /\ FieldDesc \in [Fields -> [weak : BOOLEAN, oneof : Groups \cup {NoOneof},
                               isMap : BOOLEAN, repeated : BOOLEAN,
                               message : BOOLEAN, proto3 : BOOLEAN]]
  /\ Default \in [Fields -> Vals]
  /\ Zero \in Vals
  /\ Table \subseteq Fields
  /\ Nil \notin Vals

NoCase == <<>>   \* a nil oneof interface: no member active

\* The switch of generateFieldFuncs, lines 141-155, in its order.
\* Mutant: the repeated check comes before the map check.
ClassifyRepeatedFirst(n) ==
  LET d == FieldDesc[n] IN
  CASE d.weak              -> "weak"
    [] d.oneof # NoOneof   -> "oneof"
    [] d.repeated          -> "vector"
    [] d.isMap             -> "map"
    [] d.message           -> "message"
    [] OTHER               -> "scalar"

Classify(n) ==
  LET d == FieldDesc[n] IN
  CASE d.weak              -> "weak"
    [] d.oneof # NoOneof   -> "oneof"
    [] d.isMap             -> "map"
    [] d.repeated          -> "vector"
    [] d.message           -> "message"
    [] OTHER               -> "scalar"

Group(n) == FieldDesc[n].oneof

VARIABLES
  scalar,    \* scalar[n]: a scalar field's slot (proto2: Nil is a nil pointer)
  union,     \* union[g]: <<member, value>> of the active member, or NoCase
  vec,       \* vec[n]: a repeated field's list
  mp,        \* mp[n][k]: a map field's value at k, or Nil
  panicked   \* a fatal usage error has ended the program

record == <<scalar, union, vec, mp>>

EmptyMap == [k \in Keys |-> Nil]

\* The zero record of reflect.New(goType.Elem()).
\* A proto3 scalar is a plain value, a proto2 one a pointer.
Unset(n) == IF FieldDesc[n].proto3 THEN Zero ELSE Nil

EmptyRecord ==
  /\ scalar = [n \in Fields |-> Unset(n)]
  /\ union = [g \in Groups |-> NoCase]
  /\ vec = [n \in Fields |-> <<>>]
  /\ mp = [n \in Fields |-> EmptyMap]

-----------------------------------------------------------------------------
(* The dispatchers' capabilities, by class (spec section 4.2).            *)

Active(n) == union[Group(n)] # NoCase /\ union[Group(n)][1] = n

FiHas(n) ==
  CASE Classify(n) = "scalar" ->
         scalar[n] # Unset(n)
    [] Classify(n) = "oneof"  -> Active(n)
    [] Classify(n) = "vector" -> vec[n] # <<>>
    [] Classify(n) = "map"    -> \E k \in Keys : mp[n][k] # Nil
    [] OTHER                  -> FALSE

FiGet(n) ==
  CASE Classify(n) = "scalar" ->
         IF scalar[n] # Nil THEN scalar[n] ELSE Default[n]
    [] Classify(n) = "oneof"  -> IF Active(n) THEN union[Group(n)][2] ELSE Default[n]
    [] Classify(n) = "vector" -> vec[n]
    [] Classify(n) = "map"    -> mp[n]
    [] OTHER                  -> Nil

FiSet(n, v) ==
  CASE Classify(n) = "scalar" ->
         scalar' = [scalar EXCEPT ![n] = v] /\ UNCHANGED <<union, vec, mp>>
    [] Classify(n) = "oneof"  ->
         union' = [union EXCEPT ![Group(n)] = <<n, v>>] /\ UNCHANGED <<scalar, vec, mp>>
    [] Classify(n) = "vector" ->
         vec' = [vec EXCEPT ![n] = v] /\ UNCHANGED <<scalar, union, mp>>
    [] Classify(n) = "map"    ->
         mp' = [mp EXCEPT ![n] = v] /\ UNCHANGED <<scalar, union, vec>>

\* A oneof member is cleared only when it is the active one.
FiClear(n) ==
  CASE Classify(n) = "scalar" ->
         scalar' = [scalar EXCEPT ![n] = Unset(n)] /\ UNCHANGED <<union, vec, mp>>
    [] Classify(n) = "oneof"  ->
         /\ union' = IF Active(n) THEN [union EXCEPT ![Group(n)] = NoCase] ELSE union
         /\ UNCHANGED <<scalar, vec, mp>>
    [] Classify(n) = "vector" ->
         vec' = [vec EXCEPT ![n] = <<>>] /\ UNCHANGED <<scalar, union, mp>>
    [] Classify(n) = "map"    ->
         mp' = [mp EXCEPT ![n] = EmptyMap] /\ UNCHANGED <<scalar, union, vec>>

\* The handle mutable returns: a list or a map; any other dispatcher's
\* mutable is a usage error.
FiMutable(n) == IF Classify(n) \in {"vector", "map"} THEN Classify(n) ELSE "panic"

-----------------------------------------------------------------------------
(* The facade, lines 231-286: look n up in mi.fields and delegate.        *)

Known(n) == n \in Table

\* Len, lines 231-239: the fields of mi.fields whose has is true.
Len_ == Cardinality({n \in Table : FiHas(n)})

\* Has and Get, lines 240-253: an unknown field is absent.
Has(n) == Known(n) /\ FiHas(n)

Get(n) == IF Known(n) THEN FiGet(n) ELSE Nil

\* panic(fmt.Sprintf("invalid field: %d", n))
InvalidField == panicked' = TRUE /\ UNCHANGED record

\* Set and Clear, lines 254-269.
Set(n, v) ==
  IF Known(n) THEN FiSet(n, v) /\ UNCHANGED panicked ELSE InvalidField

Clear(n) ==
  IF Known(n) THEN FiClear(n) /\ UNCHANGED panicked ELSE InvalidField

\* Mutable, lines 270-276: the kind of handle returned, or "panic".
Mutable(n) == IF Known(n) THEN FiMutable(n) ELSE "panic"

\* Range, lines 277-286: the pairs the callback sees when it never stops.
Range_ == {<<n, FiGet(n)>> : n \in {m \in Table : FiHas(m)}}

-----------------------------------------------------------------------------
(* The list and map handles returned by Mutable (spec section 4.2).  The *)
(* map handle's set and clear are written out in the driver.             *)

VecAppend(n, vs) ==
  vec' = [vec EXCEPT ![n] = @ \o vs] /\ UNCHANGED <<scalar, union, mp, panicked>>

\* set(i, v) for every pair of the function ivs; an index outside [0, len)
\* is fatal.
VecSet(n, ivs) ==
  IF DOMAIN ivs \subseteq 0..Len(vec[n]) - 1
  THEN /\ vec' = [vec EXCEPT ![n] = [j \in DOMAIN @ |-> IF j - 1 \in DOMAIN ivs
                                                         THEN ivs[j - 1] ELSE @[j]]]
       /\ UNCHANGED <<scalar, union, mp, panicked>>
  ELSE panicked' = TRUE /\ UNCHANGED record

VecTruncate(n, k) ==
  IF k <= Len(vec[n])
  THEN vec' = [vec EXCEPT ![n] = SubSeq(@, 1, k)] /\ UNCHANGED <<scalar, union, mp, panicked>>
  ELSE panicked' = TRUE /\ UNCHANGED record

MapLen(n) == Cardinality({k \in Keys : mp[n][k] # Nil})

=============================================================================
