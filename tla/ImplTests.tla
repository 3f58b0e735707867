----------------------------- MODULE ImplTests -----------------------------
(***************************************************************************)
(* The table-driven driver of the impl tests (src/dl/go1.10/main.go lines *)
(* 1161-1310): testMessage runs a list of operations against the known-  *)
(* fields facade of one message; vectorFields and mapFields hand a field's *)
(* list or map handle to testVectors and testMaps.                        *)
(*                                                                         *)
(* setFields, clearFields, vectorFields and mapFields are Go maps and the *)
(* driver ranges over them: Go picks a fresh iteration order on every     *)
(* range, so the model takes the next key from the set of keys not yet   *)
(* visited.  The checks (cmp.Diff) only read, so each is one step.  A     *)
(* failed check sets failed (t.Errorf goes on); a panic ends the run.    *)
(***************************************************************************)
EXTENDS KnownFields

CONSTANTS
  Prog,     \* the messageOps of the test, a sequence of records [op, arg]
  NoField   \* no vectorFields or mapFields entry is being run

VARIABLES
  pc,       \* the index of the current operation in Prog
  todo,     \* the keys of the current Go map not yet visited by range
  cur,      \* the field whose sub-operations testVectors/testMaps runs
  sub,      \* the index of the current sub-operation of cur
  failed    \* some t.Errorf has been called

vars == <<scalar, union, vec, mp, panicked, pc, todo, cur, sub, failed>>

CurOp == Prog[pc]

\* The keys of the Go map held by operation i, for the range that runs it.
KeysOf(i) == IF i <= Len(Prog) THEN DOMAIN Prog[i].arg ELSE {}

\* What cmp.Diff sees of field n after unwrapping the message to its Go
\* struct: the struct's slot for n, whose Go type the record shape fixes
\* (an interface for a oneof, a map, a slice, or a scalar), with an
\* inactive oneof member as nil.
FieldValue(n) ==
  LET d == FieldDesc[n] IN
  CASE d.oneof # NoOneof -> IF Active(n) THEN union[Group(n)][2] ELSE Nil
    [] d.isMap           -> mp[n]
    [] d.repeated        -> vec[n]
    [] OTHER             -> scalar[n]

MessageValue == [n \in Fields |-> FieldValue(n)]

\* The Go map got, filled for every key k of want, differs from want.
Mismatch(want, got) == \E k \in DOMAIN want : got[k] # want[k]

Init ==
  /\ EmptyRecord
  /\ panicked = FALSE
  /\ pc = 1
  /\ todo = KeysOf(1)
  /\ cur = NoField
  /\ sub = 1
  /\ failed = FALSE

Running == ~panicked /\ pc <= Len(Prog)

\* The step to the next element of tt, with the range over its map ready.
NextOp == pc' = pc + 1 /\ todo' = KeysOf(pc + 1)

Fail(bad) == failed' = (failed \/ bad)

-----------------------------------------------------------------------------
(* testMessage, lines 1161-1215.                                          *)

\* equalMessage, hasFields and getFields, lines 1166-1188.
CheckMessage ==
  /\ Running
  /\ CurOp.op \in {"equal", "has", "get"}
  /\ Fail(CASE CurOp.op = "equal" -> MessageValue # CurOp.arg
            [] CurOp.op = "has"   -> Mismatch(CurOp.arg, [n \in DOMAIN CurOp.arg |-> Has(n)])
            [] CurOp.op = "get"   -> Mismatch(CurOp.arg, [n \in DOMAIN CurOp.arg |-> Get(n)]))
  /\ NextOp
  /\ UNCHANGED <<scalar, union, vec, mp, panicked, cur, sub>>

\* One iteration of the range of setFields (lines 1189-1192) or
\* clearFields (lines 1193-1198).
SetField ==
  /\ Running
  /\ CurOp.op = "set"
  /\ \E n \in todo :
       /\ Set(n, CurOp.arg[n])
       /\ todo' = todo \ {n}
  /\ UNCHANGED <<pc, cur, sub, failed>>

ClearField ==
  /\ Running
  /\ CurOp.op = "clear"
  /\ \E n \in todo :
       /\ IF CurOp.arg[n] THEN Clear(n) ELSE UNCHANGED <<record, panicked>>
       /\ todo' = todo \ {n}
  /\ UNCHANGED <<pc, cur, sub, failed>>

\* vectorFields and mapFields, lines 1199-1212: fs.Mutable(n) and the type
\* assertion to pref.Vector or pref.Map, which panics on any other handle.
EnterField ==
  /\ Running
  /\ CurOp.op \in {"vector", "map"}
  /\ cur = NoField
  /\ \E n \in todo :
       IF Mutable(n) = CurOp.op
       THEN /\ cur' = n /\ sub' = 1 /\ todo' = todo \ {n}
            /\ UNCHANGED <<record, panicked>>
       ELSE /\ panicked' = TRUE
            /\ UNCHANGED <<record, cur, sub, todo>>
  /\ UNCHANGED <<pc, failed>>

\* testVectors or testMaps returns.
LeaveField ==
  /\ Running
  /\ cur # NoField
  /\ sub > Len(CurOp.arg[cur])
  /\ cur' = NoField
  /\ UNCHANGED <<scalar, union, vec, mp, panicked, pc, todo, sub, failed>>

\* The range over setFields, clearFields, vectorFields or mapFields ends.
EndRange ==
  /\ Running
  /\ CurOp.op \in {"set", "clear", "vector", "map"}
  /\ todo = {}
  /\ cur = NoField
  /\ NextOp
  /\ UNCHANGED <<scalar, union, vec, mp, panicked, cur, sub, failed>>

-----------------------------------------------------------------------------
(* testVectors, lines 1217-1253, and testMaps, lines 1255-1310: one step *)
(* per sub-operation of the handle of field cur.                          *)

SubOp == CurOp.arg[cur][sub]

InSub(kind) == Running /\ CurOp.op = kind /\ cur # NoField /\ sub <= Len(CurOp.arg[cur])

\* The checks: equalVector, lenVector, getVector; equalMap, lenMap, hasMap,
\* getMap, rangeMap.  v.Get(i) with i outside [0, len) panics.
CheckVector ==
  /\ InSub("vector")
  /\ SubOp.op \in {"equal", "len", "get"}
  /\ LET v == vec[cur] IN
     IF SubOp.op = "get" /\ ~(DOMAIN SubOp.arg \subseteq 0..Len(v) - 1)
     THEN panicked' = TRUE /\ UNCHANGED failed
     ELSE /\ Fail(CASE SubOp.op = "equal" -> v # SubOp.arg
                    [] SubOp.op = "len"   -> Len(v) # SubOp.arg
                    [] SubOp.op = "get"   -> Mismatch(SubOp.arg, [i \in DOMAIN SubOp.arg |-> v[i + 1]]))
          /\ UNCHANGED panicked
  /\ sub' = sub + 1
  /\ UNCHANGED <<scalar, union, vec, mp, pc, todo, cur>>

CheckMap ==
  /\ InSub("map")
  /\ SubOp.op \in {"equal", "len", "has", "get", "range"}
  /\ LET m == mp[cur]
         present == {k \in Keys : m[k] # Nil}
     IN Fail(CASE SubOp.op = "equal" -> m # SubOp.arg
               [] SubOp.op = "len"   -> MapLen(cur) # SubOp.arg
               [] SubOp.op = "has"   -> Mismatch(SubOp.arg, [k \in DOMAIN SubOp.arg |-> m[k] # Nil])
               [] SubOp.op = "get"   -> Mismatch(SubOp.arg, [k \in DOMAIN SubOp.arg |-> m[k]])
               [] SubOp.op = "range" -> [k \in present |-> m[k]] # SubOp.arg)
  /\ sub' = sub + 1
  /\ UNCHANGED <<scalar, union, vec, mp, panicked, pc, todo, cur>>

\* The updates: appendVector, setVector, truncVector; setMap, clearMap.
\* The ranges over setVector, setMap and clearMap touch distinct indices
\* or keys, so their order does not matter and each is one step.
UpdateVector ==
  /\ InSub("vector")
  /\ CASE SubOp.op = "append" -> VecAppend(cur, SubOp.arg)
       [] SubOp.op = "set"    -> VecSet(cur, SubOp.arg)
       [] SubOp.op = "trunc"  -> VecTruncate(cur, SubOp.arg)
       [] OTHER               -> FALSE
  /\ sub' = sub + 1
  /\ UNCHANGED <<pc, todo, cur, failed>>

UpdateMap ==
  /\ InSub("map")
  /\ SubOp.op \in {"set", "clear"}
  /\ mp' = [mp EXCEPT ![cur] =
              [k \in Keys |-> CASE k \notin DOMAIN SubOp.arg -> @[k]
                                [] SubOp.op = "set"         -> SubOp.arg[k]
                                [] SubOp.arg[k]             -> Nil
                                [] OTHER                    -> @[k]]]
  /\ sub' = sub + 1
  /\ UNCHANGED <<scalar, union, vec, panicked, pc, todo, cur, failed>>

Next ==
  \/ CheckMessage \/ SetField \/ ClearField \/ EnterField \/ LeaveField
  \/ EndRange \/ CheckVector \/ CheckMap \/ UpdateVector \/ UpdateMap

Spec == Init /\ [][Next]_vars

-----------------------------------------------------------------------------

\* Every check of the test's operation list (equalMessage, hasFields,
\* getFields and the list and map checks) agrees with what the facade and
\* its handles return, and no call panics, in every iteration order the
\* Go maps of the test can take.
TestsPass == ~failed /\ ~panicked

=============================================================================
