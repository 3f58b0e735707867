# TLA+ models of the protobuf reflection runtime

This directory holds TLA+ models of the Go sources under `src/`. It also holds
their TLC configurations and the TLAPS proofs about them.

## The system

| Part | Source | State | Operations |
|------|--------|-------|------------|
| Descriptor registry `protoregistry.Files` | `src/unnamed/part_002` | a trie `filesByPackage` of package segments, where each node keeps the files of that package and its sub-packages; every top-level declaration name is mapped to the sentinel `notProtoPackage`. Also a multimap `filesByPath`. | `Register` (per-file package walk, top-level conflict check, rollback, append), `FindDescriptorByName`, `RangeFiles`, `RangeFilesByPackage`, `RangeFilesByPath` |
| Type binder `impl.MessageType` | `src/protobuf/internal/impl/message.go` | `once`, `goType`, `pbType`, `fields` (the dispatch table) | `init` is lazy and runs under `sync.Once`. Every exported method calls it: `MessageOf`, `KnownFieldsOf`, `UnknownFieldsOf`. `generateFieldFuncs` classifies the fields as weak, oneof, map, repeated, message or scalar. |
| Known-fields facade | `message.go` lines 229-306 | none of its own; it reads and writes the message through `mi.fields` | `Len`, `Has`, `Get`, `Set`, `Clear`, `Mutable`, `Range` |
| Field locator | `src/unnamed/part_001` | none (address arithmetic) | `offsetOf`, `pointerOfValue`, `apply`, `asType` |
| cgocall analyzer | `src/unnamed/part_000` | a visited map during one walk | `run`, `findCall`, `cgoBaseType`, `typeOKForCgoCall` |
| go1.10 command and tests | `src/dl/go1.10/main.go` | the test's message and its position in the operation list | Lines 1-24 call `version.Run`. The rest of the file holds the pack tests and the impl tests; the impl tests drive the facade through `testMessage`, `testVectors` and `testMaps`. |

How the parts interact:
- The facade depends on the binder's table: every facade call goes through `init` first.
- The registry stands alone. Generated code calls `Register` at program start, and the lookups are called later.

## Modules

- **`Registry`**: the registry under a sequence of `Register` calls.
  - **Trie.** A function `subs` from full names to `"nil"`, `"pkg"` or `"notProtoPackage"`. A full name is a sequence over the segment set `Seg`. This keeps the trie's content and leaves out its pointers.
  - **Package lists.** `files` maps each package path to its list of files; `filesByPath` maps each path to its list of files.
  - **Actions.**
    - `RegisterBegin` is the call with a list of files.
    - `RegisterFile` is one iteration of `fileLoop`. It has four disjuncts: `SkipPlaceholder`, `RejectOnPackage`, `RejectOnDeclaration` and `Accept`.
    - `RegisterEnd` is `return firstErr`.
  - **How the walk is modelled.** `Walked(f)` is the trie after the package walk of lines 113-137. It includes the nodes the walk creates before it reaches a `notProtoPackage`.
  - **How the checks and rollback are modelled.**
    - `Conflicts(f)` is the check of lines 141-151.
    - `Inserted(f)` is the trie after the insertions of that check.
    - `RolledBack(f)` is the trie after the rollback of lines 152-161.
  - **Lookups.** These are state functions that take the name as the caller passes it: a string of identifier tokens (`Seg`) and dots (`Dot`), of length up to `2*MaxDepth+1`. `DottedNames` holds every such string with no two adjacent tokens, so `"a."`, `".a"`, `"a..b"` and `""` are all inputs.
    - `SplitPrefix(s)` is `splitPrefix` (lines 274-279): the piece before the first dot and the rest. `Pieces(s)` is the list of pieces the loop of lines 196-211 takes, and `Path(s, k)` the trie key after `k` of them.
    - `Walkable(s, k)`: every piece so far is a single token and names a `"pkg"` node. An empty piece (a leading, doubled or trailing dot) or a multi-token piece ends the walk, as the map lookup of line 199 does.
    - `FindDescriptorByName(s)` scans the files of the package node where the walk meets a `notProtoPackage` sentinel (lines 202-209); `ScanFiles` is that scan.
    - `RangeFilesByPackage(s)` is lines 222-242. `HasTrailingDot` is the `strings.HasSuffix(name, ".")` guard of lines 231-233, and `RangeFilesAt` is `rangeFiles` (lines 243-259).
    - `RangeFiles` is `RangeFilesByPackage` of the empty name.
- **`RegistryAbstract`**: what the registry promises, written without a trie. A multiset `reg` of files. A file is accepted exactly when none of its full names collides with a full name of a registered file or with a registered package prefix.
  - `Registry` implements it through the refinement mapping `AbsReg`, which counts the occurrences of each file in its package list.
- **`MessageType`**: `init` run by goroutines in parallel.
  - **sync.Once.** It is modelled as the fast path `OnceDone`, the slow path `OnceSlow`, and `OnceLock`, where the mutex is taken and `done` re-checked.
  - **The function passed to `once.Do`.** It is split at each point where it can panic:
    - `BindType`: the kind check of line 47, then `mi.goType = t`;
    - `ScanStruct`: `t.NumField()`, and `md.Fields()` on a nil descriptor;
    - `BuildField`: one `fieldInfoFor*` per step.
  - **`CheckType`** is the check of line 83.
  - **`Panic(g)`.** It runs the deferred `Store(&done,1)` and `Unlock` of `sync.Once` when `g` is inside `once.Do`. Then the caller either recovers (it is back to `idle` and may call again) or the process ends (`crashed`).
- **`MessageTypeAbstract`**: what `init` promises, from spec section 4.1 and the comment on `MessageType`, without the Once, its mutex or the table.
  - Its state is the bound type `bound`, the flag `done`, each caller's `phase` (`idle`, `busy` inside `init`, `ready` past it) and argument type `arg`, and `crashed`.
  - `Bind` ties the binder to the caller's type. It requires that `done` is false, that nothing is bound yet, and that the type passes the kind check as the code writes it (`PassesKindCheck`, the `&&` of line 47).
  - `Complete` ends the initialisation normally, only after a type is bound.
  - `Serve` lets a caller past `init`, only after `done` and only with the bound type.
  - `Fail` is a panic of a busy caller. It may end the initialisation, and is recovered or ends the process.
  - `MessageType` implements it through `AbsBinder`: `goType` is `bound`, `sync.Once.done` is `done`, and `Phase` maps every pc from `once` to `check` to `busy`.
- **`KnownFields`**: the known-fields facade over one message.
  - **Classification.** `Classify(n)` is the switch of `generateFieldFuncs` (lines 141-155), in its order: weak, oneof, map, repeated, message, scalar.
  - **Storage.** The record is abstracted per slot kind:
    - `scalar[n]` is a proto2 pointer (`Nil` when unset) or a proto3 value (`Zero` when unset);
    - `union[g]` is the active member of oneof group `g` and its value;
    - `vec[n]` is a list;
    - `mp[n]` maps each key to a value or `Nil`.
  - **Dispatchers.** `FiHas`, `FiGet`, `FiSet`, `FiClear` and `FiMutable` are the per-field dispatchers. So are the list handle's `VecAppend`, `VecSet` and `VecTruncate`. `message_field.go` is not in this tree, so these are modelled from spec section 4.2. The PROJECT.json map marks them `spec_modelled`.
  - **Facade.** `Has`, `Get`, `Set`, `Clear`, `Mutable`, `Len_` and `Range_` follow lines 231-286. `Set`, `Clear` and `Mutable` panic on a number outside `mi.fields`.
- **`ImplTests`**: the test driver of `main.go` lines 1161-1310, over `KnownFields`.
  - `pc` is the index into the operation list.
  - `todo` holds the keys of the Go map the current `range` has not visited yet. Go randomises map iteration order, so `SetField`, `ClearField` and `EnterField` take any key of `todo`.
  - `cur` and `sub` are the field and sub-operation that `testVectors` or `testMaps` is running.
  - `failed` records a `t.Errorf`; `panicked` records a panic.
  - `FieldValue` is what `cmp.Diff` compares after `cmpOpts` unwraps the message to its Go struct. The slot's Go type comes from the record shape, not from the dispatcher.
- **`ImplTestPrograms`**: the operation lists of `TestScalarProto2`, `TestScalarProto3`, `TestRepeatedScalars`, `TestMapScalars` and `TestOneofs`.
  - Each test keeps a few representative fields, with its values abstracted to a handful of distinct ones.
  - All the fields sit in one descriptor. Each test ends with its fields cleared, so the five lists run one after the other on one message.
- **`CgoCall`**: the cgocall analyzer (`part_000`).
  - **Types.** A type graph over the declared types `Nodes`. Each type description has a kind, an element and up to `MaxFields` fields. `ValidGraphs` excludes a named type whose underlying chain is a cycle.
  - **The walk.** `TypeOKForCgoCall` is the recursive walk with its visited map, and it returns the map along with the verdict. `CgoBaseType` follows the expression shapes that `cgoBaseType` distinguishes: identifiers, `&x`, conversions and `*( *unsafe.Pointer)`.
  - **`run`.** `ReportedArg` is the loop over arguments with its `break`. The actions are `VisitCall`, `VisitCBytes` and `VisitUnchecked`, one per outcome of `findCall` for a call site.
  - The module declares RECURSIVE operators, so it is checked by TLC only.
- **`RegistryProofs`**: the TLAPS proofs about `Registry`.
- **`RegistryRefinementProofs`**: the proofs that a rejected file leaves the trie as it was, and that `Registry` implements `RegistryAbstract`.
- **`MessageTypeProofs`**: the TLAPS proofs about `MessageType`.
- **`MessageTypeRefinementProofs`**: the proofs that `MessageType` implements `MessageTypeAbstract` and that its table is frozen once `done`.
- **`MC_Registry`, `MC_MessageType`, `MC_CgoCall`, `MC_ImplTests`**: the instances that TLC checks.

## Runs

| Run | Checks | Result |
|-----|--------|--------|
| `registry` | `NamespaceConsistent`, `FindResolves`, `RangeComplete`, `ByPathConsistent`, `RejectIsAtomic`, `ImplementsAbstract` | pass, 2573 states |
| `mt_init` | `TableComplete`, `TypeAgreement` (no panic is recovered) | pass |
| `mt_recover` | `BindOnce`, `CallsReturn`, `ImplementsAbstractBinder`, `TableFrozen` (callers may recover and retry) | pass, 9486 states |
| `mt_partial_table` | `TableComplete` when panics are recovered, with only `*Msg` and `*Other` passed | violation |
| `mt_kind_check` | `BoundToStructPointer` | violation |
| `cgocall` | `AlgorithmAgrees`, `ReportsMatchDoc` | pass, 133056 states |
| `impl_tests` | `TestsPass` | pass, 303 states |

What each property says:
- **`NamespaceConsistent`**: a name has at most one owning file; a file that declares names is registered at most once; no declaration of one file is a package prefix of another file.
- **`FindResolves`**: for every dotted string, `FindDescriptorByName` returns the registered file that declares exactly that name, and nothing for a malformed string or an undeclared name. A reviewer could doubt that the sentinel scan at the first sentinel on the walk is enough; it is, because `NamespaceConsistent` keeps declarations from shadowing packages.
- **`RangeComplete`**: for every dotted string `s`, `RangeFilesByPackage(s)` visits exactly the registered files whose package, written with dots, has `s` as a prefix. This covers the boundary: `"a."` visits nothing, because the trailing-dot guard of line 230 rejects it before `splitPrefix` would drop the empty last piece and walk to `a`. The mutant without the guard breaks this property.
- **`ByPathConsistent`**: the path index lists exactly the accepted files.
- **`RejectIsAtomic`** (action property): a step that appends no file to a package node leaves the trie exactly as it was. This is the per-file atomicity of spec section 4.5. It covers both the rollback of lines 152-161 and the package nodes that a rejected walk could leave behind. The mutant whose rollback also deletes the conflicting names, which belong to other files, breaks it.
- **`TableComplete`**: no caller gets past `init` while the table is incomplete.
- **`TypeAgreement`**: a caller only proceeds with the bound Go type.
- **`BindOnce`**: `goType` is never rebound.
- **`CallsReturn`**: every call returns or panics. It is checked only by `mt_recover`, whose behaviours include all of `mt_init`'s: `RecoverModes` there holds both answers.
- **`ImplementsAbstractBinder`**: every step of the binder is a step of `MessageTypeAbstract`, or changes nothing it sees. The mutant whose `doSlow` does not test `done` again after taking the mutex breaks it: a second caller runs `f` again and rebinds `goType` after `done`.
- **`TableFrozen`** (action property): once `done` is 1, `mi.fields` never changes. This is spec section 2's "thereafter immutable". It holds with recovered panics too, so a partial table stays partial. The mutant that stores `done` when `f` starts, not when it returns, breaks it.
- **`AlgorithmAgrees`**: on every valid type graph, `typeOKForCgoCall` accepts a type exactly when no chan, map, func or slice is reachable from it. The reference is a plain reachability fixpoint with no visited map.
- **`ReportsMatchDoc`**: each checked call site is reported at its first argument whose base type fails that test, and nowhere else. `C.CBytes` and unchecked sites are never reported.
- **`TestsPass`**: under every iteration order of the tests' Go maps, no check of the five impl tests fails and nothing panics.

### Findings

1. **`mt_partial_table` (spec section 5 versus `message.go:44`).**
   - `sync.Once` records `done` even when its function panics.
   - Suppose a `fieldInfoFor*` call panics and the caller recovers. Every later caller then skips the initialisation and works with a table that has only some of the fields.
   - The run passes only `*Msg` and `*Other`, so the panic in its trace is the one this finding is about. `*Other` builds field 1, and field 2 panics. The caller recovers, and a later `*Other` call gets past `init` with `fields = {1}`.
   - Spec section 5 says that no partial table is ever observable.
2. **`mt_kind_check` (`message.go:47`).**
   - The condition is `t.Kind() != reflect.Ptr && t.Elem().Kind() != reflect.Struct`.
   - A `[]Msg` passes this check, so `goType` is bound to a slice type. The panic message "want *struct kind" shows that `||` was intended.
   - TLC shows that a recovered panic opens a second way in:
     - a `*int` passes the kind check and is bound;
     - the struct scan then panics, and `done` is stored;
     - the caller recovers, and a later `*int` call passes the type check, with `goType` a pointer to a non-struct and an empty table.

### Bounds

**Registry.** `Seg = {a, b}`. Packages have depth at most 2. There are six files:

| File | Package | Declares | Role |
|------|---------|----------|------|
| f1 | `a` | `b` | its name `a.b` is the package of f2 |
| f2 | `a.b` | `a` | |
| f3 | `a` | `a`, `b` | collides with f1 and with f2 |
| f4 | root | `a` | shadows the package `a` |
| f5 | `a.a` | nothing | may be registered twice |
| f6 | `b` | `a` | placeholder |

- Lists passed to `Register` have at most two files, and there are at most three calls.
- With these bounds each kind of conflict happens:
  - a name against a name;
  - a name against a package;
  - a package against a name;
  - a conflict within one call and across calls;
  - a file registered twice;
  - a rollback that must keep names of other files.

**MessageType.**
- Two goroutines, each making at most two calls.
- Five Go types:
  - `*Msg`;
  - `*Other`, whose field 2 panics;
  - `*int`;
  - `[]Msg`;
  - `int`, which fails the kind check.
- `mt_partial_table` passes only `*Msg` and `*Other`, so the shortest violation is the `fieldInfoFor*` panic of finding 1. With `*int` in the instance, its struct-scan panic (reached only through finding 2) would come first and leave an empty table.
- Two descriptor fields.
- With these bounds each panic point is reached, the kind check's included. So are the type mismatch and the race on first use.

**CgoCall.**
- Three declared types. Leaf kinds `basic` and `slice`. At most two fields per struct.
- All valid type graphs are enumerated: self-reference, mutual recursion through pointers and structs, and a bad kind hidden behind a cycle.
- Ten call sites cover every shape `cgoBaseType` distinguishes, several bad arguments in one call, `C.CBytes`, and a `_Cfunc_` call with no outer call.

**ImplTests.**
- Two proto2 and two proto3 scalars, three repeated fields, four map fields, and a oneof of three members.
- These keep every behaviour the tests check:
  - defaults before set;
  - presence of a set zero value;
  - the proto3 zero value being absent;
  - list append, set and truncate;
  - map set, clear, get of an absent key, and range;
  - oneof replacement, and clearing an inactive member.

### Fairness

`MessageType` assumes weak fairness of each goroutine's steps, but not of new calls. The Go scheduler runs every runnable goroutine, and a call is made only when the program decides to make it.

The cfgs say `CHECK_DEADLOCK FALSE`. The modelled program stops after its bounded number of calls, or after a panic that is not recovered.

## Proofs

### `RegistryProofs`

The proofs hold for all values of the constants that satisfy `ConstantsAssumption`.

- **`TypeCorrect`**: `Spec => []TypeOK`.
- **`NamespaceInvariant`**: `Spec => []NamespaceConsistent`.
- **`ByPathHolds`**: `Spec => []ByPathConsistent`.

`NamespaceConsistent` is not inductive on its own. The inductive invariant `IInv` adds two conjuncts, and TLC also checks it on `MC_Registry`:
- **`SentinelsAreDecls`**: a trie entry is `notProtoPackage` exactly when it is a declared name of a registered file.
- **`PackagesArePresent`**: every package prefix of a registered file is a `"pkg"` node.

The argument:
- **Rejection.**
  - `RolledBackIsWalked`: after the rollback the trie equals the trie after the walk alone.
  - `RejectKeepsInv`: a walk only turns `"nil"` entries into `"pkg"` entries, so it keeps `IInv`.
- **Acceptance.** `AcceptKeepsInv`: no declaration of the new file was present, and none of its package prefixes is a sentinel. Together with `IInv`, this rules out each of the three kinds of collision.

`ByPathConsistent` is inductive together with `TypeOK`. It says that each file occurs in the path list of its path as often as it occurs in the package list of its package, and in no other path list. The argument:
- `OccAppend`: appending `x` to a sequence adds one occurrence of `x` and none of any other value. It is proved by cardinality: the new index set is the old one plus `Len(s)+1`, which was not in it.
- `AcceptKeepsByPath`: `Accept` appends the file to both lists in one step. For each file and each path it splits on whether the entry is the one changed.
- Every other step leaves both lists alone.

### `RegistryRefinementProofs`

These proofs also hold for every value of the constants that satisfies `ConstantsAssumption`.

- **`RejectAtomicHolds`**: `Spec => RejectIsAtomic`.
- **`RefinementHolds`**: `Spec => ImplementsAbstract`. The initial state maps to `AbsInit`. `RegisterBegin` and `RegisterEnd` map to `Begin` and `End`. Each disjunct of `RegisterFile` maps to the matching disjunct of `Step`. Stuttering maps to stuttering.

Both rest on `RInv`. TLC checked `RInv` as an invariant of `MC_Registry` before it was proved. It is `IInv` plus two conjuncts:
- **`PackagesAreRegistered`**: every package node is a non-empty prefix of the package of a registered file. This is the converse of `PackagesArePresent`.
- **`FilesAtPackage`**: a package node lists only files of that package.

Why `PackagesAreRegistered` holds is not obvious. The code keeps the nodes that a rejected walk created (there is no rollback for them). The proof shows that there are none:
- `RejectedWalkIsIdentity`: when the walk of `f` meets a sentinel, or a name of `f` conflicts, the conflict lies on the package of some registered file `g`. Every prefix of `f`'s package up to the conflict is then a prefix of `g`'s package, and so is already a package node.
- With `RolledBackIsWalked`, a rejected file leaves `subs` unchanged, which gives `RejectIsAtomic`.

The refinement rests on `RejectIffConflicting`: under `RInv`, `WalkBlocked(f) \/ Conflicts(f) # {}` holds exactly when the abstract `Conflicting(f)` does. The argument takes each kind of collision in turn:
- A sentinel on the walk is a name of a registered file that is a prefix of `f`'s package.
- A sentinel at a name of `f` is a shared name.
- A package node at a name of `f` is a name of `f` that is a prefix of a registered package.
- `CountIffRegistered` ties the abstract count `AbsReg[g] > 0` to `g \in Registered`.
- `AcceptCount` shows that `Accept` adds exactly one to the count of the accepted file.

### `MessageTypeProofs`

The proofs hold for all values of the constants that satisfy `MessageTypeAssumption` and `NoneAssumption`: any number of goroutines, Go types, descriptor fields and calls.

- **`TypeCorrect`**: `Spec => []TypeOK`. The proof strengthens `TypeOK` by `FieldIdx`: the builder's loop index is at least 1. Without it, the step that adds field `idx[g]` could not be shown to stay within `0..NumFields + 1`.
- **`TypeAgreementHolds`**: `Spec => []TypeAgreement`, recovered panics included.
- **`TableCompleteNoRecover`**: `Spec => []TableComplete`, under the hypothesis `RecoverModes = {FALSE}`. With recovery the property fails (run `mt_partial_table`), so the hypothesis cannot be dropped.
- **`BindOnceHolds`**: `Spec => BindOnce`, recovered panics included.

All four rest on `Core`, the lock discipline of `sync.Once`, which holds with or without recovery:
- **`LockHolder`**: a goroutine inside `f` (at `kind`, `scan` or `field`) holds `o.m`, and `done` is still 0.
- **`LockOwned`**: the mutex is held only by a goroutine inside `f`.
- **`DoneBeforePast`**: no goroutine reaches the type check while `done` is 0.
- **`ReadyTyped`**: this is `TypeAgreement` itself.

`ReadyTyped` is not inductive alone. `CheckType` only compares `callType[g]` with `goType`. What keeps a later step from changing `goType` under a ready goroutine is that only the mutex holder binds, and only while `done` is 0, when nobody is past the check. `PanicKeepsCore` covers every panic point at once. The deferred `Store(&done, 1)` and `Unlock` of `doSlow` release the mutex and set `done` together.

`TableComplete` adds `TInv`:
- **`BuiltPrefix`**: the builder has built exactly the fields `1..idx[g]-1`.
- **`DoneComplete`**: with no crash, `done` is 1 only over a complete table.
- **`PastComplete`**: the table is complete for every goroutine at or past the check.

A panic without recovery sets `crashed`, which stops every step. Without that hypothesis, `DoneComplete` fails: the deferred store marks `done` over a partial table.

`BindOnce` adds `BoundHeld`: while `goType` is set and `done` is 0, the mutex holder is at `scan` or `field`, already past the step that binds. `BoundHeld` and `IInvType` were checked with TLC on the recover instance before they were proved.

### `MessageTypeRefinementProofs`

These proofs hold under the same assumptions.

- **`BinderRefinement`**: `Spec => ImplementsAbstractBinder`, recovered panics included.
- **`TableFrozenHolds`**: `Spec => TableFrozen`, recovered panics included. `FrozenStep`: only `ScanStruct` and `BuildField` write `fields`, and by `LockHolder` their goroutine runs while `done` is 0.

The refinement rests on `RInv`. TLC checked its new conjuncts on the recover instance before they were proved. `RInv` is `Core` and `BoundHeld` plus two conjuncts:
- **`CallTyped`**: a caller inside `init` carries one of the Go types.
- **`BinderBound`**: a goroutine past the kind check has bound a Go type.

How each step maps:
- **`Call`** maps to the abstract `Call`.
- **Stutters.** The Once's fast path, its slow path and lock, a passed struct scan and each field built change nothing the contract sees. `PhaseBusy`: a move inside `init` keeps `Phase`.
- **`BindType`** maps to `Bind`. Nothing is bound yet because the binder is at `kind`. Then `LockHolder` gives `done = 0`, and `BoundHeld` would put the holder past `kind` if a type were bound.
- **The last `BuildField`** maps to `Complete`, since by `BinderBound` a type is bound.
- **`CheckType`** that passes maps to `Serve`, since by `DoneBeforePast` `done` is 1.
- **Every panic** maps to `Fail` (`PanicRefines`).

Only TLC checks the following:
- all of `CgoCall`, which uses RECURSIVE operators, and the impl tests;
- the lookup properties `FindResolves` and `RangeComplete`: they are about what a walk over a string computes, which needs induction over the string (out of reach, see below);
- the liveness property `CallsReturn` of `MessageType`.

`BoundToStructPointer` is not a theorem, because it is false (finding 2). Hypotheses that exclude `[]Msg` and recovered panics would exclude both ways it fails. What is left would follow from the struct-scan guard alone.

Liveness and `ENABLED` are beyond TLAPS. So is induction over data: the library's induction theorems take an operator parameter, which the installed provers cannot instantiate.

## Plan

1. Compose the facade with the `MessageType` table. A partial table after a recovered panic makes `Set`, `Clear` and `Mutable` panic on known fields.
2. Model the field locator's panics in `offsetOf` and `asType`.
3. Model nested-message fields (lazy allocation in `mutable`) in `KnownFields`.

## Not modelled

- **Error wording, `pbType` construction and struct tag parsing.** These are data with no control of their own.
- **Concurrent `Register`.** `Files` documents only Find and Range as safe for concurrent use, and spec section 5 says callers serialise `Register`.
- **The field locator (`part_001`).** It holds no state. Its one hazard, a pointer conversion to the wrong type, is what `mt_kind_check` already shows at the binder.
- **The rest of `src/dl/go1.10/main.go`.**
  - Lines 1-24 are a one-call wrapper.
  - The pack tests (lines 25-376) test the wire encoder `pack`, which is out of the spec's scope and whose implementation is not in `src/`.
- **Value aliasing in the impl tests.** `setFields{1: wantFS.Get(1)}` shares the Go slice or map with `want`. The model copies values. No test mutates a field it set that way.
