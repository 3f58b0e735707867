------------------------------ MODULE Registry ------------------------------
(***************************************************************************)
(* The descriptor registry protoregistry.Files (src/unnamed/part_002).    *)
(*                                                                         *)
(* The trie filesByPackage is represented by the full path of each node:   *)
(* subs[n] is the entry that the node at Front(n) holds for the segment    *)
(* Last(n) in its subs map: NoEntry (nil), NotProtoPackage (the sentinel   *)
(* marking a top-level declaration) or PackageNode (a *filesByPackage).    *)
(* files[p] is the files list of the package node at path p; filesByPath   *)
(* is the path multimap.  A Register call walks its argument list one      *)
(* file per step; pending holds the files still to be processed and        *)
(* firstErr the error the call will return (the file it names).           *)
(***************************************************************************)
EXTENDS Naturals, Sequences, FiniteSets, SequencesExt

CONSTANTS
  Seg,          \* name segments (protoreflect.Name), model values
  FileIds,      \* file descriptors, model values
  Paths,        \* file paths (FileDescriptor.Path()), model values
  Pkg,          \* Pkg[f]: the package of f as a sequence of segments
  Decls,        \* Decls[f]: the top-level names f declares
  FilePath,     \* FilePath[f]: the path of f
  Placeholder,  \* the files with IsPlaceholder()
  MaxDepth,     \* bound on the number of segments of a package
  MaxBatch,     \* bound on the number of files passed to one Register call
  MaxCalls,     \* bound on the number of Register calls
  NoErr         \* Register's nil error

NoEntry == "nil"
NotProtoPackage == "notProtoPackage"
PackageNode == "pkg"
EntryKinds == {NoEntry, NotProtoPackage, PackageNode}

PkgPaths == SeqOf(Seg, MaxDepth)                \* paths of package nodes
NamePaths == SeqOf(Seg, MaxDepth + 1) \ {<<>>}  \* keys of subs entries

ASSUME ConstantsAssumption ==
  /\ MaxDepth \in Nat
  /\ MaxBatch \in Nat \ {0}
  /\ MaxCalls \in Nat
  /\ Pkg \in [FileIds -> PkgPaths]
  /\ Decls \in [FileIds -> SUBSET Seg]
  /\ FilePath \in [FileIds -> Paths]
  /\ Placeholder \subseteq FileIds
  /\ NoErr \notin FileIds

VARIABLES
  subs,         \* the trie, see above
  files,        \* files[p]: filesByPackage.files of the node at p
  filesByPath,  \* Files.filesByPath
  pc,           \* "idle" or "registering" (inside a Register call)
  pending,      \* files of the running call not yet processed
  firstErr,     \* the call's firstErr: NoErr or the first rejected file
  calls         \* number of Register calls so far (bounded by MaxCalls)

vars == <<subs, files, filesByPath, pc, pending, firstErr, calls>>

-----------------------------------------------------------------------------
(* Helpers                                                                 *)

\* The first i segments of the dotted name s, as splitPrefix peels them.
Prefix(s, i) == SubSeq(s, 1, i)

\* The full names f contributes through rangeTopLevelDeclarations.
DeclNames(f) == {Append(Pkg[f], s) : s \in Decls[f]}

\* The files the registry holds: those of some package node.
Registered == UNION {Range(files[p]) : p \in PkgPaths}

-----------------------------------------------------------------------------
(* Register (part_002 lines 99-182), one file of the argument list at a   *)
(* time.                                                                   *)

\* The package walk: a missing segment gets a new node; the walk stops at
\* the first segment that is a top-level declaration (NotProtoPackage),
\* keeping the nodes it already created.
WalkBlocked(f) ==
  \E i \in 1..Len(Pkg[f]) : subs[Prefix(Pkg[f], i)] = NotProtoPackage

Walked(f) ==
  [n \in NamePaths |->
     IF /\ \E i \in 1..Len(Pkg[f]) :
             /\ n = Prefix(Pkg[f], i)
             /\ \A j \in 1..i - 1 : subs[Prefix(Pkg[f], j)] # NotProtoPackage
        /\ subs[n] = NoEntry
     THEN PackageNode
     ELSE subs[n]]

\* The top-level names of f that are already taken at its package node,
\* by a declaration or by a sub-package.
\* Mutant: only declarations count as conflicts, sub-packages do not.
ConflictsDeclOnly(f) ==
  {s \in Decls[f] : Walked(f)[Append(Pkg[f], s)] = NotProtoPackage}

Conflicts(f) == {s \in Decls[f] : Walked(f)[Append(Pkg[f], s)] # NoEntry}

\* Every free top-level name of f is marked NotProtoPackage.
Inserted(f) ==
  [n \in NamePaths |->
     IF n \in DeclNames(f) /\ Walked(f)[n] = NoEntry
     THEN NotProtoPackage ELSE Walked(f)[n]]

\* On a conflict, every name of f that is not a conflict is deleted again.
\* Mutant: a rejected file's inserted names are not removed.
RolledBackKeepAll(f) == Inserted(f)

\* Mutant: the rollback deletes every name of f, the conflicting ones (which
\* belong to other files) included.
RolledBackAll(f) ==
  [n \in NamePaths |-> IF n \in DeclNames(f) THEN NoEntry ELSE Inserted(f)[n]]

RolledBack(f) ==
  [n \in NamePaths |->
     IF n \in {Append(Pkg[f], s) : s \in Decls[f] \ Conflicts(f)}
     THEN NoEntry ELSE Inserted(f)[n]]

RecordErr(f) == firstErr' = IF firstErr = NoErr THEN f ELSE firstErr

SkipPlaceholder(f) ==
  /\ f \in Placeholder
  /\ UNCHANGED <<subs, files, filesByPath, firstErr>>

RejectOnPackage(f) ==
  /\ f \notin Placeholder
  /\ WalkBlocked(f)
  /\ subs' = Walked(f)
  /\ RecordErr(f)
  /\ UNCHANGED <<files, filesByPath>>

\* Mutant: the path is indexed before the top-level conflict check.
RejectOnDeclarationIndexed(f) ==
  /\ f \notin Placeholder
  /\ ~WalkBlocked(f)
  /\ Conflicts(f) # {}
  /\ subs' = RolledBack(f)
  /\ RecordErr(f)
  /\ filesByPath' = [filesByPath EXCEPT ![FilePath[f]] = Append(@, f)]
  /\ UNCHANGED files

RejectOnDeclaration(f) ==
  /\ f \notin Placeholder
  /\ ~WalkBlocked(f)
  /\ Conflicts(f) # {}
  /\ subs' = RolledBack(f)
  /\ RecordErr(f)
  /\ UNCHANGED <<files, filesByPath>>

Accept(f) ==
  /\ f \notin Placeholder
  /\ ~WalkBlocked(f)
  /\ Conflicts(f) = {}
  /\ subs' = Inserted(f)
  /\ files' = [files EXCEPT ![Pkg[f]] = Append(@, f)]
  /\ filesByPath' = [filesByPath EXCEPT ![FilePath[f]] = Append(@, f)]
  /\ UNCHANGED firstErr

\* Register(files...) is entered with a list of at most MaxBatch files.
RegisterBegin ==
  /\ pc = "idle"
  /\ calls < MaxCalls
  /\ \E batch \in SeqOf(FileIds, MaxBatch) :
       /\ pending' = batch
  /\ pc' = "registering"
  /\ firstErr' = NoErr
  /\ calls' = calls + 1
  /\ UNCHANGED <<subs, files, filesByPath>>

\* One iteration of fileLoop.
RegisterFile ==
  /\ pc = "registering"
  /\ pending # <<>>
  /\ LET f == Head(pending) IN
       \/ SkipPlaceholder(f)
       \/ RejectOnPackage(f)
       \/ RejectOnDeclaration(f)
       \/ Accept(f)
  /\ pending' = Tail(pending)
  /\ UNCHANGED <<pc, calls>>

\* return firstErr
RegisterEnd ==
  /\ pc = "registering"
  /\ pending = <<>>
  /\ pc' = "idle"
  /\ UNCHANGED <<subs, files, filesByPath, pending, firstErr, calls>>

Init ==
  /\ subs = [n \in NamePaths |-> NoEntry]
  /\ files = [p \in PkgPaths |-> <<>>]
  /\ filesByPath = [p \in Paths |-> <<>>]
  /\ pc = "idle"
  /\ pending = <<>>
  /\ firstErr = NoErr
  /\ calls = 0

Next == RegisterBegin \/ RegisterFile \/ RegisterEnd

Spec == Init /\ [][Next]_vars

-----------------------------------------------------------------------------
(* Lookups (part_002 lines 184-272).  They change no state, so they are   *)
(* operators evaluated in every reachable state.                           *)

NotFound == "NotFound"

(* A protoreflect.FullName is a string of identifiers and dots.  Each     *)
(* identifier is one token, a member of Seg; Dot is the byte '.'.  Every  *)
(* string of at most 2 * MaxDepth + 1 tokens with no two identifiers      *)
(* side by side is a name a caller may pass, malformed ones included      *)
(* ("a.", ".a", "a..b").                                                   *)
Dot == "."

DottedNames ==
  {s \in SeqOf(Seg \cup {Dot}, 2 * MaxDepth + 1) :
     \A i \in 1..Len(s) - 1 : s[i] = Dot \/ s[i + 1] = Dot}

\* The full name of a path of segments: its segments joined by dots.
Dotted(n) == [i \in 1..2 * Len(n) - 1 |-> IF i % 2 = 1 THEN n[(i + 1) \div 2] ELSE Dot]

\* splitPrefix: the name before the first dot and the rest after it.
SplitPrefix(s) ==
  LET i == SelectInSeq(s, LAMBDA c : c = Dot)
  IN  IF i > 0 THEN <<SubSeq(s, 1, i - 1), SubSeq(s, i + 1, Len(s))>>
               ELSE <<s, <<>>>>

\* Rests(s)[k]: what is left of s after k iterations of "for len(pkg) > 0".
Rests(s) ==
  LET r[k \in 0..Len(s)] ==
        IF k = 0 THEN s
        ELSE IF r[k - 1] = <<>> THEN <<>> ELSE SplitPrefix(r[k - 1])[2]
  IN  r

\* The names the loop looks up in subs, one per iteration.
Pieces(s) ==
  LET N == Min({k \in 0..Len(s) : Rests(s)[k] = <<>>})
  IN  [k \in 1..N |-> SplitPrefix(Rests(s)[k - 1])[1]]

\* The trie node after the first k pieces, when each piece is an identifier.
Path(s, k) == [j \in 1..k |-> Pieces(s)[j][1]]

\* root.subs[prefix] is a package node for each of the first k pieces.  An
\* empty Name is no key of subs (invariant: len(Name) > 0).
Walkable(s, k) ==
  /\ \A j \in 1..k : Len(Pieces(s)[j]) = 1
  /\ \A j \in 1..k : subs[Path(s, j)] = PackageNode

\* The walk of FindDescriptorByName meets the notProtoPackage sentinel at
\* piece i.
SentinelAt(s, i) ==
  /\ Walkable(s, i - 1)
  /\ Len(Pieces(s)[i]) = 1
  /\ subs[Path(s, i)] = NotProtoPackage

\* fd.DescriptorByName(s) # nil: s is the full name of a top-level
\* declaration of g (nested declarations are not modelled).
DescribedBy(g, s) == \E n \in DeclNames(g) : Dotted(n) = s

\* Mutant: the scan returns the first file without asking DescriptorByName.
ScanFilesFirst(fs, s) == IF fs # <<>> THEN fs[1] ELSE NotFound

\* The linear scan of root.files: the first file that describes s.
ScanFiles(fs, s) ==
  IF \E k \in DOMAIN fs : DescribedBy(fs[k], s)
  THEN fs[CHOOSE k \in DOMAIN fs :
            /\ DescribedBy(fs[k], s)
            /\ \A l \in 1..k - 1 : ~DescribedBy(fs[l], s)]
  ELSE NotFound

\* A nil entry ends the walk with NotFound; at the sentinel the files of
\* the current node are scanned for the whole name s.
FindDescriptorByName(s) ==
  IF \E i \in DOMAIN Pieces(s) : SentinelAt(s, i)
  THEN LET i == CHOOSE i \in DOMAIN Pieces(s) : SentinelAt(s, i)
       IN  ScanFiles(files[Path(s, i - 1)], s)
  ELSE NotFound

\* A package node at path p is reachable when every segment of p is a
\* package node (a NotProtoPackage sentinel has no files and no subs).
Reachable(p) == \A i \in 1..Len(p) : subs[Prefix(p, i)] = PackageNode

\* rangeFiles(root) for the package node at path q: the exact matches and
\* the files of every sub-package below it.
RangeFilesAt(q) ==
  UNION {Range(files[p]) : p \in {p \in PkgPaths : IsPrefix(q, p) /\ Reachable(p)}}

\* strings.HasSuffix(pkg, ".")
HasTrailingDot(s) == s # <<>> /\ Last(s) = Dot

\* Mutant: the trailing-dot check of line 230 is dropped.
RangeFilesByPackageNoDotCheck(s) ==
  IF Walkable(s, Len(Pieces(s))) THEN RangeFilesAt(Path(s, Len(Pieces(s)))) ELSE {}

\* The walk stops at a nil entry; a sentinel becomes the root, whose nil
\* subs end it on the next piece, and rangeFiles finds nothing there.
RangeFilesByPackage(s) ==
  IF HasTrailingDot(s) THEN {}
  ELSE IF Walkable(s, Len(Pieces(s))) THEN RangeFilesAt(Path(s, Len(Pieces(s)))) ELSE {}

RangeFiles == RangeFilesByPackage(<<>>)

-----------------------------------------------------------------------------
(* Properties                                                              *)

TypeOK ==
  /\ subs \in [NamePaths -> EntryKinds]
  /\ files \in [PkgPaths -> Seq(FileIds)]
  /\ filesByPath \in [Paths -> Seq(FileIds)]
  /\ pc \in {"idle", "registering"}
  /\ pending \in Seq(FileIds)
  /\ firstErr \in FileIds \cup {NoErr}
  /\ calls \in 0..MaxCalls

(* The namespace the registry holds is consistent (spec section 3): no    *)
(* two registered files declare the same full name, a file that declares  *)
(* anything is registered at most once, and no declared full name is a    *)
(* package, or a prefix of the package, of a registered file.  Register    *)
(* keeps it through the walk's NotProtoPackage check, the subs[s] == nil   *)
(* check on every top-level name and the rollback of a rejected file.      *)
NameUnique ==
  \A f, g \in Registered : f # g => DeclNames(f) \cap DeclNames(g) = {}

RegisteredOnce ==
  \A p \in PkgPaths : \A k, l \in DOMAIN files[p] :
     k # l /\ files[p][k] = files[p][l] => Decls[files[p][k]] = {}

NoNameShadowsPackage ==
  \A f, g \in Registered : \A n \in DeclNames(f) : ~IsPrefix(n, Pkg[g])

NamespaceConsistent == NameUnique /\ RegisteredOnce /\ NoNameShadowsPackage

\* The registered file that declares the full name s, if any.
Owner(s) ==
  IF \E f \in Registered : DescribedBy(f, s)
  THEN CHOOSE f \in Registered : DescribedBy(f, s)
  ELSE NotFound

(* FindDescriptorByName resolves the full name of every top-level         *)
(* declaration to the one registered file that declares it, and every     *)
(* other string (a package, a nested or malformed name such as "a.b.",   *)
(* an undeclared name) to NotFound, in every state that any sequence of   *)
(* Register calls, with their rejections, leads to.                       *)
FindResolves ==
  \A s \in DottedNames : FindDescriptorByName(s) = Owner(s)

(* RangeFilesByPackage(s) visits exactly the registered files whose       *)
(* package is s or lies below s, for every string s: no registered file   *)
(* is hidden behind a sentinel or an unreachable node, and a malformed    *)
(* name ("a.", ".a", "a..b"), which no package has as a prefix, visits    *)
(* nothing.                                                                *)
RangeComplete ==
  \A s \in DottedNames :
     RangeFilesByPackage(s) =
       {f \in Registered : \E i \in 0..Len(Pkg[f]) : Dotted(Prefix(Pkg[f], i)) = s}

\* The number of times f occurs in the sequence s.
Occurrences(s, f) == Cardinality({k \in DOMAIN s : s[k] = f})

(* RangeFilesByPath(p) enumerates every registered file of path p, as    *)
(* many times as it was registered, and nothing else: Register appends a  *)
(* file to filesByPath exactly when it appends it to its package node.   *)
ByPathConsistent ==
  \A f \in FileIds :
     /\ Occurrences(filesByPath[FilePath[f]], f) = Occurrences(files[Pkg[f]], f)
     /\ \A p \in Paths \ {FilePath[f]} : Occurrences(filesByPath[p], f) = 0

-----------------------------------------------------------------------------
(* The inductive strengthening of NamespaceConsistent used by the proof in *)
(* RegistryProofs: the NotProtoPackage sentinels are exactly the full     *)
(* names of registered files, and every segment of a registered file's    *)
(* package is a package node.                                             *)

SentinelsAreDecls ==
  \A n \in NamePaths :
     subs[n] = NotProtoPackage <=> \E f \in Registered : n \in DeclNames(f)

PackagesArePresent ==
  \A f \in Registered : \A i \in 1..Len(Pkg[f]) :
     subs[Prefix(Pkg[f], i)] = PackageNode

IInv ==
  /\ TypeOK
  /\ SentinelsAreDecls
  /\ PackagesArePresent
  /\ NamespaceConsistent

(* The further conjuncts the refinement proof needs: every package node   *)
(* lies on the package of a registered file (a rejected file's walk left  *)
(* none behind), and a package node lists only files of that package.    *)
PackagesAreRegistered ==
  \A n \in NamePaths : subs[n] = PackageNode =>
     \E f \in Registered : \E i \in 1..Len(Pkg[f]) : n = Prefix(Pkg[f], i)

FilesAtPackage == \A p \in PkgPaths : \A f \in Range(files[p]) : Pkg[f] = p

RInv == IInv /\ PackagesAreRegistered /\ FilesAtPackage

(* A Register step that adds no file to a package node leaves the trie   *)
(* exactly as it was before: the rollback of lines 152-161 deletes just   *)
(* the names the rejected file inserted, and a rejected file's package    *)
(* walk (lines 115-137) never gets to create a node, because the conflict *)
(* it meets lies below nodes that registered files already hold.  This is *)
(* the per-file atomicity of spec section 4.5.                           *)
RejectIsAtomic == [][files' = files => subs' = subs]_vars

-----------------------------------------------------------------------------
(* Refinement: the trie implements RegistryAbstract.  A file counts as    *)
(* registered as often as it occurs in the files list of its package.     *)

AbsReg == [f \in FileIds |-> Occurrences(files[Pkg[f]], f)]

Abs == INSTANCE RegistryAbstract WITH reg <- AbsReg

(* Register accepts exactly the files whose names collide with nothing   *)
(* registered, and a rejected file leaves no trace in the registry: the   *)
(* trie's decisions are those of the abstract registry of section 4.5.    *)
ImplementsAbstract == Abs!AbsSpec

=============================================================================
