----------------------- MODULE RegistryRefinementProofs -----------------------
(***************************************************************************)
(* The trie of protoregistry.Files implements the abstract registry of    *)
(* RegistryAbstract, and a rejected file leaves the trie as it was.  Both  *)
(* rest on RInv, which adds to the namespace invariant IInv of             *)
(* RegistryProofs that the package nodes are exactly the non-empty         *)
(* prefixes of registered packages, and that a package node lists only    *)
(* files of that package.                                                  *)
(***************************************************************************)
EXTENDS RegistryProofs, SequenceTheorems

-----------------------------------------------------------------------------
(* Prefixes of packages.                                                   *)

\* Two sequences that agree on their first i elements have the same prefix
\* of length i.
LEMMA AgreeUpTo ==
  ASSUME NEW t \in Seq(Seg), NEW u \in Seq(Seg), NEW i \in Nat,
         i <= Len(t), i <= Len(u), \A j \in 1..i : t[j] = u[j]
  PROVE  Prefix(t, i) = Prefix(u, i)
BY DEF Prefix

\* The prefix of length b ends in a name whose package is the prefix of
\* length b - 1.
LEMMA PrefixIsAppend ==
  ASSUME NEW t \in Seq(Seg), NEW b \in 1..Len(t)
  PROVE  Prefix(t, b) = Append(Prefix(t, b - 1), t[b])
BY DEF Prefix

\* A full name determines its package.
LEMMA DeclNamePackage ==
  ASSUME NEW g \in FileIds, NEW s \in Seg, NEW t \in Seq(Seg), NEW r \in Seg,
         Append(Pkg[g], s) = Append(t, r)
  PROVE  Pkg[g] = t
<1>1. Pkg[g] \in Seq(Seg)
  BY PkgFacts
<1>2. QED
  BY <1>1, AppendInjective

\* A declared name is one segment longer than the package, so the walk,
\* which only touches prefixes of the package, leaves its entry alone.
LEMMA WalkedOffPath ==
  ASSUME NEW f \in FileIds, NEW s \in Seg
  PROVE  Walked(f)[Append(Pkg[f], s)] = subs[Append(Pkg[f], s)]
<1>1. Append(Pkg[f], s) \in NamePaths /\ Len(Append(Pkg[f], s)) = Len(Pkg[f]) + 1
  BY DeclNameFacts
<1>2. \A i \in 1..Len(Pkg[f]) : Append(Pkg[f], s) # Prefix(Pkg[f], i)
  BY <1>1, PrefixFacts
<1>3. QED
  BY <1>1, <1>2 DEF Walked

-----------------------------------------------------------------------------
(* A rejected file's walk creates nothing.                                 *)

(* When the walk of f meets a sentinel, or f's names conflict, every      *)
(* entry the walk would turn into a package node is already one: the      *)
(* conflict lies on the package of a registered file g that passes        *)
(* through that entry.                                                     *)
LEMMA RejectedWalkIsIdentity ==
  ASSUME RInv, NEW f \in FileIds, WalkBlocked(f) \/ Conflicts(f) # {}
  PROVE  Walked(f) = subs
<1> USE DEF RInv, IInv
<1>0. Pkg[f] \in Seq(Seg) /\ \A g \in Registered : g \in FileIds
  BY PkgFacts DEF TypeOK, Registered, Range
<1>1. ASSUME NEW i \in 1..Len(Pkg[f]),
             \A j \in 1..i - 1 : subs[Prefix(Pkg[f], j)] # NotProtoPackage,
             subs[Prefix(Pkg[f], i)] = NoEntry
      PROVE  FALSE
  <2>1. \E g \in Registered : i <= Len(Pkg[g]) /\ \A j \in 1..i : Pkg[g][j] = Pkg[f][j]
    <3>1. CASE WalkBlocked(f)
      <4>1. PICK b \in 1..Len(Pkg[f]) : subs[Prefix(Pkg[f], b)] = NotProtoPackage
        BY <3>1 DEF WalkBlocked
      <4>2. b > i
        BY <1>1, <4>1 DEF NoEntry, NotProtoPackage
      <4>3. Prefix(Pkg[f], b) \in NamePaths
        BY <4>1, PrefixFacts
      <4>4. PICK g \in Registered : Prefix(Pkg[f], b) \in DeclNames(g)
        BY <4>1, <4>3 DEF SentinelsAreDecls
      <4>5. PICK s \in Decls[g] : Prefix(Pkg[f], b) = Append(Pkg[g], s)
        BY <4>4 DEF DeclNames
      <4>6. Pkg[g] = Prefix(Pkg[f], b - 1)
        <5>1. Prefix(Pkg[f], b) = Append(Prefix(Pkg[f], b - 1), Pkg[f][b])
          BY <1>0, PrefixIsAppend
        <5>2. Prefix(Pkg[f], b - 1) \in Seq(Seg) /\ Pkg[f][b] \in Seg
          BY <1>0 DEF Prefix
        <5>3. g \in FileIds /\ s \in Seg
          BY <1>0, ConstantsAssumption
        <5>4. QED
          BY <4>5, <5>1, <5>2, <5>3, DeclNamePackage
      <4>7. QED
        BY <1>0, <4>2, <4>6 DEF Prefix
    <3>2. CASE Conflicts(f) # {}
      <4>1. PICK s \in Decls[f] : Walked(f)[Append(Pkg[f], s)] # NoEntry
        BY <3>2 DEF Conflicts
      <4> DEFINE m == Append(Pkg[f], s)
      <4>2. s \in Seg /\ m \in NamePaths /\ Len(m) = Len(Pkg[f]) + 1
        BY DeclNameFacts, ConstantsAssumption
      <4>3. subs[m] # NoEntry
        BY <4>1, <4>2, WalkedOffPath
      <4>4. CASE subs[m] = NotProtoPackage
        <5>1. PICK g \in Registered : m \in DeclNames(g)
          BY <4>2, <4>4 DEF SentinelsAreDecls
        <5>2. PICK t \in Decls[g] : m = Append(Pkg[g], t)
          BY <5>1 DEF DeclNames
        <5>3. g \in FileIds /\ t \in Seg
          BY <1>0, ConstantsAssumption
        <5>4. Pkg[g] = Pkg[f]
          BY <1>0, <4>2, <5>2, <5>3, DeclNamePackage
        <5>5. QED
          BY <5>4
      <4>5. CASE subs[m] = PackageNode
        <5>1. PICK g \in Registered : \E k \in 1..Len(Pkg[g]) : m = Prefix(Pkg[g], k)
          BY <4>2, <4>5 DEF PackagesAreRegistered
        <5>2. PICK k \in 1..Len(Pkg[g]) : m = Prefix(Pkg[g], k)
          BY <5>1
        <5>3. Pkg[g] \in Seq(Seg) /\ Len(Prefix(Pkg[g], k)) = k
          BY <1>0, PkgFacts, PrefixFacts
        <5>7. Len(m) = k
          BY <5>2, <5>3, Zenon
        <5>4. k = Len(Pkg[f]) + 1
          BY <4>2, <5>7
        <5>5. \A j \in 1..Len(Pkg[f]) : m[j] = Pkg[f][j] /\ Prefix(Pkg[g], k)[j] = Pkg[g][j]
          BY <1>0, <4>2, <5>3, <5>4 DEF Prefix
        <5>6. QED
          BY <5>2, <5>3, <5>4, <5>5
      <4>6. QED
        BY <4>2, <4>3, <4>4, <4>5 DEF TypeOK, EntryKinds
    <3>3. QED
      BY <3>1, <3>2
  <2>2. PICK g \in Registered : i <= Len(Pkg[g]) /\ \A j \in 1..i : Pkg[g][j] = Pkg[f][j]
    BY <2>1
  <2>3. Pkg[g] \in Seq(Seg)
    BY <1>0, PkgFacts
  <2>4. Prefix(Pkg[g], i) = Prefix(Pkg[f], i)
    BY <1>0, <2>2, <2>3, AgreeUpTo
  <2>5. subs[Prefix(Pkg[g], i)] = PackageNode
    BY <2>2 DEF PackagesArePresent
  <2>6. QED
    BY <1>1, <2>4, <2>5 DEF NoEntry, PackageNode
<1>2. \A n \in NamePaths : Walked(f)[n] = subs[n]
  BY <1>1 DEF Walked
<1>3. QED
  BY <1>2 DEF Walked, TypeOK

-----------------------------------------------------------------------------
(* RInv is inductive.                                                      *)

\* Either the trie and the package lists are left alone, or a file is
\* accepted.
LEMMA TrieStep ==
  ASSUME RInv, [Next]_vars
  PROVE  \/ subs' = subs /\ files' = files
         \/ \E f \in FileIds : Accept(f)
<1> USE DEF RInv, IInv
<1>1. CASE RegisterFile
  <2> DEFINE f == Head(pending)
  <2>1. f \in FileIds
    BY <1>1 DEF RegisterFile, TypeOK
  <2>2. CASE RejectOnPackage(f)
    BY <2>1, <2>2, RejectedWalkIsIdentity DEF RejectOnPackage
  <2>3. CASE RejectOnDeclaration(f)
    BY <2>1, <2>3, RejectedWalkIsIdentity, RolledBackIsWalked DEF RejectOnDeclaration
  <2>4. QED
    BY <1>1, <2>1, <2>2, <2>3 DEF RegisterFile, SkipPlaceholder
<1>2. QED
  BY <1>1 DEF Next, vars, RegisterBegin, RegisterEnd

LEMMA InitRInv == Init => RInv
<1> SUFFICES ASSUME Init PROVE RInv
  OBVIOUS
<1>1. IInv
  BY InitInv
<1>2. PackagesAreRegistered
  BY DEF Init, PackagesAreRegistered, NoEntry, PackageNode
<1>3. FilesAtPackage
  BY DEF Init, FilesAtPackage, Range
<1>4. QED
  BY <1>1, <1>2, <1>3 DEF RInv

LEMMA FrameKeepsRInv ==
  ASSUME RInv, TypeOK', subs' = subs, files' = files
  PROVE  RInv'
<1>1. Registered' = Registered
  BY DEF Registered
<1>2. QED
  BY <1>1, FrameKeepsInv DEF RInv, PackagesAreRegistered, FilesAtPackage

\* An accepted file's walk turns only prefixes of its own package into
\* package nodes, and the file joins the files of its own package.
LEMMA AcceptKeepsRInv ==
  ASSUME RInv, TypeOK', NEW f \in FileIds,
         ~WalkBlocked(f), Conflicts(f) = {},
         subs' = Inserted(f),
         files' = [files EXCEPT ![Pkg[f]] = Append(@, f)]
  PROVE  RInv'
<1>1. IInv'
  BY AcceptKeepsInv DEF RInv
<1>2. Registered' = Registered \cup {f}
  BY RegisteredAfterAppend DEF RInv, IInv
<1>3. PackagesAreRegistered'
  <2> SUFFICES ASSUME NEW n \in NamePaths, Inserted(f)[n] = PackageNode
               PROVE  \E g \in Registered' : \E i \in 1..Len(Pkg[g]) : n = Prefix(Pkg[g], i)
    BY DEF PackagesAreRegistered
  <2>1. Walked(f)[n] = PackageNode
    BY DEF Inserted, NotProtoPackage, PackageNode
  <2>2. CASE \E i \in 1..Len(Pkg[f]) : n = Prefix(Pkg[f], i)
    BY <1>2, <2>2
  <2>3. CASE subs[n] = PackageNode
    BY <1>2, <2>3 DEF RInv, PackagesAreRegistered
  <2>4. QED
    BY <2>1, <2>2, <2>3 DEF Walked
<1>4. FilesAtPackage'
  <2> SUFFICES ASSUME NEW p \in PkgPaths, NEW h \in Range(files'[p])
               PROVE  Pkg[h] = p
    BY DEF FilesAtPackage
  <2>1. Pkg[f] \in PkgPaths /\ files \in [PkgPaths -> Seq(FileIds)]
    BY ConstantsAssumption DEF RInv, IInv, TypeOK
  <2>2. CASE p = Pkg[f]
    <3>1. Range(files'[p]) = Range(files[p]) \cup {f}
      BY <2>1, <2>2, RangeAppend
    <3>2. QED
      BY <2>2, <3>1 DEF RInv, FilesAtPackage
  <2>3. CASE p # Pkg[f]
    BY <2>1, <2>3 DEF RInv, FilesAtPackage
  <2>4. QED
    BY <2>2, <2>3
<1>5. QED
  BY <1>1, <1>3, <1>4 DEF RInv

LEMMA RInvStep == RInv /\ [Next]_vars => RInv'
<1> SUFFICES ASSUME RInv, [Next]_vars PROVE RInv'
  OBVIOUS
<1>1. TypeOK'
  BY TypeStep DEF RInv, IInv
<1>2. CASE subs' = subs /\ files' = files
  BY <1>1, <1>2, FrameKeepsRInv
<1>3. CASE \E f \in FileIds : Accept(f)
  BY <1>1, <1>3, AcceptKeepsRInv DEF Accept
<1>4. QED
  BY <1>2, <1>3, TrieStep

LEMMA RInvInvariant == Spec => []RInv
BY InitRInv, RInvStep, PTL DEF Spec

-----------------------------------------------------------------------------
(* Per-file atomicity.                                                     *)

(* Whatever sequence of Register calls is made, a step of Register that   *)
(* does not append a file to a package node leaves the trie exactly as it *)
(* was: the rollback of a file rejected on a declaration deletes exactly  *)
(* the names it inserted, and neither kind of rejection has its package   *)
(* walk create a node.                                                    *)
THEOREM RejectAtomicHolds == Spec => RejectIsAtomic
<1>1. ASSUME NEW f \in FileIds, Accept(f), TypeOK
      PROVE  files' # files
  <2>1. Pkg[f] \in PkgPaths /\ files[Pkg[f]] \in Seq(FileIds)
    BY <1>1, ConstantsAssumption DEF TypeOK
  <2>5. files' = [files EXCEPT ![Pkg[f]] = Append(@, f)]
    BY <1>1 DEF Accept
  <2>6. files \in [PkgPaths -> Seq(FileIds)]
    BY <1>1 DEF TypeOK
  <2>2. files'[Pkg[f]] = Append(files[Pkg[f]], f)
    BY <2>1, <2>5, <2>6
  <2>3. Len(files'[Pkg[f]]) # Len(files[Pkg[f]])
    BY <2>1, <2>2
  <2>4. QED
    BY <2>3
<1>2. RInv /\ [Next]_vars => [files' = files => subs' = subs]_vars
  BY <1>1, TrieStep DEF RInv, IInv
<1>3. QED
  BY <1>2, RInvInvariant, PTL DEF Spec, RejectIsAtomic

-----------------------------------------------------------------------------
(* The trie decides as the abstract registry.                              *)

LEMMA PrefixIsPrefix ==
  ASSUME NEW t \in Seq(Seg), NEW b \in 1..Len(t)
  PROVE  IsPrefix(Prefix(t, b), t)
BY DEF IsPrefix, Prefix

\* The abstract count of a file is positive exactly when it is registered.
LEMMA CountIffRegistered ==
  ASSUME TypeOK, FilesAtPackage, NEW g \in FileIds
  PROVE  AbsReg[g] > 0 <=> g \in Registered
<1> DEFINE q == files[Pkg[g]]
           S == {k \in DOMAIN q : q[k] = g}
<1>1. Pkg[g] \in PkgPaths /\ q \in Seq(FileIds)
  BY ConstantsAssumption DEF TypeOK
<1>2. AbsReg[g] = Cardinality(S)
  BY DEF AbsReg, Occurrences
<1>3. IsFiniteSet(S) /\ Cardinality(S) \in Nat
  <2>1. IsFiniteSet(1..Len(q))
    BY FS_Interval
  <2>2. IsFiniteSet(S)
    BY <1>1, <2>1, FS_Subset
  <2>3. QED
    BY <2>2, FS_CardinalityType
<1>4. Cardinality(S) > 0 <=> S # {}
  BY <1>3, FS_EmptySet
<1>5. S # {} <=> g \in Range(q)
  BY <1>1 DEF Range
<1>6. g \in Registered <=> g \in Range(q)
  BY <1>1 DEF Registered, FilesAtPackage
<1>7. QED
  BY <1>2, <1>4, <1>5, <1>6

\* The two modules write the full names of a file alike.
LEMMA SameDeclNames == \A g \in FileIds : Abs!DeclNames(g) = DeclNames(g)
BY DEF Abs!DeclNames, DeclNames

LEMMA SameSeqOf == \A S, n : Abs!SeqOf(S, n) = SeqOf(S, n)
BY DEF Abs!SeqOf, SeqOf

LEMMA SameIsPrefix == \A u, t : Abs!IsPrefix(u, t) <=> IsPrefix(u, t)
BY DEF Abs!IsPrefix, IsPrefix

(* Register rejects a non-placeholder file, on its package walk or on a   *)
(* declaration, exactly when it collides with a registered file in the    *)
(* sense of the abstract registry.                                         *)
LEMMA RejectIffConflicting ==
  ASSUME RInv, NEW f \in FileIds
  PROVE  (WalkBlocked(f) \/ Conflicts(f) # {}) <=> Abs!Conflicting(f)
<1> USE DEF RInv, IInv
<1>0. /\ Pkg[f] \in Seq(Seg)
      /\ \A g \in Registered : g \in FileIds /\ Pkg[g] \in Seq(Seg)
  BY PkgFacts DEF TypeOK, Registered, Range
<1>1. Abs!Conflicting(f) <=> \E g \in Registered : Abs!Collide(f, g)
  BY <1>0, CountIffRegistered DEF Abs!Conflicting, Registered, Range, TypeOK
<1>2. ASSUME WalkBlocked(f) PROVE \E g \in Registered : Abs!Collide(f, g)
  <2>1. PICK b \in 1..Len(Pkg[f]) : subs[Prefix(Pkg[f], b)] = NotProtoPackage
    BY <1>2 DEF WalkBlocked
  <2>2. Prefix(Pkg[f], b) \in NamePaths
    BY PrefixFacts
  <2>3. PICK g \in Registered : Prefix(Pkg[f], b) \in DeclNames(g)
    BY <2>1, <2>2 DEF SentinelsAreDecls
  <2>4. IsPrefix(Prefix(Pkg[f], b), Pkg[f])
    BY <1>0, PrefixIsPrefix
  <2>5. Prefix(Pkg[f], b) \in Abs!DeclNames(g)
    BY <1>0, <2>3, SameDeclNames
  <2>6. Abs!Collide(f, g)
    BY <2>4, <2>5, SameIsPrefix DEF Abs!Collide
  <2>7. QED
    BY <2>6
<1>3. ASSUME Conflicts(f) # {} PROVE \E g \in Registered : Abs!Collide(f, g)
  <2>1. PICK s \in Decls[f] : Walked(f)[Append(Pkg[f], s)] # NoEntry
    BY <1>3 DEF Conflicts
  <2> DEFINE m == Append(Pkg[f], s)
  <2>2. s \in Seg /\ m \in NamePaths /\ m \in DeclNames(f)
    BY DeclNameFacts, ConstantsAssumption DEF DeclNames
  <2>3. subs[m] # NoEntry
    BY <2>1, <2>2, WalkedOffPath
  <2>4. CASE subs[m] = NotProtoPackage
    <3>1. PICK g \in Registered : m \in DeclNames(g)
      BY <2>2, <2>4 DEF SentinelsAreDecls
    <3>2. m \in Abs!DeclNames(f) \cap Abs!DeclNames(g)
      BY <1>0, <2>2, <3>1, SameDeclNames
    <3>3. Abs!Collide(f, g)
      BY <3>2 DEF Abs!Collide
    <3>4. QED
      BY <3>3
  <2>5. CASE subs[m] = PackageNode
    <3>1. PICK g \in Registered : \E k \in 1..Len(Pkg[g]) : m = Prefix(Pkg[g], k)
      BY <2>2, <2>5 DEF PackagesAreRegistered
    <3>2. PICK k \in 1..Len(Pkg[g]) : m = Prefix(Pkg[g], k)
      BY <3>1
    <3>3. IsPrefix(m, Pkg[g])
      BY <1>0, <3>2, PrefixIsPrefix
    <3>5. m \in Abs!DeclNames(f)
      BY <2>2, SameDeclNames
    <3>6. Abs!Collide(f, g)
      BY <3>3, <3>5, SameIsPrefix DEF Abs!Collide
    <3>4. QED
      BY <3>6
  <2>6. QED
    BY <2>2, <2>3, <2>4, <2>5 DEF TypeOK, EntryKinds
<1>4. ASSUME NEW g \in Registered, Abs!Collide(f, g), ~WalkBlocked(f)
      PROVE  Conflicts(f) # {}
  <2>0. g \in FileIds /\ Pkg[g] \in Seq(Seg)
    BY <1>0
  <2>1. \E s \in Decls[f] : subs[Append(Pkg[f], s)] # NoEntry
    <3>1. CASE \E n \in DeclNames(f) \cap DeclNames(g) : TRUE
      <4>1. PICK s \in Decls[f] : Append(Pkg[f], s) \in DeclNames(g)
        BY <3>1 DEF DeclNames
      <4>2. Append(Pkg[f], s) \in NamePaths
        BY DeclNameFacts, ConstantsAssumption
      <4>3. subs[Append(Pkg[f], s)] = NotProtoPackage
        BY <4>1, <4>2 DEF SentinelsAreDecls
      <4>4. QED
        BY <4>3 DEF NoEntry, NotProtoPackage
    <3>2. CASE \E n \in DeclNames(f) : IsPrefix(n, Pkg[g])
      <4>1. PICK s \in Decls[f] : IsPrefix(Append(Pkg[f], s), Pkg[g])
        BY <3>2 DEF DeclNames
      <4>2. Append(Pkg[f], s) \in Seq(Seg) /\ Len(Append(Pkg[f], s)) >= 1
        BY <1>0, ConstantsAssumption
      <4>3. Len(Append(Pkg[f], s)) \in 1..Len(Pkg[g])
            /\ Append(Pkg[f], s) = Prefix(Pkg[g], Len(Append(Pkg[f], s)))
        BY <2>0, <4>1, <4>2, IsPrefixAsPrefix
      <4>4. subs[Append(Pkg[f], s)] = PackageNode
        BY <4>3 DEF PackagesArePresent
      <4>5. QED
        BY <4>4 DEF NoEntry, PackageNode
    <3>3. CASE \E n \in DeclNames(g) : IsPrefix(n, Pkg[f])
      <4>1. PICK n \in DeclNames(g) : IsPrefix(n, Pkg[f])
        BY <3>3
      <4>2. PICK t \in Decls[g] : n = Append(Pkg[g], t)
        BY DEF DeclNames
      <4>3. n \in Seq(Seg) /\ Len(n) >= 1 /\ n \in NamePaths
        BY <2>0, <4>2, DeclNameFacts, ConstantsAssumption
      <4>4. Len(n) \in 1..Len(Pkg[f]) /\ n = Prefix(Pkg[f], Len(n))
        BY <1>0, <4>1, <4>3, IsPrefixAsPrefix
      <4>5. subs[n] = NotProtoPackage
        BY <4>1, <4>3 DEF SentinelsAreDecls
      <4>6. QED
        BY <1>4, <4>4, <4>5 DEF WalkBlocked
    <3>4. QED
      BY <1>4, <2>0, <3>1, <3>2, <3>3, SameDeclNames, SameIsPrefix DEF Abs!Collide
  <2>2. PICK s \in Decls[f] : subs[Append(Pkg[f], s)] # NoEntry
    BY <2>1
  <2>3. s \in Seg
    BY ConstantsAssumption
  <2>4. Walked(f)[Append(Pkg[f], s)] # NoEntry
    BY <2>2, <2>3, WalkedOffPath
  <2>5. QED
    BY <2>4 DEF Conflicts
<1>5. QED
  BY <1>1, <1>2, <1>3, <1>4

-----------------------------------------------------------------------------
(* The refinement.                                                         *)

LEMMA InitRefines == Init => Abs!AbsInit
<1> SUFFICES ASSUME Init PROVE Abs!AbsInit
  OBVIOUS
<1>1. \A f \in FileIds : files[Pkg[f]] = << >>
  BY ConstantsAssumption DEF Init
<1>2. AbsReg = [f \in FileIds |-> 0]
  BY <1>1, OccEmpty DEF AbsReg
<1>3. QED
  BY <1>2 DEF Init, Abs!AbsInit

\* A step that leaves the package lists alone leaves the abstract registry
\* alone.
LEMMA SameFilesSameReg ==
  ASSUME files' = files
  PROVE  AbsReg' = AbsReg
BY DEF AbsReg

\* Accepting h counts it once more, and no other file.
LEMMA AcceptRefines ==
  ASSUME TypeOK, NEW h \in FileIds, Accept(h)
  PROVE  AbsReg' = [AbsReg EXCEPT ![h] = @ + 1]
<1>1. AbsReg' = [f \in FileIds |-> Occurrences(files'[Pkg[f]], f)]
  BY DEF AbsReg
<1>2. \A f \in FileIds : Occurrences(files'[Pkg[f]], f)
                          = Occurrences(files[Pkg[f]], f) + (IF h = f THEN 1 ELSE 0)
  BY AcceptCount
<1>3. AbsReg = [f \in FileIds |-> Occurrences(files[Pkg[f]], f)]
  BY DEF AbsReg
<1>4. ASSUME NEW f \in FileIds
      PROVE  AbsReg'[f] = [AbsReg EXCEPT ![h] = AbsReg[h] + 1][f]
  <2>1. AbsReg'[f] = Occurrences(files'[Pkg[f]], f) /\ AbsReg[f] = Occurrences(files[Pkg[f]], f)
    BY <1>1, <1>3
  <2>2. CASE f = h
    BY <1>2, <1>3, <2>1, <2>2
  <2>3. CASE f # h
    <3>1. Occurrences(files'[Pkg[f]], f) = Occurrences(files[Pkg[f]], f) + 0
      BY <1>2, <2>3
    <3>2. Occurrences(files[Pkg[f]], f) \in Nat
      BY OccNat, ConstantsAssumption DEF TypeOK
    <3>3. QED
      BY <1>3, <2>1, <2>3, <3>1, <3>2
  <2>4. QED
    BY <2>2, <2>3
<1>5. DOMAIN AbsReg' = FileIds /\ DOMAIN [AbsReg EXCEPT ![h] = AbsReg[h] + 1] = FileIds
  BY <1>1, <1>3
<1>6. QED
  BY <1>4, <1>5, <1>1, <1>3

LEMMA StepRefines == RInv /\ [Next]_vars => [Abs!AbsNext]_Abs!absVars
<1> SUFFICES ASSUME RInv, [Next]_vars PROVE [Abs!AbsNext]_Abs!absVars
  OBVIOUS
<1> USE DEF RInv, IInv
<1>1. CASE RegisterBegin
  <2>1. AbsReg' = AbsReg
    BY <1>1, SameFilesSameReg DEF RegisterBegin
  <2>2. Abs!Begin
    BY <1>1, <2>1, SameSeqOf DEF RegisterBegin, Abs!Begin
  <2>3. QED
    BY <2>2 DEF Abs!AbsNext
<1>2. CASE RegisterEnd
  <2>1. AbsReg' = AbsReg
    BY <1>2, SameFilesSameReg DEF RegisterEnd
  <2>2. Abs!End
    BY <1>2, <2>1 DEF RegisterEnd, Abs!End
  <2>3. QED
    BY <2>2 DEF Abs!AbsNext
<1>3. CASE UNCHANGED vars
  <2>1. AbsReg' = AbsReg
    BY <1>3, SameFilesSameReg DEF vars
  <2>2. QED
    BY <1>3, <2>1 DEF vars, Abs!absVars
<1>4. CASE RegisterFile
  <2> DEFINE f == Head(pending)
  <2>1. /\ pc = "registering" /\ pending # << >>
        /\ pending' = Tail(pending) /\ UNCHANGED <<pc, calls>>
        /\ f \in FileIds
    BY <1>4 DEF RegisterFile, TypeOK
  <2>2. CASE SkipPlaceholder(f)
    <3>1. AbsReg' = AbsReg
      BY <2>2, SameFilesSameReg DEF SkipPlaceholder
    <3>2. QED
      BY <2>1, <2>2, <3>1 DEF SkipPlaceholder, Abs!AbsNext, Abs!Step
  <2>3. CASE RejectOnPackage(f) \/ RejectOnDeclaration(f)
    <3>1. AbsReg' = AbsReg /\ f \notin Placeholder /\ RecordErr(f)
      BY <2>3, SameFilesSameReg DEF RejectOnPackage, RejectOnDeclaration
    <3>2. Abs!Conflicting(f)
      BY <2>1, <2>3, RejectIffConflicting DEF RejectOnPackage, RejectOnDeclaration
    <3>3. QED
      BY <2>1, <3>1, <3>2 DEF RecordErr, Abs!AbsNext, Abs!Step
  <2>4. CASE Accept(f)
    <3>1. AbsReg' = [AbsReg EXCEPT ![f] = @ + 1]
      BY <2>1, <2>4, AcceptRefines
    <3>2. ~Abs!Conflicting(f)
      BY <2>1, <2>4, RejectIffConflicting DEF Accept
    <3>3. f \notin Placeholder /\ UNCHANGED firstErr
      BY <2>4 DEF Accept
    <3>4. QED
      BY <2>1, <3>1, <3>2, <3>3 DEF Abs!AbsNext, Abs!Step
  <2>5. QED
    BY <1>4, <2>2, <2>3, <2>4 DEF RegisterFile
<1>5. QED
  BY <1>1, <1>2, <1>3, <1>4 DEF Next

(* Whatever sequence of Register calls is made, the trie, its rollback    *)
(* and its package lists behave as the registry of spec section 4.5: a    *)
(* file is accepted exactly when none of its full names collides with a   *)
(* name or a package prefix of a registered file, and otherwise is        *)
(* rejected leaving the registry as it was.                               *)
THEOREM RefinementHolds == Spec => ImplementsAbstract
<1>1. QED
  BY InitRefines, StepRefines, RInvInvariant, PTL
     DEF Spec, ImplementsAbstract, Abs!AbsSpec

=============================================================================
