--------------------------- MODULE RegistryProofs ---------------------------
(***************************************************************************)
(* Proofs about the registry trie of module Registry, for every value of  *)
(* the constants that satisfies ConstantsAssumption.                       *)
(***************************************************************************)
EXTENDS Registry, FiniteSetTheorems, TLAPS

LEMMA SeqOfIsSeq ==
  ASSUME NEW S, NEW n \in Nat
  PROVE  SeqOf(S, n) \subseteq Seq(S)
BY DEF SeqOf

LEMMA PathsAreSeqs ==
  /\ PkgPaths \subseteq Seq(Seg)
  /\ NamePaths \subseteq Seq(Seg)
BY ConstantsAssumption, SeqOfIsSeq DEF PkgPaths, NamePaths

LEMMA PkgFacts ==
  ASSUME NEW f \in FileIds
  PROVE  /\ Pkg[f] \in Seq(Seg)
         /\ Len(Pkg[f]) \in 0..MaxDepth
<1>1. Pkg[f] \in SeqOf(Seg, MaxDepth)
  BY ConstantsAssumption DEF PkgPaths
<1>2. PICK m \in 0..MaxDepth : Pkg[f] \in [1..m -> Seg]
  BY <1>1, ConstantsAssumption DEF SeqOf
<1>3. QED
  BY <1>2, ConstantsAssumption

\* A non-empty sequence of at most MaxDepth + 1 segments is a subs key.
LEMMA InNamePaths ==
  ASSUME NEW n \in Seq(Seg), Len(n) \in 1..MaxDepth + 1
  PROVE  n \in NamePaths
<1>1. n \in [1..Len(n) -> Seg]
  OBVIOUS
<1>2. n # <<>>
  OBVIOUS
<1>3. Len(n) \in 0..MaxDepth + 1
  BY ConstantsAssumption
<1>4. n \in SeqOf(Seg, MaxDepth + 1)
  BY <1>1, <1>3, Zenon DEF SeqOf
<1>5. QED
  BY <1>2, <1>4 DEF NamePaths

LEMMA DeclNameFacts ==
  ASSUME NEW f \in FileIds, NEW s \in Seg
  PROVE  /\ Append(Pkg[f], s) \in NamePaths
         /\ Len(Append(Pkg[f], s)) = Len(Pkg[f]) + 1
<1>1. Pkg[f] \in Seq(Seg) /\ Len(Pkg[f]) \in 0..MaxDepth
  BY PkgFacts
<1>2. Append(Pkg[f], s) \in Seq(Seg) /\ Len(Append(Pkg[f], s)) = Len(Pkg[f]) + 1
  BY <1>1
<1>3. Len(Append(Pkg[f], s)) \in 1..MaxDepth + 1
  BY <1>1, <1>2, ConstantsAssumption
<1>4. QED
  BY <1>2, <1>3, InNamePaths

LEMMA PrefixFacts ==
  ASSUME NEW f \in FileIds, NEW i \in 1..Len(Pkg[f])
  PROVE  /\ Prefix(Pkg[f], i) \in NamePaths
         /\ Len(Prefix(Pkg[f], i)) = i
<1>1. Pkg[f] \in Seq(Seg) /\ Len(Pkg[f]) \in 0..MaxDepth
  BY PkgFacts
<1>2. Prefix(Pkg[f], i) \in Seq(Seg) /\ Len(Prefix(Pkg[f], i)) = i
  BY <1>1 DEF Prefix
<1>3. Len(Prefix(Pkg[f], i)) \in 1..MaxDepth + 1
  BY <1>1, <1>2, ConstantsAssumption
<1>4. QED
  BY <1>2, <1>3, InNamePaths

\* A non-empty prefix n of t is the prefix of t of length Len(n).
LEMMA IsPrefixAsPrefix ==
  ASSUME NEW n \in Seq(Seg), NEW t \in Seq(Seg), Len(n) >= 1, IsPrefix(n, t)
  PROVE  /\ Len(n) \in 1..Len(t)
         /\ n = Prefix(t, Len(n))
<1>1. SubSeq(n, 1, Len(n)) = n
  OBVIOUS
<1>2. QED
  BY <1>1 DEF IsPrefix, Prefix

(* A step keeps the types of TypeOK.                                     *)
LEMMA TypeStep == TypeOK /\ [Next]_vars => TypeOK'
<1> SUFFICES ASSUME TypeOK, [Next]_vars PROVE TypeOK'
  OBVIOUS
<1>1. CASE RegisterBegin
  BY <1>1, SeqOfIsSeq, ConstantsAssumption DEF RegisterBegin, TypeOK
<1>2. CASE RegisterFile
  <2> DEFINE f == Head(pending)
  <2>1. f \in FileIds
    BY <1>2 DEF RegisterFile, TypeOK
  <2>2. Walked(f) \in [NamePaths -> EntryKinds]
    BY DEF Walked, TypeOK, EntryKinds
  <2>3. Inserted(f) \in [NamePaths -> EntryKinds]
    BY <2>2 DEF Inserted, EntryKinds
  <2>4. RolledBack(f) \in [NamePaths -> EntryKinds]
    BY <2>3 DEF RolledBack, EntryKinds
  <2>5. Tail(pending) \in Seq(FileIds)
    BY <1>2 DEF RegisterFile, TypeOK
  <2>6. CASE SkipPlaceholder(f)
    BY <1>2, <2>5, <2>6 DEF RegisterFile, SkipPlaceholder, TypeOK
  <2>7. CASE RejectOnPackage(f)
    BY <1>2, <2>1, <2>2, <2>5, <2>7 DEF RegisterFile, RejectOnPackage, RecordErr, TypeOK
  <2>8. CASE RejectOnDeclaration(f)
    BY <1>2, <2>1, <2>4, <2>5, <2>8 DEF RegisterFile, RejectOnDeclaration, RecordErr, TypeOK
  <2>9. CASE Accept(f)
    BY <1>2, <2>1, <2>3, <2>5, <2>9, ConstantsAssumption DEF RegisterFile, Accept, TypeOK
  <2>10. QED
    BY <1>2, <2>6, <2>7, <2>8, <2>9 DEF RegisterFile
<1>3. CASE RegisterEnd
  BY <1>3 DEF RegisterEnd, TypeOK
<1>4. CASE UNCHANGED vars
  BY <1>4 DEF vars, TypeOK
<1>5. QED
  BY <1>1, <1>2, <1>3, <1>4 DEF Next

(* Every reachable state has the types of TypeOK.                          *)
THEOREM TypeCorrect == Spec => []TypeOK
<1>1. Init => TypeOK
  BY ConstantsAssumption DEF Init, TypeOK, EntryKinds, NoEntry
<1>2. QED
  BY <1>1, TypeStep, PTL DEF Spec

-----------------------------------------------------------------------------
(* The package walk only turns missing entries into package nodes.        *)
LEMMA WalkedFacts ==
  ASSUME TypeOK, NEW f \in FileIds
  PROVE  /\ Walked(f) \in [NamePaths -> EntryKinds]
         /\ \A n \in NamePaths :
              /\ Walked(f)[n] = NotProtoPackage <=> subs[n] = NotProtoPackage
              /\ subs[n] = PackageNode => Walked(f)[n] = PackageNode
              /\ Walked(f)[n] = NoEntry => subs[n] = NoEntry
         /\ ~WalkBlocked(f) =>
              \A i \in 1..Len(Pkg[f]) : Walked(f)[Prefix(Pkg[f], i)] = PackageNode
<1>1. Walked(f) \in [NamePaths -> EntryKinds]
  BY DEF Walked, TypeOK, EntryKinds
<1>2. \A n \in NamePaths :
        /\ Walked(f)[n] = NotProtoPackage <=> subs[n] = NotProtoPackage
        /\ subs[n] = PackageNode => Walked(f)[n] = PackageNode
        /\ Walked(f)[n] = NoEntry => subs[n] = NoEntry
  BY DEF Walked, TypeOK, EntryKinds, NoEntry, NotProtoPackage, PackageNode
<1>3. ASSUME ~WalkBlocked(f), NEW i \in 1..Len(Pkg[f])
      PROVE  Walked(f)[Prefix(Pkg[f], i)] = PackageNode
  <2>1. Prefix(Pkg[f], i) \in NamePaths
    BY PrefixFacts
  <2>2. \A j \in 1..i - 1 : subs[Prefix(Pkg[f], j)] # NotProtoPackage
    BY <1>3 DEF WalkBlocked
  <2>3. subs[Prefix(Pkg[f], i)] \in {NoEntry, PackageNode}
    BY <1>3, <2>1 DEF WalkBlocked, TypeOK, EntryKinds
  <2>4. QED
    BY <2>1, <2>2, <2>3 DEF Walked
<1>4. QED
  BY <1>1, <1>2, <1>3

(* The rollback of a rejected file restores exactly what the walk left:   *)
(* every name it marked is a name it found free, and it is unmarked.      *)
LEMMA RolledBackIsWalked ==
  ASSUME TypeOK, NEW f \in FileIds
  PROVE  RolledBack(f) = Walked(f)
<1>1. Walked(f) \in [NamePaths -> EntryKinds]
  BY WalkedFacts
<1>2. ASSUME NEW n \in NamePaths
      PROVE  RolledBack(f)[n] = Walked(f)[n]
  <2>1. CASE n \in {Append(Pkg[f], s) : s \in Decls[f] \ Conflicts(f)}
    <3>1. PICK s \in Decls[f] \ Conflicts(f) : n = Append(Pkg[f], s)
      BY <2>1
    <3>2. Walked(f)[n] = NoEntry
      BY <3>1 DEF Conflicts
    <3>3. QED
      BY <2>1, <3>2 DEF RolledBack
  <2>2. CASE n \notin {Append(Pkg[f], s) : s \in Decls[f] \ Conflicts(f)}
    <3>1. ~(n \in DeclNames(f) /\ Walked(f)[n] = NoEntry)
      BY <2>2 DEF DeclNames, Conflicts
    <3>2. QED
      BY <2>2, <3>1 DEF RolledBack, Inserted
  <2>3. QED
    BY <2>1, <2>2
<1>3. QED
  BY <1>1, <1>2 DEF RolledBack

-----------------------------------------------------------------------------
(* The namespace invariant.                                                *)

LEMMA RangeAppend ==
  ASSUME NEW S, NEW x \in Seq(S), NEW e
  PROVE  Range(Append(x, e)) = Range(x) \cup {e}
<1>1. DOMAIN Append(x, e) = 1..Len(x) + 1
  OBVIOUS
<1>2. \A k \in 1..Len(x) : Append(x, e)[k] = x[k]
  OBVIOUS
<1>3. Append(x, e)[Len(x) + 1] = e
  OBVIOUS
<1>4. QED
  BY <1>1, <1>2, <1>3 DEF Range

LEMMA RegisteredAfterAppend ==
  ASSUME TypeOK, NEW f \in FileIds,
         files' = [files EXCEPT ![Pkg[f]] = Append(@, f)]
  PROVE  Registered' = Registered \cup {f}
<1>1. Pkg[f] \in PkgPaths
  BY ConstantsAssumption
<1>2. Range(files'[Pkg[f]]) = Range(files[Pkg[f]]) \cup {f}
  <2>1. files[Pkg[f]] \in Seq(FileIds)
    BY <1>1 DEF TypeOK
  <2>2. files'[Pkg[f]] = Append(files[Pkg[f]], f)
    BY <1>1 DEF TypeOK
  <2>3. QED
    BY <2>1, <2>2, RangeAppend
<1>3. \A p \in PkgPaths \ {Pkg[f]} : files'[p] = files[p]
  BY <1>1 DEF TypeOK
<1>4. QED
  BY <1>1, <1>2, <1>3 DEF Registered

LEMMA InitInv == Init => IInv
<1> SUFFICES ASSUME Init PROVE IInv
  OBVIOUS
<1>1. TypeOK
  BY ConstantsAssumption DEF Init, TypeOK, EntryKinds, NoEntry
<1>2. Registered = {}
  BY DEF Init, Registered, Range
<1>3. QED
  BY <1>1, <1>2 DEF Init, IInv, SentinelsAreDecls, PackagesArePresent,
     NamespaceConsistent, NameUnique, RegisteredOnce, NoNameShadowsPackage,
     NoEntry, NotProtoPackage

(* A rejected file: the registry is the walked trie and the same files.   *)
LEMMA RejectKeepsInv ==
  ASSUME IInv, TypeOK', NEW f \in FileIds,
         subs' = Walked(f), files' = files
  PROVE  IInv'
<1>1. Registered' = Registered
  BY DEF Registered
<1>2. SentinelsAreDecls'
  BY <1>1, WalkedFacts DEF SentinelsAreDecls, IInv
<1>3. PackagesArePresent'
  <2> SUFFICES ASSUME NEW g \in Registered, NEW i \in 1..Len(Pkg[g])
               PROVE  Walked(f)[Prefix(Pkg[g], i)] = PackageNode
    BY <1>1 DEF PackagesArePresent
  <2>1. g \in FileIds
    BY DEF IInv, TypeOK, Registered, Range
  <2>2. Prefix(Pkg[g], i) \in NamePaths /\ subs[Prefix(Pkg[g], i)] = PackageNode
    BY <2>1, PrefixFacts DEF IInv, PackagesArePresent
  <2>3. QED
    BY <2>2, WalkedFacts DEF IInv
<1>4. NamespaceConsistent'
  BY <1>1 DEF IInv, NamespaceConsistent, NameUnique, RegisteredOnce, NoNameShadowsPackage
<1>5. QED
  BY <1>2, <1>3, <1>4 DEF IInv

(* An accepted file: its names were free, its package walk met no         *)
(* declaration, and the names of every registered file are sentinels and  *)
(* the segments of its package are package nodes, so none of the three    *)
(* parts of NamespaceConsistent can break.                                 *)
LEMMA AcceptKeepsInv ==
  ASSUME IInv, TypeOK', NEW f \in FileIds,
         ~WalkBlocked(f), Conflicts(f) = {},
         subs' = Inserted(f),
         files' = [files EXCEPT ![Pkg[f]] = Append(@, f)]
  PROVE  IInv'
<1> USE DEF IInv, NamespaceConsistent
<1>1. Registered' = Registered \cup {f}
  BY RegisteredAfterAppend
<1>2. \A s \in Decls[f] : subs[Append(Pkg[f], s)] = NoEntry
  <2> SUFFICES ASSUME NEW s \in Decls[f] PROVE subs[Append(Pkg[f], s)] = NoEntry
    OBVIOUS
  <2>1. Append(Pkg[f], s) \in NamePaths
    BY DeclNameFacts, ConstantsAssumption
  <2>2. Walked(f)[Append(Pkg[f], s)] = NoEntry
    BY DEF Conflicts
  <2>3. QED
    BY <2>1, <2>2, WalkedFacts
<1>3. \A i \in 1..Len(Pkg[f]) : subs[Prefix(Pkg[f], i)] # NotProtoPackage
  BY DEF WalkBlocked
<1>4. \A n \in NamePaths :
        subs'[n] = NotProtoPackage <=> subs[n] = NotProtoPackage \/ n \in DeclNames(f)
  <2> SUFFICES ASSUME NEW n \in NamePaths
               PROVE  Inserted(f)[n] = NotProtoPackage
                        <=> subs[n] = NotProtoPackage \/ n \in DeclNames(f)
    OBVIOUS
  <2>1. n \in DeclNames(f) => Walked(f)[n] = NoEntry
    <3> SUFFICES ASSUME n \in DeclNames(f) PROVE Walked(f)[n] = NoEntry
      OBVIOUS
    <3>1. PICK s \in Decls[f] : n = Append(Pkg[f], s)
      BY DEF DeclNames
    <3>2. QED
      BY <3>1 DEF Conflicts
  <2>2. QED
    BY <2>1, WalkedFacts DEF Inserted, NoEntry, NotProtoPackage
<1>5. \A n \in NamePaths : subs[n] = PackageNode => subs'[n] = PackageNode
  BY WalkedFacts DEF Inserted, NoEntry, PackageNode
<1>6. \A i \in 1..Len(Pkg[f]) : subs'[Prefix(Pkg[f], i)] = PackageNode
  <2> SUFFICES ASSUME NEW i \in 1..Len(Pkg[f])
               PROVE  Inserted(f)[Prefix(Pkg[f], i)] = PackageNode
    OBVIOUS
  <2>1. Prefix(Pkg[f], i) \in NamePaths /\ Len(Prefix(Pkg[f], i)) = i
    BY PrefixFacts
  <2>2. Prefix(Pkg[f], i) \notin DeclNames(f)
    BY <2>1, DeclNameFacts DEF DeclNames
  <2>3. Walked(f)[Prefix(Pkg[f], i)] = PackageNode
    BY WalkedFacts
  <2>4. QED
    BY <2>1, <2>2, <2>3 DEF Inserted
<1>7. \A g \in Registered : g \in FileIds
  BY DEF TypeOK, Registered, Range
<1>8. SentinelsAreDecls'
  BY <1>1, <1>4 DEF SentinelsAreDecls
<1>9. PackagesArePresent'
  <2> SUFFICES ASSUME NEW g \in Registered', NEW i \in 1..Len(Pkg[g])
               PROVE  subs'[Prefix(Pkg[g], i)] = PackageNode
    BY DEF PackagesArePresent
  <2>1. CASE g = f
    BY <2>1, <1>6
  <2>2. CASE g \in Registered
    BY <2>2, <1>5, <1>7, PrefixFacts DEF PackagesArePresent
  <2>3. QED
    BY <1>1, <2>1, <2>2
<1>10. NameUnique'
  <2>1. ASSUME NEW g \in Registered, NEW n \in DeclNames(f) \cap DeclNames(g)
        PROVE  FALSE
    <3>1. PICK s \in Decls[f] : n = Append(Pkg[f], s)
      BY <2>1 DEF DeclNames
    <3>2. n \in NamePaths
      BY <3>1, DeclNameFacts, ConstantsAssumption
    <3>3. subs[n] = NotProtoPackage
      BY <2>1, <3>2 DEF SentinelsAreDecls
    <3>4. subs[n] = NoEntry
      BY <3>1, <1>2
    <3>5. QED
      BY <3>3, <3>4 DEF NoEntry, NotProtoPackage
  <2>2. QED
    BY <1>1, <2>1 DEF NameUnique
<1>11. RegisteredOnce'
  <2> DEFINE p == Pkg[f]
  <2>1. p \in PkgPaths /\ files[p] \in Seq(FileIds)
    BY ConstantsAssumption DEF TypeOK
  <2>2. files'[p] = Append(files[p], f)
    BY <2>1 DEF TypeOK
  <2>3. \A q \in PkgPaths \ {p} : files'[q] = files[q]
    BY <2>1 DEF TypeOK
  <2>4. ASSUME NEW k \in 1..Len(files[p]), files[p][k] = f
        PROVE  Decls[f] = {}
    <3> SUFFICES ASSUME NEW s \in Decls[f] PROVE FALSE
      OBVIOUS
    <3>1. f \in Registered
      BY <2>1, <2>4 DEF Registered, Range
    <3>2. Append(p, s) \in NamePaths
      BY DeclNameFacts, ConstantsAssumption
    <3>5. Append(p, s) \in DeclNames(f)
      BY DEF DeclNames
    <3>3. subs[Append(p, s)] = NotProtoPackage
      BY <3>1, <3>2, <3>5 DEF SentinelsAreDecls
    <3>4. QED
      BY <3>3, <1>2 DEF NoEntry, NotProtoPackage, p
  <2>5. ASSUME NEW k \in DOMAIN files'[p], NEW l \in DOMAIN files'[p],
               k # l, files'[p][k] = files'[p][l]
        PROVE  Decls[files'[p][k]] = {}
    <3> DEFINE L == Len(files[p])
    <3>1. DOMAIN files'[p] = 1..L + 1
      BY <2>1, <2>2
    <3>2. \A j \in 1..L : files'[p][j] = files[p][j]
      BY <2>1, <2>2
    <3>3. files'[p][L + 1] = f
      BY <2>1, <2>2
    <3>4. CASE k \in 1..L /\ l \in 1..L
      <4>1. k \in DOMAIN files[p] /\ l \in DOMAIN files[p]
        BY <2>1, <3>4
      <4>2. files[p][k] = files[p][l]
        BY <2>5, <3>2, <3>4
      <4>3. QED
        BY <2>1, <2>5, <3>2, <3>4, <4>1, <4>2 DEF RegisteredOnce
    <3>5. CASE k = L + 1 /\ l \in 1..L
      BY <2>5, <3>2, <3>3, <3>5, <2>4
    <3>6. CASE k \in 1..L /\ l = L + 1
      BY <2>5, <3>2, <3>3, <3>6, <2>4
    <3>0. L \in Nat
      BY <2>1
    <3>7. k \in 1..L + 1 /\ l \in 1..L + 1 /\ k # l
      BY <2>5, <3>1
    <3>8. \/ k \in 1..L /\ l \in 1..L
          \/ k = L + 1 /\ l \in 1..L
          \/ k \in 1..L /\ l = L + 1
      BY <3>0, <3>7
    <3>9. QED
      BY <3>8, <3>4, <3>5, <3>6
  <2>6. ASSUME NEW q \in PkgPaths \ {p}, NEW k \in DOMAIN files'[q], NEW l \in DOMAIN files'[q],
               k # l, files'[q][k] = files'[q][l]
        PROVE  Decls[files'[q][k]] = {}
    BY <2>3, <2>6 DEF RegisteredOnce
  <2>7. QED
    <3> SUFFICES ASSUME NEW q \in PkgPaths, NEW k \in DOMAIN files'[q], NEW l \in DOMAIN files'[q],
                        k # l, files'[q][k] = files'[q][l]
                 PROVE  Decls[files'[q][k]] = {}
      BY DEF RegisteredOnce
    <3>1. CASE q = p
      BY <3>1, <2>5
    <3>2. CASE q # p
      BY <3>2, <2>6
    <3>3. QED
      BY <3>1, <3>2
<1>12. NoNameShadowsPackage'
  <2> SUFFICES ASSUME NEW g \in Registered', NEW h \in Registered',
                      NEW n \in DeclNames(g), IsPrefix(n, Pkg[h])
               PROVE  FALSE
    BY DEF NoNameShadowsPackage
  <2>1. g \in FileIds /\ h \in FileIds
    BY <1>1, <1>7
  <2>2. PICK s \in Decls[g] : n = Append(Pkg[g], s)
    BY DEF DeclNames
  <2>3. n \in NamePaths /\ Len(n) = Len(Pkg[g]) + 1
    BY <2>1, <2>2, DeclNameFacts, ConstantsAssumption
  <2>4. Len(n) \in 1..Len(Pkg[h]) /\ n = Prefix(Pkg[h], Len(n))
    BY <2>1, <2>3, PkgFacts, PathsAreSeqs, IsPrefixAsPrefix
  <2>5. CASE g = f /\ h = f
    BY <2>3, <2>4, <2>5
  <2>6. CASE g = f /\ h \in Registered
    <3>1. subs[n] = PackageNode
      BY <2>4, <2>6 DEF PackagesArePresent
    <3>2. QED
      BY <2>2, <2>6, <3>1, <1>2 DEF NoEntry, PackageNode
  <2>7. CASE g \in Registered /\ h = f
    <3>1. subs[n] = NotProtoPackage
      BY <2>3, <2>7 DEF SentinelsAreDecls
    <3>2. QED
      BY <2>4, <2>7, <3>1, <1>3
  <2>8. CASE g \in Registered /\ h \in Registered
    BY <2>8 DEF NoNameShadowsPackage
  <2>9. QED
    BY <1>1, <2>5, <2>6, <2>7, <2>8
<1>13. QED
  BY <1>8, <1>9, <1>10, <1>11, <1>12 DEF NamespaceConsistent


-----------------------------------------------------------------------------
(* A step that leaves subs and files alone keeps the invariant.            *)
LEMMA FrameKeepsInv ==
  ASSUME IInv, TypeOK', subs' = subs, files' = files
  PROVE  IInv'
<1>1. Registered' = Registered
  BY DEF Registered
<1>2. QED
  BY <1>1 DEF IInv, SentinelsAreDecls, PackagesArePresent, NamespaceConsistent,
               NameUnique, RegisteredOnce, NoNameShadowsPackage, Owner

LEMMA InvStep == IInv /\ [Next]_vars => IInv'
<1> SUFFICES ASSUME IInv, [Next]_vars PROVE IInv'
  OBVIOUS
<1>0. TypeOK'
  BY TypeStep DEF IInv
<1>1. CASE RegisterBegin
  BY <1>0, <1>1, FrameKeepsInv DEF RegisterBegin
<1>2. CASE RegisterFile
  <2> DEFINE f == Head(pending)
  <2>1. f \in FileIds
    BY <1>2 DEF RegisterFile, IInv, TypeOK
  <2>2. CASE SkipPlaceholder(f)
    BY <1>0, <2>2, FrameKeepsInv DEF SkipPlaceholder
  <2>3. CASE RejectOnPackage(f)
    BY <1>0, <2>1, <2>3, RejectKeepsInv DEF RejectOnPackage
  <2>4. CASE RejectOnDeclaration(f)
    <3>1. subs' = Walked(f)
      BY <2>1, <2>4, RolledBackIsWalked DEF RejectOnDeclaration, IInv
    <3>2. QED
      BY <1>0, <2>1, <2>4, <3>1, RejectKeepsInv DEF RejectOnDeclaration
  <2>5. CASE Accept(f)
    BY <1>0, <2>1, <2>5, AcceptKeepsInv DEF Accept
  <2>6. QED
    BY <1>2, <2>2, <2>3, <2>4, <2>5 DEF RegisterFile
<1>3. CASE RegisterEnd
  BY <1>0, <1>3, FrameKeepsInv DEF RegisterEnd
<1>4. CASE UNCHANGED vars
  BY <1>0, <1>4, FrameKeepsInv DEF vars
<1>5. QED
  BY <1>1, <1>2, <1>3, <1>4 DEF Next

(* Whatever sequence of Register calls is made, with files accepted or     *)
(* rejected, every declaration name has at most one registered owner, no  *)
(* file is registered twice unless it declares nothing, and no name of a   *)
(* registered file is a package of another: the trie of Files.Register     *)
(* never holds contradictory entries after its rollback.                   *)
THEOREM NamespaceInvariant == Spec => []NamespaceConsistent
<1>1. IInv => NamespaceConsistent
  BY DEF IInv
<1>2. QED
  BY <1>1, InitInv, InvStep, PTL DEF Spec

-----------------------------------------------------------------------------
(* The path index: filesByPath is appended to exactly when a package node  *)
(* is.                                                                     *)

\* Occurrences counts a finite set.
LEMMA OccNat ==
  ASSUME NEW S, NEW s \in Seq(S), NEW f
  PROVE  Occurrences(s, f) \in Nat
<1>1. IsFiniteSet({k \in DOMAIN s : s[k] = f})
  <2>1. IsFiniteSet(1..Len(s))
    BY FS_Interval
  <2>2. QED
    BY <2>1, FS_Subset
<1>2. QED
  BY <1>1, FS_CardinalityType DEF Occurrences

LEMMA OccEmpty == \A f : Occurrences(<<>>, f) = 0
<1>1. \A f : {k \in DOMAIN << >> : << >>[k] = f} = {}
  OBVIOUS
<1>2. QED
  BY <1>1, FS_EmptySet DEF Occurrences

\* Appending x to s adds one occurrence of x and none of any other value.
LEMMA OccAppend ==
  ASSUME NEW S, NEW s \in Seq(S), NEW x, NEW f
  PROVE  Occurrences(Append(s, x), f) = Occurrences(s, f) + (IF x = f THEN 1 ELSE 0)
<1> DEFINE A == {k \in DOMAIN s : s[k] = f}
           B == {k \in DOMAIN Append(s, x) : Append(s, x)[k] = f}
<1>1. IsFiniteSet(A) /\ Len(s) + 1 \notin A
  <2>1. IsFiniteSet(1..Len(s))
    BY FS_Interval
  <2>2. A \subseteq 1..Len(s)
    OBVIOUS
  <2>3. QED
    BY <2>1, <2>2, FS_Subset
<1>2. CASE x = f
  <2>1. B = A \cup {Len(s) + 1}
    BY <1>2
  <2>2. Cardinality(B) = Cardinality(A) + 1
    BY <1>1, <2>1, FS_AddElement
  <2>3. QED
    BY <1>2, <2>2 DEF Occurrences
<1>3. CASE x # f
  <2>1. B = A
    BY <1>3
  <2>2. Occurrences(s, f) \in Nat
    BY OccNat
  <2>3. Occurrences(Append(s, x), f) = Cardinality(B) /\ Occurrences(s, f) = Cardinality(A)
    BY DEF Occurrences
  <2>4. Occurrences(Append(s, x), f) = Occurrences(s, f)
    BY ONLY <2>1, <2>3
  <2>5. QED
    BY <1>3, <2>2, <2>4
<1>4. QED
  BY <1>2, <1>3

\* Accepting h adds one occurrence of h to the files of its package and
\* changes the count of no other file.
LEMMA AcceptCount ==
  ASSUME TypeOK, NEW h \in FileIds, Accept(h), NEW f \in FileIds
  PROVE  Occurrences(files'[Pkg[f]], f)
           = Occurrences(files[Pkg[f]], f) + (IF h = f THEN 1 ELSE 0)
<1>1. Pkg \in [FileIds -> PkgPaths]
  BY ConstantsAssumption
<1>2. files' = [files EXCEPT ![Pkg[h]] = Append(@, h)]
  BY DEF Accept
<1>3. files \in [PkgPaths -> Seq(FileIds)]
  BY DEF TypeOK
<1>4. Occurrences(files'[Pkg[f]], f)
        = Occurrences(files[Pkg[f]], f) + (IF Pkg[f] = Pkg[h] /\ h = f THEN 1 ELSE 0)
  <2>1. Pkg[h] \in PkgPaths /\ Pkg[f] \in PkgPaths
    BY <1>1
  <2>2. files[Pkg[f]] \in Seq(FileIds)
    BY <1>3, <2>1
  <2>3. files'[Pkg[f]] = IF Pkg[f] = Pkg[h] THEN Append(files[Pkg[f]], h) ELSE files[Pkg[f]]
    BY <1>2, <1>3, <2>1
  <2>4. CASE Pkg[f] = Pkg[h]
    <3>1. Occurrences(Append(files[Pkg[f]], h), f)
            = Occurrences(files[Pkg[f]], f) + (IF h = f THEN 1 ELSE 0)
      BY <2>2, OccAppend
    <3>2. QED
      BY <2>3, <2>4, <3>1
  <2>5. CASE Pkg[f] # Pkg[h]
    <3>1. Occurrences(files[Pkg[f]], f) \in Nat
      BY <2>2, OccNat
    <3>2. QED
      BY <2>3, <2>5, <3>1
  <2>6. QED
    BY <2>4, <2>5
<1>5. QED
  BY <1>4

\* Accepting a file keeps the two indexes in step.
LEMMA AcceptKeepsByPath ==
  ASSUME TypeOK, ByPathConsistent, NEW h \in FileIds, Accept(h)
  PROVE  ByPathConsistent'
<1> SUFFICES ASSUME NEW f \in FileIds
             PROVE  /\ Occurrences(filesByPath'[FilePath[f]], f) = Occurrences(files'[Pkg[f]], f)
                    /\ \A p \in Paths \ {FilePath[f]} : Occurrences(filesByPath'[p], f) = 0
  BY DEF ByPathConsistent
<1>1. Pkg \in [FileIds -> PkgPaths] /\ FilePath \in [FileIds -> Paths]
  BY ConstantsAssumption
<1>2. files' = [files EXCEPT ![Pkg[h]] = Append(@, h)]
      /\ filesByPath' = [filesByPath EXCEPT ![FilePath[h]] = Append(@, h)]
  BY DEF Accept
<1>3. files \in [PkgPaths -> Seq(FileIds)] /\ filesByPath \in [Paths -> Seq(FileIds)]
  BY DEF TypeOK
<1>4. Occurrences(files'[Pkg[f]], f) = Occurrences(files[Pkg[f]], f) + (IF h = f THEN 1 ELSE 0)
  BY AcceptCount
<1>5. ASSUME NEW p \in Paths
      PROVE  Occurrences(filesByPath'[p], f)
               = Occurrences(filesByPath[p], f) + (IF p = FilePath[h] /\ h = f THEN 1 ELSE 0)
  <2>1. FilePath[h] \in Paths
    BY <1>1
  <2>2. filesByPath[p] \in Seq(FileIds)
    BY <1>3
  <2>3. filesByPath'[p] = IF p = FilePath[h] THEN Append(filesByPath[p], h) ELSE filesByPath[p]
    BY <1>2, <1>3, <2>1
  <2>4. CASE p = FilePath[h]
    <3>1. Occurrences(Append(filesByPath[p], h), f)
            = Occurrences(filesByPath[p], f) + (IF h = f THEN 1 ELSE 0)
      BY <2>2, OccAppend
    <3>2. QED
      BY <2>3, <2>4, <3>1
  <2>5. CASE p # FilePath[h]
    <3>1. Occurrences(filesByPath[p], f) \in Nat
      BY <2>2, OccNat
    <3>2. QED
      BY <2>3, <2>5, <3>1
  <2>6. QED
    BY <2>4, <2>5
<1>6. Occurrences(filesByPath[FilePath[f]], f) = Occurrences(files[Pkg[f]], f)
      /\ \A p \in Paths \ {FilePath[f]} : Occurrences(filesByPath[p], f) = 0
  BY DEF ByPathConsistent
<1>7. Occurrences(filesByPath'[FilePath[f]], f) = Occurrences(files'[Pkg[f]], f)
  <2>1. FilePath[f] \in Paths
    BY <1>1
  <2>2. Occurrences(filesByPath'[FilePath[f]], f)
          = Occurrences(filesByPath[FilePath[f]], f) + (IF h = f THEN 1 ELSE 0)
    BY <1>5, <2>1
  <2>3. QED
    BY <1>4, <1>6, <2>2
<1>8. \A p \in Paths \ {FilePath[f]} : Occurrences(filesByPath'[p], f) = 0
  <2> TAKE p \in Paths \ {FilePath[f]}
  <2>1. ~(p = FilePath[h] /\ h = f)
    OBVIOUS
  <2>2. Occurrences(filesByPath[p], f) = 0
    BY <1>6
  <2>3. QED
    BY <1>5, <2>1, <2>2
<1>9. QED
  BY <1>7, <1>8

\* Every step keeps TypeOK /\ ByPathConsistent.
LEMMA ByPathStep ==
  TypeOK /\ ByPathConsistent /\ [Next]_vars => ByPathConsistent'
<1> SUFFICES ASSUME TypeOK, ByPathConsistent, [Next]_vars PROVE ByPathConsistent'
  OBVIOUS
<1>1. CASE UNCHANGED <<files, filesByPath>>
  BY <1>1 DEF ByPathConsistent
<1>2. CASE RegisterFile /\ Accept(Head(pending))
  <2>1. Head(pending) \in FileIds
    BY <1>2 DEF RegisterFile, TypeOK
  <2>2. QED
    BY <1>2, <2>1, AcceptKeepsByPath
<1>3. QED
  BY <1>1, <1>2 DEF Next, vars, RegisterBegin, RegisterFile, RegisterEnd,
                    SkipPlaceholder, RejectOnPackage, RejectOnDeclaration

(* Whatever sequence of Register calls is made, RangeFilesByPath(p) lists  *)
(* every registered file of path p as often as it is registered, and no    *)
(* file under another path: Register indexes a file by path only after it  *)
(* passed both conflict checks, in the same step that appends it to its    *)
(* package node, and never for a rejected file.                            *)
THEOREM ByPathHolds == Spec => []ByPathConsistent
<1>1. Init => TypeOK /\ ByPathConsistent
  <2> SUFFICES ASSUME Init PROVE TypeOK /\ ByPathConsistent
    OBVIOUS
  <2>1. TypeOK
    BY ConstantsAssumption DEF Init, TypeOK, EntryKinds, NoEntry
  <2>2. \A f \in FileIds : \A p \in Paths : Occurrences(filesByPath[p], f) = 0
    BY OccEmpty DEF Init
  <2>3. \A f \in FileIds : Occurrences(files[Pkg[f]], f) = 0
    BY ConstantsAssumption, OccEmpty DEF Init
  <2>4. QED
    BY <2>1, <2>2, <2>3, ConstantsAssumption DEF ByPathConsistent
<1>2. TypeOK /\ ByPathConsistent /\ [Next]_vars => (TypeOK /\ ByPathConsistent)'
  BY TypeStep, ByPathStep
<1>3. QED
  BY <1>1, <1>2, PTL DEF Spec

=============================================================================
