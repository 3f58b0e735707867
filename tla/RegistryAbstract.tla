-------------------------- MODULE RegistryAbstract --------------------------
(***************************************************************************)
(* What protoregistry.Files promises (spec section 4.5), without the      *)
(* trie: the registry is a multiset reg of files, and Register accepts a  *)
(* file, one file of its argument list at a time, exactly when none of     *)
(* its top-level full names collides with a full name of a registered     *)
(* file or with a package (or package prefix) of a registered file, and    *)
(* the other way round.  A rejected file leaves reg unchanged and becomes  *)
(* the call's error if it is the first one.                               *)
(***************************************************************************)
EXTENDS Naturals, Sequences, SequencesExt

CONSTANTS Seg, FileIds, Pkg, Decls, Placeholder, MaxBatch, MaxCalls, NoErr

VARIABLES reg, pc, pending, firstErr, calls

absVars == <<reg, pc, pending, firstErr, calls>>

DeclNames(f) == {Append(Pkg[f], s) : s \in Decls[f]}

Collide(f, g) ==
  \/ DeclNames(f) \cap DeclNames(g) # {}
  \/ \E n \in DeclNames(f) : IsPrefix(n, Pkg[g])
  \/ \E n \in DeclNames(g) : IsPrefix(n, Pkg[f])

Conflicting(f) == \E g \in FileIds : reg[g] > 0 /\ Collide(f, g)

Begin ==
  /\ pc = "idle"
  /\ calls < MaxCalls
  /\ \E batch \in SeqOf(FileIds, MaxBatch) : pending' = batch
  /\ pc' = "registering"
  /\ firstErr' = NoErr
  /\ calls' = calls + 1
  /\ UNCHANGED reg

Step ==
  /\ pc = "registering"
  /\ pending # <<>>
  /\ LET f == Head(pending) IN
       \/ /\ f \in Placeholder
          /\ UNCHANGED <<reg, firstErr>>
       \/ /\ f \notin Placeholder
          /\ Conflicting(f)
          /\ firstErr' = IF firstErr = NoErr THEN f ELSE firstErr
          /\ UNCHANGED reg
       \/ /\ f \notin Placeholder
          /\ ~Conflicting(f)
          /\ reg' = [reg EXCEPT ![f] = @ + 1]
          /\ UNCHANGED firstErr
  /\ pending' = Tail(pending)
  /\ UNCHANGED <<pc, calls>>

End ==
  /\ pc = "registering"
  /\ pending = <<>>
  /\ pc' = "idle"
  /\ UNCHANGED <<reg, pending, firstErr, calls>>

AbsInit ==
  /\ reg = [f \in FileIds |-> 0]
  /\ pc = "idle"
  /\ pending = <<>>
  /\ firstErr = NoErr
  /\ calls = 0

AbsNext == Begin \/ Step \/ End

AbsSpec == AbsInit /\ [][AbsNext]_absVars

=============================================================================
