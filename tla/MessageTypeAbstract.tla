------------------------- MODULE MessageTypeAbstract -------------------------
(***************************************************************************)
(* What init of impl.MessageType promises its callers (spec section 4.1   *)
(* and the comment on the MessageType struct), without sync.Once, its      *)
(* mutex or the field table: a binder is tied to at most one Go type,      *)
(* bound by a caller while the initialisation is still in progress; no     *)
(* caller gets past init before the initialisation has ended; a caller     *)
(* gets past it only with a p of the bound type.  Any call may panic       *)
(* instead; a panic inside the initialisation may end it; a panic is       *)
(* recovered by the caller or ends the process.                            *)
(***************************************************************************)
EXTENDS Naturals

CONSTANTS Goroutines, GoTypes, Structs, Kind, Elem, RecoverModes, NoType

VARIABLES
  bound,    \* the Go type the binder is tied to, or NoType
  done,     \* the initialisation has ended
  phase,    \* phase[g]: "idle", "busy" (inside init) or "ready" (past it)
  arg,      \* arg[g]: the Go type of the p g passed
  crashed   \* a panic has ended the process

absVars == <<bound, done, phase, arg, crashed>>

\* The types the kind check of init lets through: a pointer, or a type
\* whose element is a struct (the check of message.go line 47, which is
\* weaker than the "*struct" its comment asks for).
PassesKindCheck(t) == Kind[t] = "ptr" \/ Elem[t] \in Structs

Call(g) ==
  /\ phase[g] = "idle"
  /\ \E t \in GoTypes : arg' = [arg EXCEPT ![g] = t]
  /\ phase' = [phase EXCEPT ![g] = "busy"]
  /\ UNCHANGED <<bound, done, crashed>>

Bind(g) ==
  /\ phase[g] = "busy"
  /\ ~done
  /\ bound = NoType
  /\ PassesKindCheck(arg[g])
  /\ bound' = arg[g]
  /\ UNCHANGED <<done, phase, arg, crashed>>

\* The initialisation ends normally only after a type is bound.
Complete(g) ==
  /\ phase[g] = "busy"
  /\ ~done
  /\ bound # NoType
  /\ done' = TRUE
  /\ UNCHANGED <<bound, phase, arg, crashed>>

Serve(g) ==
  /\ phase[g] = "busy"
  /\ done
  /\ arg[g] = bound
  /\ phase' = [phase EXCEPT ![g] = "ready"]
  /\ UNCHANGED <<bound, done, arg, crashed>>

\* A panic of a caller inside init; it may end the initialisation.
Fail(g) ==
  /\ phase[g] = "busy"
  /\ done' \in {done, TRUE}
  /\ \E recovered \in RecoverModes :
       IF recovered
       THEN phase' = [phase EXCEPT ![g] = "idle"] /\ UNCHANGED crashed
       ELSE crashed' = TRUE /\ UNCHANGED phase
  /\ UNCHANGED <<bound, arg>>

Return(g) ==
  /\ phase[g] = "ready"
  /\ phase' = [phase EXCEPT ![g] = "idle"]
  /\ UNCHANGED <<bound, done, arg, crashed>>

AbsInit ==
  /\ bound = NoType
  /\ done = FALSE
  /\ phase = [g \in Goroutines |-> "idle"]
  /\ arg = [g \in Goroutines |-> NoType]
  /\ crashed = FALSE

AbsNext ==
  /\ ~crashed
  /\ \E g \in Goroutines :
       Call(g) \/ Bind(g) \/ Complete(g) \/ Serve(g) \/ Fail(g) \/ Return(g)

AbsSpec == AbsInit /\ [][AbsNext]_absVars

=============================================================================
