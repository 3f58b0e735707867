-------------------------- MODULE MC_MessageType --------------------------
(***************************************************************************)
(* Two goroutines making two calls each, with five Go types:               *)
(*   PtrMsg    *Msg     the generated message type                        *)
(*   PtrOther  *Other   a different message struct, whose second field     *)
(*                      does not match the descriptor (fieldInfoFor* panics) *)
(*   PtrInt    *int     a pointer to a non-struct                         *)
(*   SliceMsg  []Msg    a non-pointer with a struct element               *)
(*   Int       int      a non-pointer without an element type (the kind   *)
(*                      check panics)                                     *)
(* The descriptor has two fields.  Run mt_partial_table passes only the  *)
(* two message pointers, so that the panic it shows is the fieldInfoFor*  *)
(* panic of *Other's second field.                                         *)
(***************************************************************************)
EXTENDS MessageType, TLC

CONSTANTS g1, g2, PtrMsg, PtrOther, PtrInt, SliceMsg, Int, Msg, Other

\* Kind and Elem of every type, restricted to the types a run passes.
AllKind == (PtrMsg :> "ptr") @@ (PtrOther :> "ptr") @@ (PtrInt :> "ptr") @@
           (SliceMsg :> "slice") @@ (Int :> "int")

AllElem == (PtrMsg :> Msg) @@ (PtrOther :> Other) @@ (PtrInt :> "int") @@
           (SliceMsg :> Msg) @@ (Int :> NoElem)

MCKind == [t \in GoTypes |-> AllKind[t]]

MCElem == [t \in GoTypes |-> AllElem[t]]

MCFieldPanics == {<<Other, 2>>}

=============================================================================
