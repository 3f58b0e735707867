----------------------------- MODULE MC_CgoCall -----------------------------
(***************************************************************************)
(* Every type graph over three declared types whose kinds are basic,      *)
(* slice, pointer, array, named or a struct of at most two fields, and a  *)
(* package with the call shapes cgoBaseType and run tell apart:            *)
(*   C.f(x), C.f(&x), C.f(unsafe.Pointer(&x)),                            *)
(*   C.f(deref of unsafe.Pointer(&x)), two-argument calls,                *)
(*   C.CBytes(x), a _Cfunc_ call with no outer call, an ordinary call,    *)
(*   and an argument without type information.                            *)
(***************************************************************************)
EXTENDS CgoCall

t1 == "T1"
t2 == "T2"
t3 == "T3"

X(t) == Ident(t)

Site(name, outer, args) == [name |-> name, outer |-> outer, args |-> args]

MCCallSites ==
  << Site("f", TRUE, << X(t1) >>),
     Site("f", TRUE, << Addr(X(t2)) >>),
     Site("f", TRUE, << Conv(Addr(X(t3))) >>),
     Site("f", TRUE, << Deref(Conv(Addr(X(t1)))) >>),
     Site("f", TRUE, << Conv(X(t2)), Addr(X(t3)) >>),
     Site("f", TRUE, << X(t3), X(t1) >>),
     Site("CBytes", TRUE, << X(t1) >>),
     Site("g", FALSE, << X(t2) >>),
     Site("", TRUE, << X(t3) >>),
     Site("f", TRUE, << X(NilType), Deref(Conv(X(t2))) >>) >>

=============================================================================
