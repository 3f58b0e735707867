------------------------------ MODULE CgoCall ------------------------------
(***************************************************************************)
(* The cgocall analyzer (src/unnamed/part_000): run visits every call      *)
(* expression; findCall maps a generated _Cfunc_ call to the outer call   *)
(* that carries the user's arguments; for each argument cgoBaseType looks *)
(* through unsafe.Pointer conversions, and typeOKForCgoCall walks the Go  *)
(* type with a visited map m, rejecting chan, map, func and slice types   *)
(* reached directly or through pointers, arrays, structs and named types. *)
(*                                                                         *)
(* Go types are a graph over the type names Nodes: each node has a kind *)
(* and, by kind, an element (pointer, array, named: its declared type) or *)
(* a list of field types (struct).  The pointer type *T of an address     *)
(* expression &x is PtrTo(T).  Expressions are the shapes cgoBaseType     *)
(* distinguishes: an identifier of some type, &e, unsafe.Pointer(e) and  *)
(* *( *unsafe.Pointer)(e).                                                 *)
(***************************************************************************)
EXTENDS Naturals, Sequences, FiniteSets, SequencesExt, Graphs

CONSTANTS
  Nodes,       \* names of the declared Go types (strings)
  LeafKinds,   \* kinds without element types, e.g. "basic", "slice"
  MaxFields,   \* struct types have at most MaxFields fields
  CallSites    \* the call expressions the inspector visits, in order

BadKinds == {"chan", "map", "signature", "slice"}

UnsafePointer == "unsafe.Pointer"

NilType == "nil"   \* info.Types[e].Type for an expression without type information

PtrTo(t) == "*" \o t

Types == Nodes \cup {PtrTo(n) : n \in Nodes} \cup {UnsafePointer}

NoNode == "none"

TypeDescs ==
  {[kind |-> k, elem |-> NoNode, fields |-> <<>>] : k \in LeafKinds}
  \cup {[kind |-> k, elem |-> e, fields |-> <<>>] :
          k \in {"pointer", "array", "named"}, e \in Nodes}
  \cup {[kind |-> "struct", elem |-> NoNode, fields |-> fs] :
          fs \in SeqOf(Nodes, MaxFields)}

\* t.Underlying() of go/types, before the type switch: a pointer type
\* built by &x, unsafe.Pointer, or the declared type of a node.
Desc(g, t) ==
  CASE t \in Nodes        -> g[t]
    [] t = UnsafePointer  -> [kind |-> "unsafe", elem |-> NoNode, fields |-> <<>>]
    [] OTHER              -> [kind |-> "pointer", elem |-> CHOOSE n \in Nodes : t = PtrTo(n),
                              fields |-> <<>>]

\* Named.Underlying(): follow declared named types to a type literal.
RECURSIVE Underlying(_, _)
Underlying(g, t) ==
  IF Desc(g, t).kind = "named" THEN Underlying(g, Desc(g, t).elem) ELSE t

NamedChain(g, t, k) ==
  \E s \in SeqOf(Nodes, k) :
     /\ Len(s) = k /\ s[1] = t
     /\ \A i \in 1..k - 1 : g[s[i]].kind = "named" /\ g[s[i]].elem = s[i + 1]

\* A graph Go's type checker accepts: no cycle made of named types alone.
ValidGraphs ==
  {g \in [Nodes -> TypeDescs] :
     \A t \in Nodes : ~NamedChain(g, t, Cardinality(Nodes) + 1)}

-----------------------------------------------------------------------------
(* typeOKForCgoCall(t, m), lines 201-221.  It returns the result and the  *)
(* visited map, which the struct loop threads from one field to the next. *)

\* Mutant: the loop over struct fields checks only the first field.
RECURSIVE FieldsOKFirstOnly(_, _, _), TypeOKStructFirst(_, _, _)
TypeOKStructFirst(g, t, m) ==
  IF t = NilType \/ t \in m THEN <<TRUE, m>>
  ELSE LET m1 == m \cup {t}
           u  == Desc(g, Underlying(g, t))
       IN CASE u.kind \in BadKinds             -> <<FALSE, m1>>
            [] u.kind \in {"pointer", "array"} -> TypeOKStructFirst(g, u.elem, m1)
            [] u.kind = "struct"               -> FieldsOKFirstOnly(g, u.fields, m1)
            [] OTHER                           -> <<TRUE, m1>>
FieldsOKFirstOnly(g, fs, m) ==
  IF fs = <<>> THEN <<TRUE, m>> ELSE TypeOKStructFirst(g, Head(fs), m)

RECURSIVE TypeOKForCgoCall(_, _, _), FieldsOKForCgoCall(_, _, _)
TypeOKForCgoCall(g, t, m) ==
  IF t = NilType \/ t \in m THEN <<TRUE, m>>
  ELSE LET m1 == m \cup {t}
           u  == Desc(g, Underlying(g, t))
       IN CASE u.kind \in BadKinds             -> <<FALSE, m1>>
            [] u.kind \in {"pointer", "array"} -> TypeOKForCgoCall(g, u.elem, m1)
            [] u.kind = "struct"               -> FieldsOKForCgoCall(g, u.fields, m1)
            [] OTHER                           -> <<TRUE, m1>>
FieldsOKForCgoCall(g, fs, m) ==
  IF fs = <<>> THEN <<TRUE, m>>
  ELSE LET r == TypeOKForCgoCall(g, Head(fs), m)
       IN IF r[1] THEN FieldsOKForCgoCall(g, Tail(fs), r[2]) ELSE r

\* A call with a fresh map, make(map[types.Type]bool), as at lines 66, 77.
CgoTypeOK(g, t) == TypeOKForCgoCall(g, t, {})[1]

-----------------------------------------------------------------------------
(* Expressions: Ident(t) is an operand of type t, Addr(e) is &e,          *)
(* Conv(e) is unsafe.Pointer(e), Deref(e) is *( *unsafe.Pointer)(e).       *)

Ident(t) == [op |-> "ident", type |-> t, x |-> NoNode]
Addr(e)  == [op |-> "addr", type |-> NilType, x |-> e]
Conv(e)  == [op |-> "conv", type |-> NilType, x |-> e]
Deref(e) == [op |-> "deref", type |-> NilType, x |-> e]

\* info.Types[e].Type
TypeOf(e) ==
  CASE e.op = "ident" -> e.type
    [] e.op = "addr"  -> PtrTo(e.x.type)
    [] OTHER          -> UnsafePointer

\* isUnsafePointer(info, conv.Fun) for a one-argument call: lines 223-226.
IsUnsafeConv(e) == e.op = "conv"

\* cgoBaseType, lines 152-196: unsafe.Pointer(x) => x and
\* *( *unsafe.Pointer)(unsafe.Pointer(&x)) => x; any other shape stops.
RECURSIVE CgoBaseType(_)
CgoBaseType(e) ==
  CASE IsUnsafeConv(e) -> CgoBaseType(e.x)
    [] e.op = "deref" /\ IsUnsafeConv(e.x) /\ e.x.x.op = "addr" -> CgoBaseType(e.x.x.x)
    [] OTHER -> TypeOf(e)


-----------------------------------------------------------------------------
(* run, lines 40-86, with findCall, lines 128-146.  A call site is the    *)
(* call expression visited: name is "" for a call that is not a generated *)
(* _Cfunc_ call (findCall returns nil), else the C function's name; outer *)
(* says whether an enclosing call exists on the stack (else findCall logs *)
(* and returns nil); args are the arguments of that outer call.           *)

\* The arguments checked at lines 65-82: the index of the first argument
\* reported, or 0; the break stops the loop after a report.
RECURSIVE ReportedArg(_, _, _)
ReportedArg(g, args, i) ==
  IF i > Len(args) THEN 0
  ELSE LET arg    == args[i]
           peeled == IF IsUnsafeConv(arg) THEN arg.x ELSE arg
       IN IF ~CgoTypeOK(g, CgoBaseType(arg)) THEN i
          ELSE IF peeled.op = "addr" /\ ~CgoTypeOK(g, CgoBaseType(peeled.x)) THEN i
          ELSE ReportedArg(g, args, i + 1)

\* Mutant: the loop does not break after a report.
ReportedArgsNoBreak(g, args) ==
  {i \in DOMAIN args : ReportedArg(g, SubSeq(args, i, Len(args)), 1) = 1}

ReportedArgs(g, args) ==
  LET i == ReportedArg(g, args, 1) IN IF i = 0 THEN {} ELSE {i}

VARIABLES
  graph,    \* the program's types, fixed for one run of the analyzer
  pos,      \* the index in CallSites of the next call expression visited
  reports   \* <<k, i>>: argument i of call site k is reported

vars == <<graph, pos, reports>>

\* findCall returns nil: not a _Cfunc_ call, or no enclosing call on the stack.
VisitUnchecked ==
  /\ pos <= Len(CallSites)
  /\ CallSites[pos].name = "" \/ ~CallSites[pos].outer
  /\ pos' = pos + 1
  /\ UNCHANGED <<graph, reports>>

\* A call to C.CBytes passes a pointer but is always safe (line 56).
VisitCBytes ==
  /\ pos <= Len(CallSites)
  /\ CallSites[pos].name = "CBytes" /\ CallSites[pos].outer
  /\ pos' = pos + 1
  /\ UNCHANGED <<graph, reports>>

VisitCall ==
  /\ pos <= Len(CallSites)
  /\ CallSites[pos].name \notin {"", "CBytes"} /\ CallSites[pos].outer
  /\ reports' = reports \cup {<<pos, i>> : i \in ReportedArgs(graph, CallSites[pos].args)}
  /\ pos' = pos + 1
  /\ UNCHANGED graph

Init ==
  /\ graph \in ValidGraphs
  /\ pos = 1
  /\ reports = {}

Next == VisitUnchecked \/ VisitCBytes \/ VisitCall

Spec == Init /\ [][Next]_vars

-----------------------------------------------------------------------------
(* Properties                                                              *)

\* The type graph: a pointer, array or named type leads to its element or
\* declared type, a struct to its field types.
TypeGraph(g) ==
  [node |-> Types,
   edge |-> {<<t, Desc(g, t).elem>> : t \in {u \in Types : Desc(g, u).kind \in {"pointer", "array", "named"}}}
            \cup UNION {{<<t, f>> : f \in Range(Desc(g, t).fields)} : t \in Types}]

\* The analyzer's documentation: a chan, map, func or slice type reached
\* directly or via a pointer, array or struct.
Reachable(g, t) ==
  LET G == TypeGraph(g)
      R[k \in 0..Cardinality(Types)] ==
        IF k = 0 THEN {t} ELSE R[k - 1] \cup AllSuccessors(G, R[k - 1])
  IN  R[Cardinality(Types)]

ReachesBad(g, t) ==
  /\ t # NilType
  /\ \E n \in Reachable(g, t) : Desc(g, n).kind \in BadKinds

(* typeOKForCgoCall with its visited map answers exactly "no chan, map,  *)
(* func or slice is reachable", for every type of every acyclic or cyclic *)
(* type graph: the map cuts cycles without hiding a bad type behind a     *)
(* type already visited through another field.                            *)
AlgorithmAgrees ==
  pos = 1 => \A t \in Types : CgoTypeOK(graph, t) = ~ReachesBad(graph, t)

\* The value an argument passes, seen through unsafe.Pointer conversions.
Passed(e) ==
  CASE e.op = "conv" /\ e.x.op = "conv" -> e.x.x
    [] e.op = "conv"                    -> e.x
    [] e.op = "deref" /\ e.x.op = "conv" /\ e.x.x.op = "addr" -> e.x.x.x
    [] OTHER                            -> e

(* A generated C call, other than C.CBytes, is reported exactly when one  *)
(* of its arguments passes a value whose type reaches a chan, map, func   *)
(* or slice, directly or through the address taken, and the report is on *)
(* the first such argument only.                                          *)
ReportsMatchDoc ==
  \A k \in 1..pos - 1 :
     LET c   == CallSites[k]
         bad == {i \in DOMAIN c.args : ReachesBad(graph, TypeOf(Passed(c.args[i])))}
     IN  {i \in DOMAIN c.args : <<k, i>> \in reports} =
           IF c.name \in {"", "CBytes"} \/ ~c.outer \/ bad = {} THEN {}
           ELSE {CHOOSE i \in bad : \A j \in bad : i <= j}

=============================================================================
