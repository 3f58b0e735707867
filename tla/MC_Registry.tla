---------------------------- MODULE MC_Registry ----------------------------
(***************************************************************************)
(* A small registry: two name segments, packages of depth at most 2 and   *)
(* six files chosen so that every conflict Register detects can happen:   *)
(*   f1  package a,   declares b            (full name a.b)               *)
(*   f2  package a.b, declares a            (blocked on the walk by a.b)  *)
(*   f3  package a,   declares a and b      (a.b taken by f1)             *)
(*   f4  package "",  declares a            (a taken by package a)        *)
(*   f5  package a.a, declares nothing      (rejected only on its walk)   *)
(*   f6  a placeholder                                                     *)
(* Depending on the order, f1 and f3, or f2 and f1, or f4 and f1, exclude *)
(* each other; a file without declarations may be registered repeatedly.  *)
(***************************************************************************)
EXTENDS Registry

CONSTANTS a, b, f1, f2, f3, f4, f5, f6, p1, p2

MCPkg == (f1 :> <<a>>) @@ (f2 :> <<a, b>>) @@ (f3 :> <<a>>) @@
         (f4 :> <<>>) @@ (f5 :> <<a, a>>) @@ (f6 :> <<b>>)

MCDecls == (f1 :> {b}) @@ (f2 :> {a}) @@ (f3 :> {a, b}) @@
           (f4 :> {a}) @@ (f5 :> {}) @@ (f6 :> {a})

MCFilePath == (f1 :> p1) @@ (f2 :> p2) @@ (f3 :> p1) @@
              (f4 :> p2) @@ (f5 :> p1) @@ (f6 :> p2)

=============================================================================
