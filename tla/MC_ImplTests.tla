---------------------------- MODULE MC_ImplTests ----------------------------
(* The impl tests of main.go, run by the driver on the facade.            *)
EXTENDS ImplTests, ImplTestPrograms

MCTable == TestFields
=============================================================================
