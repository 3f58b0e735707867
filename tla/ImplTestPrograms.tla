-------------------------- MODULE ImplTestPrograms --------------------------
(***************************************************************************)
(* The impl tests of src/dl/go1.10/main.go as operation lists for the     *)
(* driver of ImplTests, on one message whose descriptor holds a few       *)
(* fields of each test: two proto2 scalars (TestScalarProto2), two proto3 *)
(* scalars (TestScalarProto3), three repeated fields (TestRepeatedScalars) *)
(* four map fields (TestMapScalars) and a oneof of three members          *)
(* (TestOneofs).  The tests' field kinds and values are abstracted to a   *)
(* few distinct values; each test leaves its fields cleared, so the tests *)
(* run one after the other on the same message.                           *)
(***************************************************************************)
EXTENDS Naturals, Sequences, TLC

NilVal == "nil"      \* pref.Value{} and V(nil)
ZeroVal == "zero"    \* the zero value of a field's kind
KeySet == {"k0", "k1", "k2", "k3"}

P2 == {1, 2}
P3 == {3, 4}
Rep == {5, 6, 7}
MapF == {8, 9, 10, 11}
OneofF == {12, 13, 14}
TestFields == P2 \cup P3 \cup Rep \cup MapF \cup OneofF

Flags(w, o, m, r) ==
  [weak |-> w, oneof |-> o, isMap |-> m, repeated |-> r, message |-> FALSE,
   proto3 |-> FALSE]

\* The ptype.Field lists of the tests' descriptors.  A map field is a
\* repeated field of a map-entry message.
TestFieldDesc ==
  [n \in TestFields |->
     CASE n \in P3     -> [Flags(FALSE, "none", FALSE, FALSE) EXCEPT !.proto3 = TRUE]
       [] n \in Rep    -> Flags(FALSE, "none", FALSE, TRUE)
       [] n \in MapF   -> Flags(FALSE, "none", TRUE, TRUE)
       [] n \in OneofF -> Flags(FALSE, "union", FALSE, FALSE)
       [] OTHER        -> Flags(FALSE, "none", FALSE, FALSE)]

TestDefault == [n \in TestFields |-> IF n \in P2 \cup OneofF THEN "d" ELSE ZeroVal]

TestVals == {ZeroVal, "d", "v1", "v2", "v3"}

All(S, v) == [n \in S |-> v]
EmptyMapVal == All(KeySet, NilVal)
MapOf(f) == [k \in KeySet |-> IF k \in DOMAIN f THEN f[k] ELSE NilVal]
Op(o, a) == [op |-> o, arg |-> a]

\* The message value with the fields of f set and every other one empty.
Msg(f) ==
  [n \in TestFields |->
     IF n \in DOMAIN f THEN f[n]
     ELSE CASE n \in P2 \cup OneofF -> NilVal
            [] n \in P3             -> ZeroVal
            [] n \in Rep            -> <<>>
            [] n \in MapF           -> EmptyMapVal]

Empty == Msg(<<>>)

\* TestScalarProto2: defaults before set, presence of a set zero value.
ScalarProto2Ops ==
  << Op("has", All(P2, FALSE)), Op("get", All(P2, "d")),
     Op("set", All(P2, ZeroVal)), Op("has", All(P2, TRUE)),
     Op("equal", Msg(All(P2, ZeroVal))), Op("clear", All(P2, TRUE)),
     Op("equal", Empty) >>

\* TestScalarProto3: a set zero value is absent.
ScalarProto3Ops ==
  << Op("has", All(P3, FALSE)), Op("get", All(P3, ZeroVal)),
     Op("set", All(P3, ZeroVal)), Op("has", All(P3, FALSE)), Op("equal", Empty),
     Op("set", 3 :> "v1" @@ 4 :> "v2"), Op("has", All(P3, TRUE)),
     Op("equal", Msg(3 :> "v1" @@ 4 :> "v2")), Op("clear", All(P3, TRUE)),
     Op("equal", Empty) >>

WantRep == 5 :> <<"v1", "v2">> @@ 6 :> <<"v1", ZeroVal, "v2">>
                               @@ 7 :> <<"v1", ZeroVal, "v3">>

\* TestRepeatedScalars: set from another message, and the list handle.
RepeatedOps ==
  << Op("has", All(Rep, FALSE)), Op("get", 5 :> <<>>),
     Op("set", 5 :> WantRep[5]),
     Op("vector",
        6 :> << Op("len", 0), Op("append", [i \in 1..6 |-> ZeroVal]), Op("len", 6),
                Op("set", 0 :> "v1" @@ 2 :> "v2"), Op("trunc", 3),
                Op("get", 0 :> "v1" @@ 1 :> ZeroVal), Op("equal", WantRep[6]) >>
     @@ 7 :> << Op("append", <<ZeroVal, ZeroVal>>), Op("set", 0 :> "v1"),
                Op("append", <<"v2">>), Op("set", 2 :> "v3"),
                Op("equal", WantRep[7]) >>),
     Op("has", All(Rep, TRUE)), Op("equal", Msg(WantRep)),
     Op("clear", All(Rep, TRUE)), Op("equal", Empty) >>

WantMap == 8 :> MapOf("k0" :> "v1" @@ "k1" :> "v2")
        @@ 9 :> MapOf("k0" :> "v1" @@ "k1" :> "v2" @@ "k2" :> "v3")
        @@ 10 :> MapOf("k0" :> ZeroVal @@ "k1" :> "v2")
        @@ 11 :> MapOf("k0" :> "v1" @@ "k1" :> "v2")

\* TestMapScalars: set from another message, and the map handle.
MapOps ==
  << Op("has", All(MapF, FALSE)), Op("get", 8 :> EmptyMapVal),
     Op("set", 8 :> WantMap[8]),
     Op("map",
        9 :> << Op("len", 0), Op("has", All({"k0", "k1", "k2"}, FALSE)),
                Op("set", "k0" :> "v1"), Op("len", 1),
                Op("has", "k0" :> TRUE @@ "k1" :> FALSE @@ "k2" :> FALSE),
                Op("set", "k1" :> "v2"), Op("len", 2),
                Op("has", "k0" :> TRUE @@ "k1" :> TRUE @@ "k2" :> FALSE),
                Op("set", "k2" :> "v3"), Op("len", 3),
                Op("has", All({"k0", "k1", "k2"}, TRUE)) >>
     @@ 10 :> << Op("clear", "k3" :> TRUE), Op("set", "k1" :> "v2"),
                 Op("set", "k0" :> "v3"),
                 Op("get", "k0" :> "v3" @@ "k1" :> "v2" @@ "k3" :> NilVal),
                 Op("set", "k0" :> ZeroVal @@ "k2" :> "v1"),
                 Op("clear", "k2" :> TRUE @@ "k3" :> TRUE) >>
     @@ 11 :> << Op("range", <<>>),
                 Op("set", "k0" :> "v1" @@ "k1" :> "v2" @@ "k2" :> "v3"),
                 Op("clear", "k2" :> TRUE @@ "k3" :> TRUE),
                 Op("range", "k0" :> "v1" @@ "k1" :> "v2"), Op("len", 2),
                 Op("equal", WantMap[11]) >>),
     Op("has", All(MapF, TRUE)), Op("equal", Msg(WantMap)),
     Op("clear", All(MapF, TRUE)), Op("equal", Empty) >>

\* TestOneofs: setting a member replaces the active one; clearing an
\* inactive member leaves the active one in place.
OneofsOps ==
  << Op("has", All(OneofF, FALSE)), Op("get", All(OneofF, "d")),
     Op("set", 12 :> "v1"), Op("has", 12 :> TRUE), Op("equal", Msg(12 :> "v1")),
     Op("set", 13 :> "v2"), Op("has", 13 :> TRUE), Op("equal", Msg(13 :> "v2")),
     Op("set", 14 :> "v3"), Op("has", 14 :> TRUE), Op("equal", Msg(14 :> "v3")),
     Op("has", 12 :> FALSE @@ 13 :> FALSE @@ 14 :> TRUE),
     Op("get", 12 :> "d" @@ 13 :> "d" @@ 14 :> "v3"),
     Op("clear", 12 :> TRUE @@ 13 :> TRUE), Op("equal", Msg(14 :> "v3")),
     Op("clear", 14 :> TRUE), Op("equal", Empty) >>

TestProg == ScalarProto2Ops \o ScalarProto3Ops \o RepeatedOps \o MapOps \o OneofsOps

=============================================================================
