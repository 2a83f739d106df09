----------------------------- MODULE MCResolver -----------------------------
(***************************************************************************)
(* Descriptor closures for checking Resolver.  Names are written as       *)
(* character sequences.                                                    *)
(***************************************************************************)
EXTENDS Resolver

CONSTANTS m, d1, d2, d3, bBool, cTrue

P  == <<"p">>
AP == <<"a", ".", "p">>
X  == <<"X">>
Y  == <<"Y">>
Z  == <<"Z">>

\* Main (package p) shares its package with d1; d2 and d3 share package
\* a.p and are merged; d2 has a nested type and an enum.
MCDeps == <<d1, d2, d3>>
MCPackage == [f \in Files |-> CASE f = m -> P [] f = d1 -> P [] OTHER -> AP]
MCMessages == [f \in Files |->
    CASE f = m  -> {[name |-> X, nested |-> {Y}]}
      [] f = d1 -> {[name |-> Y, nested |-> {}]}
      [] f = d2 -> {[name |-> X, nested |-> {Y}]}
      [] OTHER  -> {[name |-> Y, nested |-> {}]}]
MCEnums == [f \in Files |-> IF f = d2 THEN {[name |-> Z, values |-> {<<"Y", "Y">>}]} ELSE {}]
MCServices == [f \in Files |-> IF f = m THEN {Z} ELSE {}]
\* every declared name, and one that nothing declares
MCQueries == {d[1] : d \in UNION {Declared(f) : f \in Files}} \cup {<<".", "a", ".", "X">>}

\* Two-file closures: the main file and one import d1 of package p.
SmallDeps == <<d1>>
SmallEnums == [f \in Files |-> {}]
SmallServices == [f \in Files |-> {}]
SmallQueries == {d[1] : d \in UNION {Declared(f) : f \in Files}}

\* An empty package in the main file: protoc names its types ".X".
EmptyPackage == [f \in Files |-> IF f = m THEN <<>> ELSE P]
EmptyMessages == [f \in Files |-> IF f = m THEN {[name |-> X, nested |-> {}]}
                                  ELSE {[name |-> Y, nested |-> {}]}]

\* A message whose name starts with a character of its package: "pX" in p.
LowerMessages == [f \in Files |->
    IF f = m THEN {[name |-> <<"p", "X">>, nested |-> {Y}]} ELSE {[name |-> Y, nested |-> {}]}]
=============================================================================
