----------------------------- MODULE MCModelGen -----------------------------
(***************************************************************************)
(* Model values and graphs for ModelGen.  Project package "p", model       *)
(* directory "m".                                                          *)
(*   a  root, package p/m/x (already under the model directory, as        *)
(*      fixGoPackage leaves every go_package), imports b and f;           *)
(*   c  root, empty model, package p/c, imports b and e;                  *)
(*   b  foreign (package y), shared by a and c, imports d and f;          *)
(*   f  foreign (package x): relocated to p/m/x, a's own package, so a's  *)
(*      import of it must be elided after the walk;                        *)
(*   d  package p/q, reached only below b and e, imports f and g;         *)
(*   g  package p/m/x like a, two imports below the roots.                 *)
(*   e  package pz: it starts with "p" without being under p/, and the    *)
(*      prefix test of the rewrite has no "/" boundary; imports d.         *)
(***************************************************************************)
EXTENDS ModelGen

CONSTANTS a, b, c, d, e, f, g

MCModels == {a, b, c, d, e, f, g}
MCRoots == <<a, c>>
MCPackage0 == (a :> "p/m/x") @@ (b :> "y") @@ (c :> "p/c") @@ (d :> "p/q") @@ (e :> "pz") @@ (f :> "x") @@ (g :> "p/m/x")
MCPackageName == (a :> "x") @@ (b :> "y") @@ (c :> "c") @@ (d :> "q") @@ (e :> "pz") @@ (f :> "x") @@ (g :> "x")
MCFileBase == (a :> "a") @@ (b :> "b") @@ (c :> "c") @@ (d :> "d") @@ (e :> "e") @@ (f :> "f") @@ (g :> "g")
MCImports0 == (a :> {b, f}) @@ (b :> {d, f}) @@ (c :> {b, e}) @@ (d :> {f, g}) @@ (e :> {d}) @@ (f :> {}) @@ (g :> {})
MCEmpty == {c}
====
