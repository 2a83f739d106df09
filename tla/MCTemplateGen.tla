--------------------------- MODULE MCTemplateGen ---------------------------
(* Small layouts and disks for TemplateGen.  Paths p1 (in "."), p2 (in   *)
(* "a/b", two levels down) and p3 (in "a"); p3 is the excluded one.       *)
EXTENDS TemplateGen

CONSTANTS p1, p2, p3

MCFilePaths == {p1, p2, p3}
MCDirNames == {".", "a", "a/b"}
MCDirOf == (p1 :> ".") @@ (p2 :> "a/b") @@ (p3 :> "a")
MCAnc == ("." :> {"."}) @@ ("a" :> {".", "a"}) @@ ("a/b" :> {".", "a", "a/b"})

\* Layout entries: a file template, one that does not parse, one with an
\* absolute path, a directory entry "d/".
F(p) == [path |-> p, dir |-> MCDirOf[p], abs |-> FALSE, parses |-> TRUE]
Bad(p) == [F(p) EXCEPT !.parses = FALSE]
Absolute(p) == [F(p) EXCEPT !.abs = TRUE]
Marker(d) == [path |-> NoFile, dir |-> d, abs |-> FALSE, parses |-> TRUE]

\* Disks before the run: nothing at all; OutputDir with a user file p1;
\* OutputDir and "a" with a user file p3.
NoFiles == [p \in MCFilePaths |-> "none"]
MCDiskChoices ==
    { [files |-> NoFiles, dirs |-> {}],
      [files |-> [NoFiles EXCEPT ![p1] = "user"], dirs |-> {"."}],
      [files |-> [NoFiles EXCEPT ![p3] = "user"], dirs |-> {".", "a"}] }

\* cft new: the layout with a duplicate entry (first wins, so the broken
\* second p2 is never parsed) and a directory entry; or a layout Init
\* rejects.
LayoutFlowLayouts ==
    { <<F(p1), F(p2), Bad(p2), F(p3), Marker("a")>>,
      <<F(p1), Absolute(p2)>>,
      <<F(p1), Bad(p3)>> }
\* The plugin: p1 is a default package template loaded before Init, so a
\* custom entry for it is skipped; p2 is a custom template; "a/" a directory entry.
PackageFlowLayouts ==
    { <<F(p1), F(p2)>>,
      <<F(p2), Bad(p3)>>,
      <<F(p1), F(p2), Marker("a")>> }

CleanExcludes == {[path |-> p3, clean |-> TRUE]}
\* -E ./a/p3: the same file spelled with a leading "./".
UncleanExcludes == {[path |-> p3, clean |-> FALSE]}
=============================================================================
