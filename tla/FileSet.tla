------------------------------ MODULE FileSet ------------------------------
(***************************************************************************)
(* What the layout side of the template engine promises, without its      *)
(* loops: a layout names a set of paths; rendering produces the batch of   *)
(* files to write, and an error there writes nothing; the flush writes    *)
(* the batch in order, skipping excluded paths, and the first failing     *)
(* file aborts the rest, leaving that file untouched or truncated; a     *)
(* revert removes every path the layout names.                             *)
(***************************************************************************)
EXTENDS Naturals, Sequences, FiniteSets

CONSTANTS
    Paths,     \* the file paths
    Excluded   \* the paths the exclusion set matches

VARIABLES
    stage,     \* "new", "render", "flush", "done", "failed" or "reverted"
    names,     \* the paths the loaded layout names
    batch,     \* the rendered files to flush, as a sequence of paths
    disk       \* [Paths -> content]: "none", "user", "gen" or "trunc"

vars == <<stage, names, batch, disk>>

Init ==
    /\ stage = "new"
    /\ names = {}
    /\ batch = <<>>
    /\ disk \in [Paths -> {"none", "user"}]

\* Loading the layout: it names some paths, or fails part-way.
Load ==
    /\ stage = "new"
    /\ names' \in SUBSET Paths
    /\ stage' \in {"render", "failed"}
    /\ UNCHANGED <<batch, disk>>

\* Rendering every named template in some order; an error stops it before
\* anything is written.
Render ==
    /\ stage = "render"
    /\ \E S \in SUBSET names, ok \in BOOLEAN :
         \E b \in [1..Cardinality(S) -> S] :
           /\ \A i, j \in DOMAIN b : b[i] = b[j] => i = j
           /\ ok => S = names
           /\ batch' = b
           /\ stage' = IF ok THEN "flush" ELSE "failed"
    /\ UNCHANGED <<names, disk>>

\* The batch without the excluded paths.
ToWrite == SelectSeq(batch, LAMBDA p : p \notin Excluded)

\* Flushing: the first k files of ToWrite are written; either that is all
\* of them, or the next one fails, untouched or truncated, and the rest are
\* never reached.
Flush ==
    /\ stage = "flush"
    /\ \E k \in 0..Len(ToWrite) :
         LET done == {ToWrite[i] : i \in 1..k}
             Wrote(p) == IF p \in done THEN "gen" ELSE disk[p]
         IN  \/ /\ k = Len(ToWrite)
                /\ disk' = [p \in Paths |-> Wrote(p)]
                /\ batch' = <<>>
                /\ stage' = "done"
             \/ /\ k < Len(ToWrite)
                /\ \E c \in {disk[ToWrite[k + 1]], "trunc"} :
                     disk' = [p \in Paths |->
                                IF p = ToWrite[k + 1] THEN c ELSE Wrote(p)]
                /\ UNCHANGED batch
                /\ stage' = "failed"
    /\ UNCHANGED names

\* Reverting: every named path is removed, written or not.
Revert ==
    /\ stage \notin {"new", "reverted"}
    /\ disk' = [p \in Paths |-> IF p \in names THEN "none" ELSE disk[p]]
    /\ stage' = "reverted"
    /\ UNCHANGED <<names, batch>>

Next == Load \/ Render \/ Flush \/ Revert

Spec == Init /\ [][Next]_vars

=============================================================================
