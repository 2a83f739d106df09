------------------------------ MODULE ModelGen ------------------------------
(***************************************************************************)
(* The model-graph walk of the package generator: GeneratePackage calls    *)
(* GenModel(m, NeedModel) for every root model of the IDL, and GenModel    *)
(* rewrites a model's output path and package once (memoised in            *)
(* processedModels), recurses into every import with gen = false, and, when *)
(* gen holds and the model is not empty, elides the imports of its own     *)
(* package and renders it through the template generator.                 *)
(*                                                                         *)
(* The Go call stack is the variable stack: one frame per active GenModel  *)
(* call, holding the imports its range loop has still to visit.  Go ranges *)
(* over the Imports map in random order, so the next import is any member  *)
(* of todo.  Package names and paths are TLA+ strings, so that the prefix  *)
(* test of the rewrite is the one Go computes.                             *)
(***************************************************************************)
EXTENDS Naturals, Sequences, FiniteSets, GoStrings

CONSTANTS
    Models,        \* the *model.Model values of the pass (identity = pointer)
    Roots,         \* PackageDescription.Models, in slice order
    Package0,      \* Model.Package as built by the resolver
    PackageName,   \* Model.PackageName (never rewritten by GenModel)
    FileBase,      \* util.BaseNameAndTrim(Model.FilePath)
    Imports0,      \* Model.Imports as built by the resolver
    EmptyModels,   \* the models for which Model.IsEmpty() holds
    ProjPackage,   \* HttpPackageGenerator.ProjPackage
    ModelDir,      \* HttpPackageGenerator.ModelDir
    NeedModel,     \* HttpPackageGenerator.NeedModel
    MaxDepth       \* bound on the Go call stack (never reached: imports are acyclic)

ASSUME /\ Roots \in Seq(Models)
       /\ Imports0 \in [Models -> SUBSET Models]
       /\ EmptyModels \subseteq Models
       /\ NeedModel \in BOOLEAN
       /\ MaxDepth \in Nat \ {0}

VARIABLES
    pkg,        \* Model.Package, per model
    filePath,   \* Model.FilePath, per model ("" until rewritten)
    imports,    \* Model.Imports, per model
    processed,  \* the key set of pkgGen.processedModels
    stack,      \* active GenModel frames [m, gen, todo]
    rootIdx,    \* index of the last root GeneratePackage has started
    rendered,   \* files appended by TemplateGenerator.Generate, in order
    phase       \* "run", "done" or "failed"

vars == <<pkg, filePath, imports, processed, stack, rootIdx, rendered, phase>>

(***************************************************************************)
(* Path helpers.  util.SubDir, util.SubPackage and filepath.Join are not   *)
(* in the sources; they are modelled for the clean, slash-separated paths  *)
(* the generator passes them.                                              *)
(***************************************************************************)
StripSlash(s) == IF HasPrefix(s, "/") THEN TrimPrefix(s, "/") ELSE s

\* filepath.Join(a, b) for clean a and b
PathJoin(a, b) ==
    LET c == StripSlash(b)
    IN  IF a = "" THEN c ELSE IF c = "" THEN a ELSE a \o "/" \o c

\* util.SubDir(root, sub)
SubDir(root, sub) == IF root = "" THEN sub ELSE PathJoin(root, sub)

\* util.SubPackage(mod, dir)
SubPackage(mod, dir) == IF dir = "" THEN mod ELSE mod \o "/" \o StripSlash(dir)

(***************************************************************************)
(* The memoised rewrite of GenModel: a model whose package starts with     *)
(* ProjPackage (and whose short name is not ProjPackage) keeps its package *)
(* and is placed under ModelDir at the remainder; any other model is       *)
(* foreign and is moved under ModelDir with its package rewritten.         *)
(***************************************************************************)
UnderProject(m) ==
    HasPrefix(pkg[m], ProjPackage) /\ PackageName[m] # ProjPackage

RelPath(m) ==
    IF UnderProject(m) THEN TrimPrefix(pkg[m], ProjPackage) ELSE pkg[m]

ModelDirOf(m) == SubDir(ModelDir, RelPath(m))

RewrittenPackage(m) ==
    IF UnderProject(m) THEN pkg[m] ELSE SubPackage(ProjPackage, ModelDirOf(m))

RewrittenPath(m) == PathJoin(ModelDirOf(m), FileBase[m] \o ".go")

\* removeDuplicateImport: the imports whose package differs from m's own.
RemoveDuplicateImport(m) == {d \in imports[m] : pkg[d] # pkg[m]}

\* Mutant: only a root's call ranges over its imports.
FrameRootsOnly(m, gen) == [m |-> m, gen |-> gen, todo |-> IF gen THEN imports[m] ELSE {}]

Frame(m, gen) == [m |-> m, gen |-> gen, todo |-> imports[m]]

Top == stack[Len(stack)]

(***************************************************************************)
(* Entering GenModel(m, gen) from the caller whose stack is base: the memo *)
(* test and the rewrite, then the frame with the imports the range loop    *)
(* will visit.                                                             *)
(***************************************************************************)
\* Mutant: the rewrite done without recording the model in processedModels.
EnterNoRegister(base, m, gen) ==
    /\ Len(base) < MaxDepth
    /\ IF m \notin processed
         THEN /\ pkg' = [pkg EXCEPT ![m] = RewrittenPackage(m)]
              /\ filePath' = [filePath EXCEPT ![m] = RewrittenPath(m)]
         ELSE UNCHANGED <<pkg, filePath>>
    /\ UNCHANGED processed
    /\ stack' = Append(base, Frame(m, gen))

Enter(base, m, gen) ==
    /\ Len(base) < MaxDepth
    /\ IF m \notin processed
         THEN /\ pkg' = [pkg EXCEPT ![m] = RewrittenPackage(m)]
              /\ filePath' = [filePath EXCEPT ![m] = RewrittenPath(m)]
              /\ processed' = processed \cup {m}
         ELSE UNCHANGED <<pkg, filePath, processed>>
    /\ stack' = Append(base, Frame(m, gen))

Init ==
    /\ pkg = Package0
    /\ filePath = [m \in Models |-> ""]
    /\ imports = Imports0
    /\ processed = {}
    /\ stack = <<>>
    /\ rootIdx = 0
    /\ rendered = <<>>
    /\ phase = IF Roots = <<>> THEN "done" ELSE "run"

(***************************************************************************)
(* GeneratePackage's loop: start GenModel on the next root once the        *)
(* previous call has returned.                                             *)
(***************************************************************************)
StartRoot ==
    /\ phase = "run"
    /\ stack = <<>>
    /\ rootIdx < Len(Roots)
    /\ rootIdx' = rootIdx + 1
    /\ Enter(<<>>, Roots[rootIdx + 1], NeedModel)
    /\ UNCHANGED <<imports, rendered, phase>>

(***************************************************************************)
(* One iteration of `for _, dep := range data.Imports`: the recursive call *)
(* GenModel(dep, false).                                                   *)
(***************************************************************************)
VisitImport ==
    /\ phase = "run"
    /\ stack # <<>>
    /\ \E dep \in Top.todo :
         Enter([stack EXCEPT ![Len(stack)].todo = @ \ {dep}], dep, FALSE)
    /\ UNCHANGED <<imports, rootIdx, rendered, phase>>

(***************************************************************************)
(* The return of GenModel once its loop is over.  When gen holds and the   *)
(* model is not empty, removeDuplicateImport runs and Generate renders the *)
(* model at its path; Generate may fail, and the error is returned through *)
(* every caller and out of GeneratePackage.  The return of the last root's *)
(* call ends the loop of GeneratePackage.                                  *)
(***************************************************************************)
Emits(f) == f.gen /\ f.m \notin EmptyModels

Render(m) == [m |-> m, path |-> filePath[m], pkg |-> pkg[m],
              imports |-> RemoveDuplicateImport(m)]

ReturnOk ==
    /\ phase = "run"
    /\ stack # <<>>
    /\ Top.todo = {}
    /\ IF Emits(Top)
         THEN /\ imports' = [imports EXCEPT ![Top.m] = RemoveDuplicateImport(Top.m)]
              /\ rendered' = Append(rendered, Render(Top.m))
         ELSE UNCHANGED <<imports, rendered>>
    /\ stack' = Front(stack)
    /\ phase' = IF Len(stack) = 1 /\ rootIdx = Len(Roots) THEN "done" ELSE "run"
    /\ UNCHANGED <<pkg, filePath, processed, rootIdx>>

RenderFails ==
    /\ phase = "run"
    /\ stack # <<>>
    /\ Top.todo = {}
    /\ Emits(Top)
    /\ imports' = [imports EXCEPT ![Top.m] = RemoveDuplicateImport(Top.m)]
    /\ phase' = "failed"
    /\ UNCHANGED <<pkg, filePath, processed, stack, rootIdx, rendered>>

Next == StartRoot \/ VisitImport \/ ReturnOk \/ RenderFails

Spec == Init /\ [][Next]_vars

-----------------------------------------------------------------------------
(***************************************************************************)
(* Properties                                                              *)
(***************************************************************************)
Frames == [m : Models, gen : BOOLEAN, todo : SUBSET Models]

TypeOK ==
    /\ processed \subseteq Models
    /\ imports \in [Models -> SUBSET Models]
    /\ stack \in Seq(Frames) /\ Len(stack) <= MaxDepth
    /\ rootIdx \in 0..Len(Roots)
    /\ phase \in {"run", "done", "failed"}
    /\ \A m \in Models : m \notin processed => filePath[m] = "" /\ pkg[m] = Package0[m]

\* The models reachable from the models of S through Model.Imports.
RECURSIVE ImportClosure(_)
ImportClosure(S) ==
    LET T == S \cup UNION {Imports0[x] : x \in S}
    IN  IF T = S THEN S ELSE ImportClosure(T)

(***************************************************************************)
(* When GeneratePackage's loop over the roots completes, every model in   *)
(* the import closure of a root has been registered (given its path and  *)
(* package), however deep: the range loop recurses with gen = false even *)
(* below models that are not rendered.                                     *)
(***************************************************************************)
ImportClosureRegistered ==
    phase = "done" =>
        processed = ImportClosure({Roots[i] : i \in 1..Len(Roots)})

====
