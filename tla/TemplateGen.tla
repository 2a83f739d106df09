---------------------------- MODULE TemplateGen ----------------------------
(***************************************************************************)
(* The template engine and file-set persister of pkg/template/template.go *)
(* (TemplateGenerator), over a small disk below OutputDir.                *)
(*                                                                         *)
(* Two callers drive it, selected by the constant Flow:                    *)
(*   "layout"  (cft new: app.go generateLayout) Init, one traverse-all     *)
(*             Generate, Persist, and Degenerate as the revert call;       *)
(*   "package" (the protoc plugin: plugin.go generatePackageFiles) Init,   *)
(*             Generate by template name any number of times,             *)
(*             GetFormatAndExcludedFiles, then protoc writes the returned  *)
(*             files below the --crafter_out directory.                    *)
(*                                                                         *)
(* Paths and directories are model values; DirOf gives a file's directory *)
(* and Anc a directory with all its ancestors up to ".", the OutputDir.   *)
(* Content is abstracted to who wrote it: "user" (there before the run),  *)
(* "gen" (written by this run), "trunc" (opened with O_TRUNC, the write    *)
(* then failed), "none" (absent).  I/O failures are nondeterministic.      *)
(***************************************************************************)
EXTENDS Naturals, Sequences, FiniteSets, SequencesExt, TLC

CONSTANTS
    Flow,           \* "layout" or "package"
    FilePaths,      \* relative file paths (also the package template names)
    DirNames,       \* relative directories, "." being OutputDir itself
    DirOf,          \* [FilePaths -> DirNames], filepath.Dir
    Anc,            \* [DirNames -> SUBSET DirNames], a dir and its ancestors
    NoFile,         \* the path of a directory layout entry ("a/b/")
    LayoutChoices,  \* the possible tg.Config.Layouts sequences
    Preloaded,      \* Templates loaded by HttpPackageGenerator.Init before
    IsPackageTpl,   \* tg.IsPackageTpl
    PkgDefault,     \* paths IsDefaultPackageTpl accepts
    Excludes,       \* tg.Excludes: records [path, clean] (raw spellings)
    DiskChoices,    \* possible disks before the run: [files, dirs] records
    OutIsCwd,       \* OutputDir is the process working directory
    CwdFiles,       \* files that exist relative to cwd when it is not
    MaxFiles        \* bound on named Generate calls

Contents == {"none", "user", "gen", "trunc"}

\* A layout entry (template.go Template) abstracted to what Init reads.
Layout == [path : FilePaths \cup {NoFile}, dir : DirNames,
           abs : BOOLEAN, parses : BOOLEAN]

\* util.File: the unit handed to Persist or to protoc.
Entry == [path : FilePaths, noRepeat : BOOLEAN, lint : BOOLEAN]

ASSUME /\ Flow \in {"layout", "package"}
       /\ DirOf \in [FilePaths -> DirNames]
       /\ Anc \in [DirNames -> SUBSET DirNames]
       /\ \A d \in DirNames : d \in Anc[d] /\ "." \in Anc[d]
       /\ LayoutChoices \subseteq Seq(Layout)
       /\ Excludes \subseteq [path : FilePaths, clean : BOOLEAN]
       /\ MaxFiles \in Nat

VARIABLES
    phase,      \* which call of the caller's sequence comes next
    templates,  \* DOMAIN tg.Templates
    tdirs,      \* tg.Dirs: directory -> existed when Init ran
    excluded,   \* the keys of tg.excludedFiles (raw spellings)
    files,      \* tg.files
    out,        \* the list GetFormatAndExcludedFiles returned to protoc
    diskFiles,  \* [FilePaths -> Contents]
    diskDirs    \* directories present on disk

vars == <<phase, templates, tdirs, excluded, files, out,
          diskFiles, diskDirs>>

-----------------------------------------------------------------------------
(* Helpers *)

\* tg.excludedFiles[filepath.Join(data.Path)]: Join cleans the generated
\* path, the keys are the user's strings as given, so only a spelling that
\* is already clean can match.
IsExcluded(p) == \E x \in excluded : x.clean /\ x.path = p

\* util.PathExist(filepath.Join(data.Path)): resolved against the process
\* working directory, not OutputDir.
PathExistCwd(p) == IF OutIsCwd THEN diskFiles[p] # "none" ELSE p \in CwdFiles

\* os.MkdirAll of a file's directory, done only when it is missing.
MkdirAll(dd, d) == IF d \in dd THEN dd ELSE dd \cup Anc[d]

\* d lies at or below some directory of D (os.RemoveAll of D reaches it).
Below(d, D) == \E r \in D : r \in Anc[d]

-----------------------------------------------------------------------------
\* Mutant: Init without `if noFile { continue }`, loading a directory
\* entry as a template.
RECURSIVE InitLoopNoDirCheck(_, _, _, _)
InitLoopNoDirCheck(ls, i, tpls, dirs) ==
    IF i > Len(ls) THEN [tpls |-> tpls, dirs |-> dirs, err |-> FALSE]
    ELSE LET l == ls[i]
             d2 == (l.dir :> (l.dir \in diskDirs)) @@ dirs
         IN  IF IsPackageTpl /\ l.path \in PkgDefault
               THEN InitLoopNoDirCheck(ls, i + 1, tpls, dirs)
             ELSE IF l.abs
               THEN [tpls |-> tpls, dirs |-> dirs, err |-> TRUE]
             ELSE IF l.path \in tpls
               THEN InitLoopNoDirCheck(ls, i + 1, tpls, d2)
             ELSE IF ~l.parses
               THEN [tpls |-> tpls, dirs |-> d2, err |-> TRUE]
             ELSE InitLoopNoDirCheck(ls, i + 1, tpls \cup {l.path}, d2)

(* TemplateGenerator.Init: the loop over the layouts, as a fold that     *)
(* returns the templates loaded, tg.Dirs and whether it returned an error.*)
RECURSIVE InitLoop(_, _, _, _)
InitLoop(ls, i, tpls, dirs) ==
    IF i > Len(ls) THEN [tpls |-> tpls, dirs |-> dirs, err |-> FALSE]
    ELSE LET l == ls[i]
             d2 == (l.dir :> (l.dir \in diskDirs)) @@ dirs
         IN  IF IsPackageTpl /\ l.path \in PkgDefault
               THEN InitLoop(ls, i + 1, tpls, dirs)
             ELSE IF l.abs
               THEN [tpls |-> tpls, dirs |-> dirs, err |-> TRUE]
             ELSE IF l.path = NoFile \/ l.path \in tpls
               THEN InitLoop(ls, i + 1, tpls, d2)
             ELSE IF ~l.parses          \* LoadLayout: Parse failed
               THEN [tpls |-> tpls, dirs |-> d2, err |-> TRUE]
             ELSE InitLoop(ls, i + 1, tpls \cup {l.path}, d2)

Init ==
    /\ phase = "new"
    /\ templates = IF Flow = "package" THEN Preloaded ELSE {}
    /\ tdirs = <<>>
    /\ excluded = {}
    /\ files = <<>>
    /\ out = <<>>
    /\ \E disk \in DiskChoices :
          /\ diskFiles = disk.files
          /\ diskDirs = disk.dirs

TemplateInit ==
    /\ phase = "new"
    /\ \E ls \in LayoutChoices :
         LET r == InitLoop(ls, 1, templates, tdirs) IN
         /\ templates' = r.tpls
         /\ tdirs' = r.dirs
         /\ IF r.err THEN phase' = "failed" /\ excluded' = excluded
                     ELSE phase' = "ready" /\ excluded' = Excludes
    /\ UNCHANGED <<files, out, diskFiles, diskDirs>>

-----------------------------------------------------------------------------
(* Generate.  A render (tpl.Execute) may fail on any input.               *)

\* GenerateNamed: generateWithSpecifiedTplName, the plugin's call.  The
\* lint result of its entries is not drawn: GetFormatAndExcludedFiles only
\* logs a lint failure.
GenerateNamed(name, path, noRepeat) ==
    /\ Flow = "package"
    /\ phase = "ready"
    /\ Len(files) < MaxFiles
    /\ \/ /\ name \notin templates                  \* "tpl not found"
          /\ phase' = "failed" /\ UNCHANGED files
       \/ /\ name \in templates                     \* render failed
          /\ phase' = "failed" /\ UNCHANGED files
       \/ /\ name \in templates
          /\ files' = Append(files, [path |-> path, noRepeat |-> noRepeat,
                                     lint |-> TRUE])
          /\ UNCHANGED phase
    /\ UNCHANGED <<templates, tdirs, excluded, out, diskFiles, diskDirs>>

\* generateByTraverseTpl: every template in map order, each rendered to its
\* own path; the first render error returns, the earlier files stay in
\* tg.files.  Each rendering is or is not valid Go (File.Lint).
GenerateTraverse(noRepeat) ==
    /\ Flow = "layout"
    /\ phase = "ready"
    /\ \E order \in SetToSeqs(templates), lint \in [templates -> BOOLEAN] :
         LET E(i) == [path |-> order[i], noRepeat |-> noRepeat,
                      lint |-> lint[order[i]]]
         IN \/ /\ files' = files \o [i \in 1..Len(order) |-> E(i)]
               /\ phase' = "generated"
            \/ \E k \in 1..Len(order) :
                 /\ files' = files \o [i \in 1..(k - 1) |-> E(i)]
                 /\ phase' = "failed"
    /\ UNCHANGED <<templates, tdirs, excluded, out, diskFiles, diskDirs>>

-----------------------------------------------------------------------------
\* Mutant: Persist with `break` for an excluded file instead of
\* `continue`.
RECURSIVE PersistFromBreakOnExcluded(_, _, _)
PersistFromBreakOnExcluded(i, fs, dd) ==
    IF i > Len(files) THEN {[f |-> fs, d |-> dd, ok |-> TRUE]}
    ELSE LET e  == files[i]
             mk == MkdirAll(dd, DirOf[e.path])
         IN  IF IsExcluded(e.path) THEN {[f |-> fs, d |-> dd, ok |-> TRUE]}
             ELSE IF ~e.lint THEN {[f |-> fs, d |-> dd, ok |-> FALSE]}
             ELSE {[f |-> fs, d |-> dd, ok |-> FALSE] :
                       x \in IF DirOf[e.path] \in dd THEN {} ELSE {1}}
                  \cup {[f |-> fs, d |-> mk, ok |-> FALSE],
                        [f |-> [fs EXCEPT ![e.path] = "trunc"], d |-> mk,
                         ok |-> FALSE]}
                  \cup PersistFromBreakOnExcluded(i + 1,
                                                  [fs EXCEPT ![e.path] = "gen"], mk)

\* Mutant: Persist without the -E check.
RECURSIVE PersistFromNoExclude(_, _, _)
PersistFromNoExclude(i, fs, dd) ==
    IF i > Len(files) THEN {[f |-> fs, d |-> dd, ok |-> TRUE]}
    ELSE LET e  == files[i]
             mk == MkdirAll(dd, DirOf[e.path])
         IN  IF ~e.lint THEN {[f |-> fs, d |-> dd, ok |-> FALSE]}
             ELSE {[f |-> fs, d |-> dd, ok |-> FALSE] :
                       x \in IF DirOf[e.path] \in dd THEN {} ELSE {1}}
                  \cup {[f |-> fs, d |-> mk, ok |-> FALSE],
                        [f |-> [fs EXCEPT ![e.path] = "trunc"], d |-> mk,
                         ok |-> FALSE]}
                  \cup PersistFromNoExclude(i + 1, [fs EXCEPT ![e.path] = "gen"], mk)

\* Mutant: Persist ignoring the WriteString error and going on with the
\* next file.
RECURSIVE PersistFromIgnoreWriteErr(_, _, _)
PersistFromIgnoreWriteErr(i, fs, dd) ==
    IF i > Len(files) THEN {[f |-> fs, d |-> dd, ok |-> TRUE]}
    ELSE LET e  == files[i]
             mk == MkdirAll(dd, DirOf[e.path])
         IN  IF IsExcluded(e.path) THEN PersistFromIgnoreWriteErr(i + 1, fs, dd)
             ELSE IF ~e.lint THEN {[f |-> fs, d |-> dd, ok |-> FALSE]}
             ELSE {[f |-> fs, d |-> dd, ok |-> FALSE] :
                       x \in IF DirOf[e.path] \in dd THEN {} ELSE {1}}
                  \cup {[f |-> fs, d |-> mk, ok |-> FALSE]}
                  \cup PersistFromIgnoreWriteErr(i + 1,
                                                 [fs EXCEPT ![e.path] = "trunc"], mk)
                  \cup PersistFromIgnoreWriteErr(i + 1,
                                                 [fs EXCEPT ![e.path] = "gen"], mk)

(* Persist: the loop over tg.files as the set of its possible outcomes.   *)
(* An excluded file is skipped; a lint error returns; MkdirAll of a       *)
(* missing directory, OpenFile (O_TRUNC) and WriteString may each fail.   *)
RECURSIVE PersistFrom(_, _, _)
PersistFrom(i, fs, dd) ==
    IF i > Len(files) THEN {[f |-> fs, d |-> dd, ok |-> TRUE]}
    ELSE LET e  == files[i]
             mk == MkdirAll(dd, DirOf[e.path])
         IN  IF IsExcluded(e.path) THEN PersistFrom(i + 1, fs, dd)
             ELSE IF ~e.lint THEN {[f |-> fs, d |-> dd, ok |-> FALSE]}
             ELSE {[f |-> fs, d |-> dd, ok |-> FALSE] :
                       x \in IF DirOf[e.path] \in dd THEN {} ELSE {1}}
                  \cup {[f |-> fs, d |-> mk, ok |-> FALSE],
                        [f |-> [fs EXCEPT ![e.path] = "trunc"], d |-> mk,
                         ok |-> FALSE]}
                  \cup PersistFrom(i + 1, [fs EXCEPT ![e.path] = "gen"], mk)

Persist ==
    /\ Flow = "layout"
    /\ phase = "generated"
    /\ \E r \in PersistFrom(1, diskFiles, diskDirs) :
         /\ diskFiles' = r.f
         /\ diskDirs' = r.d
         /\ IF r.ok THEN files' = <<>> /\ phase' = "persisted"
                    ELSE UNCHANGED files /\ phase' = "failed"
    /\ UNCHANGED <<templates, tdirs, excluded, out>>

\* Mutant: GetFormatAndExcludedFiles without the -E check.
KeepForProtocNoExclude(e) == ~(e.noRepeat /\ PathExistCwd(e.path))

\* GetFormatAndExcludedFiles: drops excluded files and no-repeat files that
\* already exist (seen from cwd); a lint failure is only a warning.
KeepForProtoc(e) == ~IsExcluded(e.path) /\ ~(e.noRepeat /\ PathExistCwd(e.path))

GetFormatAndExcludedFiles ==
    /\ Flow = "package"
    /\ phase = "ready"
    /\ out' = SelectSeq(files, KeepForProtoc)
    /\ phase' = "returned"
    /\ UNCHANGED <<templates, tdirs, excluded, files, diskFiles, diskDirs>>

\* protoc (not code of this repository) writes the plugin's response below
\* --crafter_out, which is OutputDir, refusing a response that names one
\* file twice.
OutPaths == {out[i].path : i \in DOMAIN out}

ProtocWrite ==
    /\ phase = "returned"
    /\ IF Cardinality(OutPaths) < Len(out)
         THEN phase' = "failed" /\ UNCHANGED <<diskFiles, diskDirs>>
         ELSE /\ diskFiles' = [p \in FilePaths |->
                                 IF p \in OutPaths THEN "gen" ELSE diskFiles[p]]
              /\ diskDirs' = diskDirs \cup UNION {Anc[DirOf[p]] : p \in OutPaths}
              /\ phase' = "written"
    /\ UNCHANGED <<templates, tdirs, excluded, files, out>>

\* Degenerate: RemoveAll of every template path, then of every directory
\* Init found missing.  Its callers are outside this repository; it is
\* modelled as callable once Init has run, as a revert of the layout.
Degenerate ==
    /\ Flow = "layout"
    /\ phase \notin {"new", "reverted"}
    /\ LET gone == {d \in DOMAIN tdirs : ~tdirs[d]} IN
       /\ diskFiles' = [p \in FilePaths |->
                          IF p \in templates \/ Below(DirOf[p], gone)
                            THEN "none" ELSE diskFiles[p]]
       /\ diskDirs' = {d \in diskDirs : ~Below(d, gone)}
    /\ phase' = "reverted"
    /\ UNCHANGED <<templates, tdirs, excluded, files, out>>

Next ==
    \/ TemplateInit
    \/ \E n \in FilePaths, p \in FilePaths, nr \in BOOLEAN : GenerateNamed(n, p, nr)
    \/ \E nr \in BOOLEAN : GenerateTraverse(nr)
    \/ Persist
    \/ GetFormatAndExcludedFiles
    \/ ProtocWrite
    \/ Degenerate

Spec == Init /\ [][Next]_vars

-----------------------------------------------------------------------------
(* Properties *)

TypeOK ==
    /\ phase \in {"new", "ready", "generated", "persisted", "returned",
                  "written", "failed", "reverted"}
    /\ templates \subseteq FilePaths
    /\ DOMAIN tdirs \subseteq DirNames /\ tdirs \in [DOMAIN tdirs -> BOOLEAN]
    /\ excluded \in {{}, Excludes}
    /\ files \in Seq(Entry) /\ out \in Seq(Entry)
    /\ diskFiles \in [FilePaths -> Contents]
    /\ diskDirs \subseteq DirNames

\* A file the user names with -E (Option.Excludes) is never created,
\* truncated or overwritten by Persist or by protoc writing the plugin's
\* files, however the user spelled the path.  (Degenerate, the revert, is
\* left out: it removes what the run created.)
ExcludedUntouched ==
    [][phase' # "reverted" =>
         \A x \in Excludes : diskFiles'[x.path] = diskFiles[x.path]]_vars

\* When Persist has returned nil, every template's file is on disk with the
\* content this run rendered, except the excluded ones, whatever map order
\* and whatever mix of excluded and existing files the loop met.
PersistedAll ==
    phase = "persisted" =>
        \A p \in templates : IsExcluded(p) \/ diskFiles[p] = "gen"

-----------------------------------------------------------------------------
(* The layout flow implements the abstract file-set writer of FileSet:    *)
(* tg.files is the batch, DOMAIN tg.Templates the named paths, and the    *)
(* phases of the caller's sequence are the abstract stages.               *)

StageOf == [new |-> "new", ready |-> "render", generated |-> "flush",
            persisted |-> "done", failed |-> "failed", reverted |-> "reverted",
            returned |-> "flush", written |-> "done"]

FS == INSTANCE FileSet
        WITH Paths <- FilePaths,
             Excluded <- {x.path : x \in {y \in Excludes : y.clean}},
             stage <- StageOf[phase],
             names <- templates,
             batch <- [i \in DOMAIN files |-> files[i].path],
             disk <- diskFiles

\* Every behaviour of TemplateGenerator Init, Generate (traversing the
\* layout), Persist and Degenerate is one of the abstract writer's: the
\* batch is flushed in order, an excluded path is skipped, the first
\* failing file ends the flush untouched or truncated with every later one
\* untouched, a render error writes nothing, and the revert removes exactly
\* the named paths (the directories Init found missing hold nothing else).
FileSetRefinement == FS!Spec

=============================================================================
