-------------------------------- MODULE App --------------------------------
(***************************************************************************)
(* The cft commands of cmd/cft/app/app.go, a sequence of them run one      *)
(* after another in one project directory (OutDir, also the working       *)
(* directory).  Each command is one action: option parsing, the project   *)
(* check, the layout, the protoc run with the plugin                       *)
(* (plugin.go Handle -> generatePackageFiles -> GeneratePackage ->         *)
(* genClient / genHttpClient / genError) and the manifest, with every     *)
(* error exit.  The plugin runs to completion while cft waits in          *)
(* CombinedOutput, so it is part of the command's step.                    *)
(*                                                                         *)
(* A file is a record [dir, name]; a directory is a sequence of path      *)
(* segments, so filepath.Join is concatenation.  Content is not modelled: *)
(* the disk is the set of files present.  The template engine under the  *)
(* generator (exclusions, no-repeat, I/O failures) is TemplateGen; here a *)
(* generator step either produces its files or fails.                      *)
(***************************************************************************)
EXTENDS Naturals, Sequences, FiniteSets, TLC

CONSTANTS
    Invocations,     \* the command lines the user may type (records)
    AbsDir,          \* a flag value that is an absolute path
    DefaultModelDir, \* meta.ModelDir ("biz/model") as path segments
    IdlRel,          \* the IDL's go_package below the module, as segments
    ServiceNames,    \* <<lower(s.Name+".go") : s in pkg.Services>>, in IDL order
    LayoutSeq,       \* the default layout's files, in the order Persist writes them
    GoModFile,       \* the module descriptor the layout adds when NeedGoMod
    NoModule,        \* the value of gomod while there is no go.mod
    NoInvocation,    \* last.inv before the first command
    MaxCommands      \* bound on the number of commands run

VARIABLES
    disk,      \* the generated files present below OutDir
    gomod,     \* the module named by OutDir/go.mod, or NoModule
    manifest,  \* the .cft manifest: [exists, modelDir]
    ncmds,     \* commands run so far
    last       \* ghost: the last command, its exit code and the files it wrote

vars == <<disk, gomod, manifest, ncmds, last>>

\* meta's exit codes
LoadError == 1
GenerateLayoutError == 2
PersistError == 3
PluginError == 4

-----------------------------------------------------------------------------
(* Options *)

\* A flag value as path segments ("" is no segment).
Seg(s) == IF s = "" THEN <<>> ELSE <<s>>

File(dir, name) == [dir |-> dir, name |-> name]

SeqSet(s) == {s[i] : i \in DOMAIN s}

\* Mutant: an absolute -model_dir is accepted.
checkPathModelDirUnchecked(inv) == inv.clientDir # AbsDir

\* Option.checkPath, checkIDL and checkPackage, for OutDir the working
\* directory, GOPATH set and the working directory outside GOPATH/src (so
\* Gopkg is "" and a project outside a module has no module name).
checkPath(inv) == inv.modelDir # AbsDir /\ inv.clientDir # AbsDir
checkIDL(inv) == inv.idl \in {"none", "proto"}
checkPackage(inv) ==
    IF inv.mod = "" THEN gomod # NoModule
    ELSE gomod = NoModule \/ gomod = inv.mod

\* Option.Parse: the option the command runs with, or not ok.
Parse(inv) ==
    [ok        |-> checkPath(inv) /\ checkIDL(inv) /\ checkPackage(inv),
     mod       |-> IF inv.mod = "" THEN gomod ELSE inv.mod,
     needGoMod |-> gomod = NoModule] @@ inv

\* Option.UpdateByManifest
UpdateByManifest(opt, m) ==
    IF opt.modelDir = "" /\ m.modelDir # ""
      THEN [opt EXCEPT !.modelDir = m.modelDir] ELSE opt

\* Option.SetManifest (Version and ModelDir) followed by Manifest.Persist.
SetManifest(opt) == [exists |-> TRUE, modelDir |-> opt.modelDir]

\* Option.GetModelDir: the flag, else meta.ModelDir.
GetModelDir(opt) == IF opt.modelDir = "" THEN DefaultModelDir ELSE Seg(opt.modelDir)

-----------------------------------------------------------------------------
(* The plugin's response *)

\* GenerateFile: the IDL's .pb.go at its go_package as fixGoPackage
\* rewrote it, below the model dir; GenerateFiles keeps that path without
\* the module as IdlClientDir.
ModelFile(opt) == File(GetModelDir(opt) \o IdlRel, "idl.pb.go")
IdlClientDir(opt) == GetModelDir(opt) \o IdlRel

\* filepath.Join(dir, name) + ".go" for a name that may be empty.
JoinGo(dir, name) ==
    IF name # "" THEN File(dir, name \o ".go")
    ELSE IF dir = <<>> THEN File(<<>>, ".go")
    ELSE File(SubSeq(dir, 1, Len(dir) - 1), dir[Len(dir)] \o ".go")

\* genClient(pkg, clientDir): one file per service, in the service group's
\* directory or in --force_client_dir, then genServiceGroup's group file.
genClient(opt, clientDir) ==
    LET sgDir  == clientDir \o Seg(opt.sg)
        cliDir == IF opt.forceClientDir # "" THEN Seg(opt.forceClientDir) ELSE sgDir
    IN  [i \in 1..Len(ServiceNames) |-> File(cliDir, ServiceNames[i])]
          \o <<JoinGo(sgDir, opt.sg)>>

\* genHttpClient(pkgGen.ClientDir, ServiceGroup): rendered only when the
\* file does not exist (PathExist, relative to the working directory) or
\* with --force_client.
HttpClientPath(opt) == File(Seg(opt.clientDir) \o Seg(opt.sg), "httpclient.go")

genHttpClient(opt, d) ==
    IF HttpClientPath(opt) \notin d \/ opt.forceClient
      THEN <<HttpClientPath(opt)>> ELSE <<>>

\* genError(pkgGen.ModelDir)
genError(opt) == <<File(GetModelDir(opt), "errors.go")>>

\* GeneratePackage's switch on the command: the files it renders, in order.
\* The default package templates render nothing for new, update and doc.
GeneratePackage(opt, d) ==
    CASE opt.cmd = "client" ->
           genClient(opt, IF opt.clientDir # "" THEN Seg(opt.clientDir)
                          ELSE IdlClientDir(opt))
             \o genHttpClient(opt, d)
      [] opt.cmd = "error" -> genError(opt)
      [] OTHER -> <<>>

\* generatePackageFiles: buildPackage, then GeneratePackage, whose files
\* GetFormatAndExcludedFiles hands on (these runs exclude nothing and no
\* file is no-repeat); a template or build error fails it.
generatePackageFiles(opt, d) ==
    {[error |-> TRUE, files |-> <<>>], [error |-> FALSE, files |-> GeneratePackage(opt, d)]}

\* Handle: GenerateFiles renders the model files (or fails); the model
\* command stops there; the others append generatePackageFiles's files.  An
\* error becomes an error response with no files.
Handle(opt, d) ==
    {[error |-> TRUE, files |-> <<>>]}
    \cup IF opt.cmd = "model" THEN {[error |-> FALSE, files |-> <<ModelFile(opt)>>]}
         ELSE {IF r.error THEN r ELSE [r EXCEPT !.files = <<ModelFile(opt)>> \o @]
                 : r \in generatePackageFiles(opt, d)}

\* Plugin.Run: reading the request or parsing its parameter may fail, with
\* exit code PluginError and no response; otherwise Handle's response.
Run(opt, d) == {[error |-> TRUE, files |-> <<>>]} \cup Handle(opt, d)

\* protoc refuses a response that names a file twice.
NoDuplicates(s) == \A i, j \in DOMAIN s : i < j => s[i] # s[j]

\* findToolPath: protoc on PATH or in GOPATH/bin, or not installed.
findToolPath == {"found", "missing"}

\* BuildPluginCmd: protoc with --crafter_out=OutDir and the option packed
\* into --crafter_opt, which the plugin unpacks in parseArgs; it fails when
\* findToolPath does.  Its outcomes: [ok, the option the plugin sees].
BuildPluginCmd(opt) == {[ok |-> t = "found", opt |-> opt] : t \in findToolPath}

\* TriggerPlugin: without an IDL nothing runs.  Otherwise protoc runs the
\* plugin and writes the response's files only when the plugin reported no
\* error and no file is named twice; any other outcome is a PluginError
\* that writes nothing.
TriggerPlugin(opt, d) ==
    IF opt.idl = "none" THEN {[ok |-> TRUE, files |-> {}]}
    ELSE {[ok |-> FALSE, files |-> {}] : c \in {c \in BuildPluginCmd(opt) : ~c.ok}}
         \cup {[ok |-> ~r.error /\ NoDuplicates(r.files),
                files |-> IF ~r.error /\ NoDuplicates(r.files) THEN SeqSet(r.files) ELSE {}]
                 : r \in UNION {Run(c.opt, d) : c \in {c \in BuildPluginCmd(opt) : c.ok}}}

-----------------------------------------------------------------------------
(* The commands *)

\* The default layout (LayoutGenerator, outside src/): the skeleton and,
\* when there is no go.mod yet, the module descriptor.
LayoutFiles(opt) == LayoutSeq \o (IF opt.needGoMod THEN <<GoModFile>> ELSE <<>>)

\* LayoutGenerator.Persist: the files in order, stopping at any that fails;
\* ok when all were written.
PersistLayout(files) ==
    {[w |-> SeqSet(SubSeq(files, 1, k)), ok |-> k = Len(files)] : k \in 0..Len(files)}

\* generateLayout with no -customize_layout: GenerateByService over the
\* default layout, then its Persist.
generateLayout(opt) == PersistLayout(LayoutFiles(opt))


\* The end of a command: its exit code, the disk, go.mod and manifest it
\* leaves, and the files it wrote.
Exit(inv, code, d, m, w) ==
    /\ disk' = d
    /\ gomod' = IF GoModFile \in w THEN Parse(inv).mod ELSE gomod
    /\ manifest' = m
    /\ ncmds' = ncmds + 1
    /\ last' = [inv |-> inv, exit |-> code, writes |-> w]

PluginThenManifest(inv, opt, d, w) ==
    \E r \in TriggerPlugin(opt, d) :
       \/ ~r.ok /\ Exit(inv, PluginError, d, manifest, w)
       \/ r.ok /\ Exit(inv, 0, d \cup r.files, SetManifest(opt), w \cup r.files)
       \/ r.ok /\ Exit(inv, PersistError, d \cup r.files, manifest, w \cup r.files)

New(inv) ==
    LET opt == Parse(inv) IN
    /\ inv.cmd = "new"
    /\ \/ ~opt.ok /\ Exit(inv, LoadError, disk, manifest, {})
       \/ opt.ok /\ manifest.exists /\ ~opt.force
          /\ Exit(inv, LoadError, disk, manifest, {})
       \/ opt.ok /\ (~manifest.exists \/ opt.force)
          /\ \E g \in generateLayout(opt) :
               IF g.ok THEN PluginThenManifest(inv, opt, disk \cup g.w, g.w)
               ELSE Exit(inv, GenerateLayoutError, disk \cup g.w, manifest, g.w)

\* Manifest.InitAndValidate (outside src/): loading fails without a manifest.
InitAndValidate == manifest.exists

\* app.Update: the manifest must load; its model dir applies unless the
\* flag gives one; then the plugin and the manifest.
Update(inv) ==
    LET opt == Parse(inv) IN
    /\ inv.cmd = "update"
    /\ \/ ~opt.ok /\ Exit(inv, LoadError, disk, manifest, {})
       \/ opt.ok /\ ~InitAndValidate /\ Exit(inv, LoadError, disk, manifest, {})
       \/ opt.ok /\ InitAndValidate
          /\ PluginThenManifest(inv, UpdateByManifest(opt, manifest), disk, {})

\* app.Model, Client, Error and Doc: the plugin alone.
Generate(inv) ==
    LET opt == Parse(inv) IN
    /\ inv.cmd \in {"model", "client", "error", "doc"}
    /\ \/ ~opt.ok /\ Exit(inv, LoadError, disk, manifest, {})
       \/ opt.ok
          /\ \E r \in TriggerPlugin(opt, disk) :
               Exit(inv, IF r.ok THEN 0 ELSE PluginError, disk \cup r.files,
                    manifest, r.files)

Init ==
    /\ disk = {}
    /\ gomod \in {NoModule} \cup ({i.mod : i \in Invocations} \ {""})
    /\ manifest = [exists |-> FALSE, modelDir |-> ""]
    /\ ncmds = 0
    /\ last = [inv |-> NoInvocation, exit |-> 0, writes |-> {}]

Next ==
    /\ ncmds < MaxCommands
    /\ \E inv \in Invocations : New(inv) \/ Update(inv) \/ Generate(inv)

Spec == Init /\ [][Next]_vars

-----------------------------------------------------------------------------
(* Properties *)

\* Files are below OutDir: no directory segment is an absolute path.
TypeOK ==
    /\ disk \subseteq [dir : Seq(STRING \ {AbsDir}), name : STRING]
    /\ gomod \in {NoModule} \cup STRING
    /\ manifest \in [exists : BOOLEAN, modelDir : STRING]
    /\ ncmds \in 0..MaxCommands
    /\ last.exit \in {0, LoadError, GenerateLayoutError, PersistError, PluginError}
    /\ last.writes \subseteq disk

ClientFilesTogether ==
    [][ \A f \in last'.writes :
          f.name \in SeqSet(ServiceNames) /\ last'.exit = 0
            => File(f.dir, "httpclient.go") \in disk' ]_vars

=============================================================================
