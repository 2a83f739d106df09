------------------------------ MODULE Resolver ------------------------------
(***************************************************************************)
(* The protobuf symbol resolver (src/pkg/plugin/protobuf/resolver.go).    *)
(*                                                                         *)
(* NewResolver creates one PackageReference per imported file; LoadAll    *)
(* builds the root namespace of the main file and one namespace per       *)
(* imported package, merging files that share a package; then the         *)
(* generator asks ResolveIdentifier for type names, which marks the        *)
(* package of every resolved symbol as Referred, and ExportReferred hands  *)
(* the referred packages to the import computation and clears the flags.  *)
(*                                                                         *)
(* Identifiers are strings (sequences of characters) because the lookup    *)
(* in Get is made of prefix and trim operations on them.                   *)
(***************************************************************************)
EXTENDS Naturals, Sequences, SequencesExt, FiniteSets, GoStrings

CONSTANTS
    Files,      \* descriptor files (model values)
    Main,       \* the file being generated
    Deps,       \* ast.GetDependency() of Main: a sequence of files
    Package,    \* Package[f]: the proto package of f (a string, maybe empty)
    Messages,   \* Messages[f]: set of [name |-> string, nested |-> set of strings]
    Enums,      \* Enums[f]: set of [name |-> string, values |-> set of strings]
    Services,   \* Services[f]: set of strings
    BaseIds,    \* keys of the scalar type symbols seeded into each namespace
    ConstIds,   \* keys of the shared literal constants (true, false, "")
    BaseProto,  \* scope of the shared literal constants
    Queries     \* type names the generator asks ResolveIdentifier about

ASSUME Main \in Files /\ Main \notin ToSet(Deps) /\ ToSet(Deps) \subseteq Files

VARIABLES
    phase,        \* "init" before NewResolver, "new" before LoadAll, then "loaded"
    referred,     \* referred[f]: refPkgs[f].Referred, one per imported file
    mainReferred, \* mainPkg.Referred
    rootName,     \* resolver.rootName
    root,         \* resolver.root: key -> symbol
    deps,         \* resolver.deps: package -> (key -> symbol)
    typeScope,    \* typeScope[s]: the Scope field of symbol s's Type
    exported,     \* result of the last ExportReferred
    call,         \* the last call, for the action properties
    used          \* ghost: files whose symbols were resolved since the last export

vars == <<phase, referred, mainReferred, rootName, root, deps, typeScope,
          exported, call, used>>

DepFiles == ToSet(Deps)

-----------------------------------------------------------------------------
(***************************************************************************)
(* LoadOne: the namespace of one file.  A symbol is a record; its key is  *)
(* the map key LoadOne stores it under.  Declared(f) pairs every declared *)
(* symbol with the fully-qualified name protoc gives it (".pkg.Name", or  *)
(* ".Name" in a file without a package).                                   *)
(***************************************************************************)
NoScope == "nil"
ModelScope == "BaseModel"

Sym(f, key, name, kind) ==
    [file |-> f, key |-> key, name |-> name, space |-> Package[f], kind |-> kind]

FullName(f, n) == IF Package[f] = <<>> THEN Dot \o n ELSE Dot \o Package[f] \o Dot \o n

\* name := strings.TrimLeft(X.GetName(), "." + space)
Trimmed(f, n) == TrimLeft(n, Dot \o Package[f])

Declared(f) ==
    {<<FullName(f, e.name), Sym(f, e.name, Trimmed(f, e.name), "enum")>> : e \in Enums[f]}
    \cup {<<FullName(f, v), Sym(f, v, Trimmed(f, v), "value")>> :
            v \in UNION {e.values : e \in Enums[f]}}
    \cup {<<FullName(f, m.name), Sym(f, m.name, Trimmed(f, m.name), "message")>> : m \in Messages[f]}
    \cup UNION {{<<FullName(f, DotJoin(m.name, n)),
                   Sym(f, DotJoin(Trimmed(f, m.name), n),
                       Trimmed(f, m.name) \o <<"_">> \o n, "nested")>> : n \in m.nested} :
                 m \in Messages[f]}
    \cup {<<FullName(f, s), Sym(f, s, Trimmed(f, s), "service")>> : s \in Services[f]}

DeclSymbols(f) == {d[2] : d \in Declared(f)}

\* LoadBaseIdentifier: the literal constants are shared, the scalar type
\* symbols belong to the file.
BaseSymbols(f) ==
    {[file |-> BaseProto, key |-> c, name |-> <<>>, space |-> <<>>, kind |-> "const"] : c \in ConstIds}
    \cup {[file |-> f, key |-> b, name |-> <<>>, space |-> <<>>, kind |-> "base"] : b \in BaseIds}

LoadOne(f) ==
    LET syms == BaseSymbols(f) \cup DeclSymbols(f)
    IN  [k \in {s.key : s \in syms} |-> CHOOSE s \in syms : s.key = k]

\* mergeNamespace(first, second): keys of first win.
MergeNamespace(first, second) ==
    [k \in DOMAIN first \cup DOMAIN second |->
        IF k \in DOMAIN first THEN first[k] ELSE second[k]]

\* The loop of LoadAll over the dependencies, in their order.
RECURSIVE LoadDeps(_, _)
LoadDeps(astMap, ds) ==
    IF ds = <<>> THEN astMap
    ELSE LET f  == Head(ds)
             ns == IF Package[f] \in DOMAIN astMap
                   THEN MergeNamespace(astMap[Package[f]], LoadOne(f))
                   ELSE LoadOne(f)
         IN  LoadDeps([p \in DOMAIN astMap \cup {Package[f]} |->
                          IF p = Package[f] THEN ns ELSE astMap[p]], Tail(ds))

AllSymbols == UNION {BaseSymbols(f) \cup DeclSymbols(f) : f \in {Main} \cup DepFiles}

\* The Scope a symbol's Type is created with.
InitialScope(s) == IF s.kind \in {"enum", "value", "base"} THEN ModelScope ELSE NoScope

-----------------------------------------------------------------------------
(***************************************************************************)
(* Get(name): the three lookups, each a set of at most one symbol except  *)
(* the last, which scans resolver.deps in Go's unspecified map order.     *)
(***************************************************************************)
GetRoot(name) ==
    LET id == TrimPrefix(name, Dot \o rootName \o Dot)
    IN  IF HasPrefix(name, Dot \o rootName) /\ id \in DOMAIN root THEN {root[id]} ELSE {}

GetDirect(name) ==
    LET idx   == LastIndex(name, ".")
        space == IF idx > 0 /\ idx < Len(name)
                 THEN TrimLeft(SubSeq(name, 1, idx - 1), Dot) ELSE <<>>
        id    == TrimPrefix(name, Dot \o space \o Dot)
    IN  IF space \in DOMAIN deps /\ id \in DOMAIN deps[space] THEN {deps[space][id]} ELSE {}

GetScan(name) ==
    {deps[s][TrimPrefix(name, Dot \o s \o Dot)] :
        s \in {s \in DOMAIN deps : HasPrefix(name, Dot \o s)
                                   /\ TrimPrefix(name, Dot \o s \o Dot) \in DOMAIN deps[s]}}

\* Mutant: the fallback scan of the imported packages dropped.
GetNoScan(name) ==
    IF GetRoot(name) # {} THEN GetRoot(name) ELSE GetDirect(name)

Get(name) ==
    IF GetRoot(name) # {} THEN GetRoot(name)
    ELSE IF GetDirect(name) # {} THEN GetDirect(name)
    ELSE GetScan(name)

-----------------------------------------------------------------------------
Init ==
    /\ phase = "init"
    /\ referred = [f \in {} |-> FALSE]
    /\ mainReferred = FALSE
    /\ rootName = <<>>
    /\ root = [k \in {} |-> NoScope]
    /\ deps = [p \in {} |-> NoScope]
    /\ typeScope = [s \in AllSymbols |-> InitialScope(s)]
    /\ exported = {}
    /\ call = [op |-> "none"]
    /\ used = {}

\* Mutant: a reference made for every file of the request, the main one
\* included, instead of for the imports only.
NewResolverAllFiles ==
    /\ phase = "init"
    /\ phase' = "new"
    /\ referred' = [f \in Files |-> FALSE]
    /\ mainReferred' = FALSE
    /\ call' = [op |-> "new"]
    /\ UNCHANGED <<rootName, root, deps, typeScope, exported, used>>

\* NewResolver: one unreferred PackageReference per imported file.  Its
\* "not found" error is unreachable from the plugin, whose Handle rejects a
\* missing dependency before building the resolver.
NewResolver ==
    /\ phase = "init"
    /\ phase' = "new"
    /\ referred' = [f \in DepFiles |-> FALSE]
    /\ mainReferred' = FALSE
    /\ call' = [op |-> "new"]
    /\ UNCHANGED <<rootName, root, deps, typeScope, exported, used>>

LoadAll ==
    /\ phase = "new"
    /\ phase' = "loaded"
    /\ root' = LoadOne(Main)
    /\ rootName' = Package[Main]
    /\ deps' = LoadDeps([p \in {} |-> NoScope], Deps)
    /\ call' = [op |-> "load"]
    /\ UNCHANGED <<referred, mainReferred, typeScope, exported, used>>

\* ResolveIdentifier(id): Get, then mark the owning package reference (a
\* symbol of an imported package), or the main package (the bugfix for a
\* root that shares its package with an import), and point the symbol's
\* Type at that package's Model.
ResolveIdentifier(id) ==
    /\ phase = "loaded"
    /\ \/ /\ Get(id) = {}
          /\ call' = [op |-> "resolve", id |-> id, found |-> FALSE]
          /\ UNCHANGED <<referred, mainReferred, typeScope, used>>
       \/ \E ret \in Get(id) :
            LET isRef  == ret.space \in DOMAIN deps /\ ret.file \in DOMAIN referred
                isMain == ~isRef /\ ret.file = Main
            IN  /\ referred' = IF isRef THEN [referred EXCEPT ![ret.file] = TRUE] ELSE referred
                /\ mainReferred' = (mainReferred \/ isMain)
                /\ typeScope' = IF isRef \/ isMain
                                THEN [typeScope EXCEPT ![ret] = ret.file] ELSE typeScope
                /\ used' = used \cup {ret.file}
                /\ call' = [op |-> "resolve", id |-> id, found |-> TRUE]
    /\ UNCHANGED <<phase, rootName, root, deps, exported>>

\* Mutant: the main flag is cleared only when the main package is exported.
ExportReferredKeepMain(all, needMain) ==
    /\ phase = "loaded"
    /\ exported' = {f \in DOMAIN referred : all \/ referred[f]}
                   \cup (IF needMain /\ (all \/ mainReferred) THEN {Main} ELSE {})
    /\ referred' = [f \in DOMAIN referred |-> FALSE]
    /\ mainReferred' = (mainReferred /\ ~needMain)
    /\ used' = {}
    /\ call' = [op |-> "export", all |-> all, needMain |-> needMain]
    /\ UNCHANGED <<phase, rootName, root, deps, typeScope>>

\* ExportReferred(all, needMain): the referred (or all) references, then
\* every flag is cleared, the main one whether or not it was asked for.
ExportReferred(all, needMain) ==
    /\ phase = "loaded"
    /\ exported' = {f \in DOMAIN referred : all \/ referred[f]}
                   \cup (IF needMain /\ (all \/ mainReferred) THEN {Main} ELSE {})
    /\ referred' = [f \in DOMAIN referred |-> FALSE]
    /\ mainReferred' = FALSE
    /\ used' = {}
    /\ call' = [op |-> "export", all |-> all, needMain |-> needMain]
    /\ UNCHANGED <<phase, rootName, root, deps, typeScope>>

Next ==
    \/ NewResolver
    \/ LoadAll
    \/ \E id \in Queries : ResolveIdentifier(id)
    \/ \E all, needMain \in BOOLEAN : ExportReferred(all, needMain)

Spec == Init /\ [][Next]_vars

-----------------------------------------------------------------------------
TypeOK ==
    /\ phase \in {"init", "new", "loaded"}
    /\ referred \in [DOMAIN referred -> BOOLEAN] /\ DOMAIN referred \subseteq DepFiles
    /\ mainReferred \in BOOLEAN
    /\ typeScope \in [AllSymbols -> Files \cup {NoScope, ModelScope}]
    /\ exported \subseteq DepFiles \cup {Main}
    /\ used \subseteq Files

(***************************************************************************)
(* Round trip (spec 8): once the namespaces are loaded, looking up the    *)
(* fully-qualified name protoc gives any type, enum value or service      *)
(* declared in the main file or an import returns exactly the symbol      *)
(* LoadOne registered for it, whichever of Get's three lookups finds it.  *)
(***************************************************************************)
RoundTrip ==
    phase = "loaded" =>
        \A f \in {Main} \cup DepFiles : \A d \in Declared(f) : Get(d[1]) = {d[2]}

(***************************************************************************)
(* Minimal imports: an ExportReferred(false, needMain) returns exactly the *)
(* imported files whose symbols were resolved since the previous export,  *)
(* plus the main package when it is asked for and one of its symbols was  *)
(* resolved; no flag survives from an earlier pass and none is missed.    *)
(***************************************************************************)
ExportIsExactlyUsed ==
    [][call'.op = "export" /\ ~call'.all =>
          exported' = (used \cap DepFiles)
                      \cup (IF call'.needMain /\ Main \in used THEN {Main} ELSE {})]_vars

=============================================================================
