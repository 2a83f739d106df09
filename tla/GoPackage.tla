----------------------------- MODULE GoPackage -----------------------------
(***************************************************************************)
(* Plugin.fixGoPackage and fixModelPathAndPackage (plugin/protobuf/        *)
(* plugin.go): before the resolver runs, the plugin rewrites the           *)
(* go_package option of every proto file of the request so that the model *)
(* files land in the project's model directory.  Strings are sequences of  *)
(* one-character strings (GoStrings), so Go's Contains and HasPrefix are   *)
(* computed.                                                               *)
(*                                                                         *)
(* getGoPackage and util's import-path/file-path conversions are not in    *)
(* this repository.  The inputs stand for getGoPackage's result with an    *)
(* empty -M package map and no ";name" suffix, and, the separator being   *)
(* "/", an import path and a file path are the same string.                *)
(***************************************************************************)
EXTENDS Naturals, Sequences, SequencesExt, GoStrings

CONSTANTS
    Package,          \* plugin.Package, the project's Go module
    ModelDir,         \* plugin.ModelDir, relative, without "." segments
    Files,            \* the proto files of the request
    WellKnown,        \* files whose proto package starts google.protobuf
    GoPackageChoices, \* go_package options the files may carry
    TrimChoices       \* values of -trim_gopackage ("" when not given)

Slash == <<"/">>

VARIABLES
    goPackage,        \* [Files -> string], f.Options.GoPackage
    trimGoPackage,    \* the -trim_gopackage argument
    fixed,            \* fixGoPackage has run
    goPackage0        \* ghost: the options as protoc sent them

vars == <<goPackage, trimGoPackage, fixed, goPackage0>>

\* filepath.Clean for paths without "." or ".." segments: runs of "/"
\* become one and a trailing "/" is dropped.
RECURSIVE CleanSlashes(_)
CleanSlashes(s) ==
    IF Len(s) <= 1 THEN s
    ELSE IF s[1] = "/" /\ s[2] = "/" THEN CleanSlashes(Tail(s))
    ELSE IF Len(s) = 2 /\ s[2] = "/" THEN <<s[1]>>
    ELSE <<s[1]>> \o CleanSlashes(Tail(s))

\* filepath.Join(a, b): an empty element is ignored, the result cleaned.
PathJoin(a, b) == IF b = <<>> THEN CleanSlashes(a) ELSE CleanSlashes(a \o Slash \o b)

(* fixModelPathAndPackage(pkg): the part after the module, with the model *)
(* directory stripped when it is there and put in front again, joined to  *)
(* the module.  A package that does not start with the module keeps an    *)
(* empty remainder.                                                        *)
fixModelPathAndPackage(pkg) ==
    LET impt0 == IF HasPrefix(pkg, Package)
                   THEN SubSeq(pkg, Len(Package) + 1, Len(pkg)) ELSE <<>>
        modelImpt == Slash \o ModelDir
        impt1 == IF ModelDir = <<>> \/ ModelDir = <<".">> THEN impt0
                 ELSE ModelDir \o TrimPrefix(impt0, modelImpt)
    IN  PathJoin(Package, impt1)

(* fixGoPackage for one file: the -trim_gopackage prefix is cut, a        *)
(* go_package that does not contain the module gets it in front, and the *)
(* result goes through fixModelPathAndPackage.                             *)
FixOne(gp) ==
    LET t   == IF trimGoPackage # <<>> /\ HasPrefix(gp, trimGoPackage)
                 THEN TrimPrefix(gp, trimGoPackage) ELSE gp
        opt == IF StrContains(t, Package) THEN t
               ELSE IF HasPrefix(t, Slash) THEN Package \o t
               ELSE Package \o Slash \o t
    IN  fixModelPathAndPackage(opt)

Init ==
    /\ goPackage \in [Files -> GoPackageChoices]
    /\ trimGoPackage \in TrimChoices
    /\ fixed = FALSE
    /\ goPackage0 = goPackage

\* The loop over req.ProtoFile; google.protobuf files are skipped.
fixGoPackage ==
    /\ ~fixed
    /\ goPackage' = [f \in Files |->
                       IF f \in WellKnown THEN goPackage[f] ELSE FixOne(goPackage[f])]
    /\ fixed' = TRUE
    /\ UNCHANGED <<trimGoPackage, goPackage0>>

Next == fixGoPackage

Spec == Init /\ [][Next]_vars

-----------------------------------------------------------------------------
\* p lies in directory d or below it (a "/" boundary after d).
InDir(p, d) == p = d \/ IsPrefix(d \o Slash, p)

TypeOK ==
    /\ goPackage \in [Files -> Seq(STRING)]
    /\ fixed \in BOOLEAN

(***************************************************************************)
(* "fixGoPackage will update go_package to store all the model files in   *)
(* ${model_dir}": after the rewrite every go_package of a file that is not *)
(* a google.protobuf file names the model directory of the module or a    *)
(* directory below it.                                                     *)
(***************************************************************************)
ModelFilesInModelDir ==
    fixed => \A f \in Files \ WellKnown :
                 InDir(goPackage[f], PathJoin(Package, ModelDir))

=============================================================================
