------------------------------- MODULE Logging -------------------------------
(***************************************************************************)
(* What the user of cft sees of the warnings and errors that cft and its   *)
(* protoc plugin log.  Two processes run one after the other:              *)
(*  - cft (cmd/cft/cft.go NormalMode, a command of app.go, TriggerPlugin   *)
(*    and BuildPluginCmd) logs through the default StdLogger, which does   *)
(*    not defer; a failing command exits through cli.Exit (os.Exit, so     *)
(*    NormalMode's deferred Flush does not run), a successful one returns *)
(*    and the deferred Flush runs;                                         *)
(*  - the plugin (app.PluginMode, Plugin.Run) installs a deferring,        *)
(*    ErrOnly logger, and Run's deferred function prints what it buffered *)
(*    when Run returns.                                                    *)
(* cft blocks in CombinedOutput while protoc runs the plugin; the plugin's *)
(* stderr reaches cft through protoc in `pipe`.  The layout, the manifest  *)
(* and the generated files are the App module's; here a command is the    *)
(* log calls it makes, in order.                                           *)
(***************************************************************************)
EXTENDS Naturals, Sequences, SequencesExt, Logs

CONSTANTS
    PluginArgChoices,   \* the -protoc-plugins entries: sequences of "ok"/"bad"
    WarningChoices      \* the warnings one Handle may log, as sequences

\* meta's exit codes that the processes use here.
PluginError == 4
OsExitOne   == 1

VARIABLES
    cpc,        \* cft: "start", "build", "wait", "exited"
    clog,       \* cft's default logger
    verbose,    \* the -vv flag
    pluginArgs, \* the -protoc-plugins entries
    ci,         \* BuildPluginCmd's index into pluginArgs
    cexit,      \* cft's exit code
    ppc,        \* plugin: "idle", "start", "read", "unmarshal", "parse",
                \* "handle", "defer", "exited"
    plog,       \* plugin.logger, the plugin's default logger while Run runs
    pargs,      \* Run's args: set is FALSE when parseArgs returned nil
    pexit,      \* Run's return value
    pipe,       \* what protoc's combined output gives cft
    shown,      \* what cft prints to the user
    logged      \* ghost: every warning and error a logger accepted

cftVars    == <<cpc, clog, verbose, pluginArgs, ci, cexit>>
pluginVars == <<ppc, plog, pargs, pexit>>
vars == <<cftVars, pluginVars, pipe, shown, logged>>

\* What a logger accepts at warning level or above.
Accepted(l, lvl, m) == IF lvl >= LevelWarn /\ l.level <= lvl THEN {m} ELSE {}

\* A run of calls at one level, in order, on one logger.
LogAll(l, lvl, ms) ==
    FoldLeft(LAMBDA r, m : LET x == Logf(r.log, lvl, m)
                           IN  Wrote(x.log, r.wrote \o x.wrote),
             Wrote(l, <<>>), ms)

AcceptedAll(l, lvl, ms) == UNION {Accepted(l, lvl, ms[i]) : i \in DOMAIN ms}

-----------------------------------------------------------------------------
(* cft *)

\* api.go's init installs NewStdLogger(LevelInfo) in both processes.
Init ==
    /\ cpc = "start"
    /\ clog = NewStdLogger(LevelInfo)
    /\ verbose \in BOOLEAN
    /\ pluginArgs \in PluginArgChoices
    /\ ci = 1
    /\ cexit = 0
    /\ ppc = "idle"
    /\ plog = NewStdLogger(LevelInfo)
    /\ pargs = [set |-> FALSE, verbose |-> FALSE]
    /\ pexit = 0
    /\ pipe = <<>>
    /\ shown = <<>>
    /\ logged = {}

\* setLogVerbose: Debug with -vv, else Warn.
setLogVerbose(l, v) == SetLevel(l, IF v THEN LevelDebug ELSE LevelWarn)

\* A command after Parse: setLogVerbose and Debugf("opts: ..."); the
\* layout and the checks before TriggerPlugin log nothing.
CftStart ==
    /\ cpc = "start"
    /\ LET l == setLogVerbose(clog, verbose)
           r == Logf(l, LevelDebug, "DebugOpts")
       IN  /\ clog' = r.log
           /\ shown' = shown \o r.wrote
    /\ cpc' = "build"
    /\ UNCHANGED <<verbose, pluginArgs, ci, cexit, pluginVars, pipe, logged>>

\* One -protoc-plugins entry of BuildPluginCmd: a malformed one is warned
\* about and the process ends with os.Exit(1).
BuildPluginArg ==
    /\ cpc = "build"
    /\ ci <= Len(pluginArgs)
    /\ \/ /\ pluginArgs[ci] = "ok"
          /\ ci' = ci + 1
          /\ UNCHANGED <<cpc, clog, cexit, shown, logged>>
       \/ /\ pluginArgs[ci] = "bad"
          /\ LET r == Logf(clog, LevelWarn, "WarnPluginParam")
             IN  /\ clog' = r.log
                 /\ shown' = shown \o r.wrote
                 /\ logged' = logged \cup Accepted(clog, LevelWarn, "WarnPluginParam")
          /\ cexit' = OsExitOne
          /\ cpc' = "exited"
          /\ UNCHANGED ci
    /\ UNCHANGED <<verbose, pluginArgs, pluginVars, pipe>>

\* The end of BuildPluginCmd (Infof of the command line, Flush), then
\* TriggerPlugin's Debugf and CombinedOutput, which starts protoc and the
\* plugin and waits for them.
BuildPluginDone ==
    /\ cpc = "build"
    /\ ci > Len(pluginArgs)
    /\ LET r1 == Logf(clog, LevelInfo, "InfoCmdLine")
           r2 == Flush(r1.log)
           r3 == Logf(r2.log, LevelDebug, "DebugTrigger")
       IN  /\ clog' = r3.log
           /\ shown' = shown \o r1.wrote \o r2.wrote \o r3.wrote
    /\ cpc' = "wait"
    /\ ppc' = "start"
    /\ UNCHANGED <<verbose, pluginArgs, ci, cexit, plog, pargs, pexit, pipe, logged>>

(* TriggerPlugin after the plugin exited: a failure becomes cli.Exit with  *)
(* the combined output as its cause, printed by the cli before os.Exit;   *)
(* on success a non-empty output is printed, Debugf runs, the command     *)
(* returns and NormalMode's deferred logs.Flush runs.                      *)
CftReport ==
    /\ cpc = "wait"
    /\ ppc = "exited"
    /\ \/ /\ pexit # 0
          /\ shown' = shown \o <<"PluginFailed">> \o pipe
          /\ cexit' = PluginError
          /\ UNCHANGED clog
       \/ /\ pexit = 0
          /\ LET r1 == Logf(clog, LevelDebug, "DebugEnd")
                 r2 == Flush(r1.log)
             IN  /\ clog' = r2.log
                 /\ shown' = shown \o pipe \o r1.wrote \o r2.wrote
          /\ UNCHANGED cexit
    /\ cpc' = "exited"
    /\ UNCHANGED <<verbose, pluginArgs, ci, pluginVars, pipe, logged>>

-----------------------------------------------------------------------------
(* The plugin *)

\* Run's start: setLogger installs a deferring, ErrOnly logger at Info;
\* args starts as an empty Option.
PluginStart ==
    /\ ppc = "start"
    /\ plog' = [NewStdLogger(LevelInfo) EXCEPT !.deferred = TRUE, !.errOnly = TRUE]
    /\ pargs' = [set |-> TRUE, verbose |-> FALSE]
    /\ ppc' = "read"
    /\ UNCHANGED <<cftVars, pexit, pipe, shown, logged>>

\* A failed step of Run: logs.Errorf, return PluginError with args a.
PluginFails(m, a) ==
    LET r == Logf(plog, LevelError, m) IN
    /\ plog' = r.log
    /\ pipe' = pipe \o r.wrote
    /\ logged' = logged \cup Accepted(plog, LevelError, m)
    /\ pexit' = PluginError
    /\ pargs' = a
    /\ ppc' = "defer"

\* io.ReadAll of the request, then proto.Unmarshal: either may fail.
PluginRead ==
    /\ ppc \in {"read", "unmarshal"}
    /\ \/ /\ ppc' = IF ppc = "read" THEN "unmarshal" ELSE "parse"
          /\ UNCHANGED <<plog, pargs, pexit, pipe, logged>>
       \/ PluginFails(IF ppc = "read" THEN "ErrRead" ELSE "ErrUnmarshal", pargs)
    /\ UNCHANGED <<cftVars, shown>>

(* parseArgs: Unpack, GetGoPackage and GetModelDir may fail, and then it  *)
(* returns a nil Option, which Run assigns to args; otherwise the plugin  *)
(* runs with the options cft packed, -vv included.                         *)
parseArgs ==
    /\ ppc = "parse"
    /\ \/ /\ pargs' = [set |-> TRUE, verbose |-> verbose]
          /\ ppc' = "handle"
          /\ UNCHANGED <<plog, pexit, pipe, logged>>
       \/ PluginFails("ErrParse", [set |-> FALSE, verbose |-> FALSE])
    /\ UNCHANGED <<cftVars, shown>>

(* The log calls of GetFormatAndExcludedFiles inside Handle: Infof for a  *)
(* file, Warnf for a dropped no-repeat file or a failed lint.              *)
GetFormatAndExcludedFilesLogs(l, ws) ==
    LET r1 == Logf(l, LevelInfo, "InfoWrite")
        r2 == LogAll(r1.log, LevelWarn, ws)
    IN  Wrote(r2.log, r1.wrote \o r2.wrote)

\* Handle with its warnings, then success, or logs.Errorf and PluginError.
Handle ==
    /\ ppc = "handle"
    /\ \E ws \in WarningChoices :
         LET r == GetFormatAndExcludedFilesLogs(plog, ws)
             acc == logged \cup AcceptedAll(plog, LevelWarn, ws)
         IN  \/ /\ plog' = r.log
                /\ pipe' = pipe \o r.wrote
                /\ logged' = acc
                /\ pexit' = 0
             \/ LET e == Logf(r.log, LevelError, "ErrGenerate") IN
                /\ plog' = e.log
                /\ pipe' = pipe \o r.wrote \o e.wrote
                /\ logged' = acc \cup Accepted(r.log, LevelError, "ErrGenerate")
                /\ pexit' = PluginError
    /\ ppc' = "defer"
    /\ UNCHANGED <<cftVars, pargs, shown>>

(* verboseLogger: out and warn, then Flush (err), then the two printed.   *)
(* warningLogger: warn, then Flush, then warn printed.                     *)
verboseLogger(l) == LET f == Flush(l) IN Wrote(f.log, f.wrote \o l.out \o l.warn)
warningLogger(l) == LET f == Flush(l) IN Wrote(f.log, f.wrote \o l.warn)

(* Run's deferred function, then os.Exit: nothing when args is nil,       *)
(* otherwise verboseLogger or warningLogger by args.Verbose.               *)
PluginExit ==
    /\ ppc = "defer"
    /\ IF ~pargs.set THEN UNCHANGED <<plog, pipe>>
       ELSE LET r == IF pargs.verbose THEN verboseLogger(plog) ELSE warningLogger(plog)
            IN  /\ plog' = r.log
                /\ pipe' = pipe \o r.wrote
    /\ ppc' = "exited"
    /\ UNCHANGED <<cftVars, pargs, pexit, shown, logged>>

-----------------------------------------------------------------------------
Next ==
    \/ CftStart \/ BuildPluginArg \/ BuildPluginDone \/ CftReport
    \/ PluginStart \/ PluginRead \/ parseArgs \/ Handle \/ PluginExit

Spec == Init /\ [][Next]_vars

TypeOK ==
    /\ cpc \in {"start", "build", "wait", "exited"}
    /\ clog \in Logger /\ plog \in Logger
    /\ ppc \in {"idle", "start", "read", "unmarshal", "parse", "handle", "defer", "exited"}
    /\ ToSet(shown) \subseteq STRING

(***************************************************************************)
(* When cft has exited, the user has been shown every warning and error   *)
(* that cft's or the plugin's logger accepted: the -protoc-plugins        *)
(* warning of BuildPluginCmd, the plugin's read, parse and generate       *)
(* errors, and the warnings of GetFormatAndExcludedFiles.                  *)
(***************************************************************************)
LoggedReported ==
    cpc = "exited" => logged \subseteq ToSet(shown)

====
