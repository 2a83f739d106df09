-------------------------------- MODULE Logs --------------------------------
(***************************************************************************)
(* The logger of pkg/util/logs (std.go, api.go).  A StdLogger keeps three  *)
(* buffers, out, warn and err; a call below the logger's level is         *)
(* dropped, any other appends its message to the buffer of its level and, *)
(* unless the logger defers, flushes.  A message is a model value or a    *)
(* string standing for one call site; formatting is left out.             *)
(*                                                                         *)
(* Every operator returns the logger after the call and what the call     *)
(* wrote to stderr, as [log |-> logger, wrote |-> sequence of messages].  *)
(***************************************************************************)
EXTENDS Naturals, Sequences

LevelDebug == 1
LevelInfo  == 2
LevelWarn  == 3
LevelError == 4
Levels == {LevelDebug, LevelInfo, LevelWarn, LevelError}

\* NewStdLogger: empty buffers, flushing after every call.
NewStdLogger(level) ==
    [level |-> level, out |-> <<>>, warn |-> <<>>, err |-> <<>>,
     deferred |-> FALSE, errOnly |-> FALSE]

Logger == [level : Levels, out : Seq(STRING), warn : Seq(STRING),
           err : Seq(STRING), deferred : BOOLEAN, errOnly : BOOLEAN]

Wrote(l, s) == [log |-> l, wrote |-> s]

\* FlushOut and FlushErr write their buffer to stderr and reset it.
FlushOut(l) == Wrote([l EXCEPT !.out = <<>>], l.out)
FlushErr(l) == Wrote([l EXCEPT !.err = <<>>], l.err)

\* Flush: the err buffer, then, unless ErrOnly, the out buffer.  The warn
\* buffer is written by neither.
Flush(l) ==
    LET e == FlushErr(l) IN
    IF l.errOnly THEN e
    ELSE LET o == FlushOut(e.log) IN Wrote(o.log, e.wrote \o o.wrote)

\* The buffer a level writes to.
BufferOf(lvl) ==
    CASE lvl \in {LevelDebug, LevelInfo} -> "out"
      [] lvl = LevelWarn                 -> "warn"
      [] lvl = LevelError                -> "err"

(* Debugf, Infof, Warnf and Errorf: dropped below the level; otherwise    *)
(* appended, and without Defer Debugf and Infof flush out while Warnf and *)
(* Errorf flush err.                                                       *)
Logf(l, lvl, m) ==
    IF l.level > lvl THEN Wrote(l, <<>>)
    ELSE LET b  == BufferOf(lvl)
             l2 == [l EXCEPT ![b] = Append(@, m)]
         IN  CASE l2.deferred             -> Wrote(l2, <<>>)
               [] lvl \in {LevelDebug, LevelInfo} -> FlushOut(l2)
               [] OTHER                   -> FlushErr(l2)

\* SetLevel: a known level replaces the logger's; any other is an error
\* that leaves it.
SetLevel(l, level) ==
    IF level \in Levels THEN [l EXCEPT !.level = level] ELSE l

=============================================================================
