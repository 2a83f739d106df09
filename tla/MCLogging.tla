------------------------------ MODULE MCLogging ------------------------------
EXTENDS Logging

\* No entry, a well-formed one, and a malformed one after a well-formed one.
MCPluginArgChoices == {<<>>, <<"ok">>, <<"ok", "bad">>}

\* Handle logs no warning, a dropped no-repeat file, or both kinds.
MCWarningChoices == {<<>>, <<"WarnNoRepeat">>, <<"WarnNoRepeat", "WarnLint">>}
\* Well-formed -protoc-plugins only: with these the run shows the plugin's
\* lost parseArgs error instead of BuildPluginCmd's lost warning.
MCWellFormedArgs == {<<>>, <<"ok">>}
====
