---------------------------- MODULE MCGoPackage ----------------------------
(***************************************************************************)
(* Module "m", model directory "d".  The go_package options: a relative   *)
(* "q", an absolute-looking "/q", one under the module "m/q", one already *)
(* in the model directory "m/d/q", "mq/p", a module whose name starts     *)
(* with "m", and "m/dx/q", a directory whose name starts with "d";         *)
(* -trim_gopackage "x/" cuts "x/q".                                        *)
(***************************************************************************)
EXTENDS GoPackage

CONSTANTS f1, f2

MCPackage == <<"m">>
MCModelDir == <<"d">>
MCGoPackageChoices ==
    { <<"q">>, <<"/", "q">>, <<"m", "/", "q">>, <<"m", "/", "d", "/", "q">>,
      <<"m", "q", "/", "p">>, <<"m", "/", "d", "x", "/", "q">>,
      <<"x", "/", "q">> }
MCTrimChoices == { <<>>, <<"x", "/">> }
====
