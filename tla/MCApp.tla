------------------------------- MODULE MCApp -------------------------------
(* Command lines for App: each command with the flags it accepts (app.go's *)
(* NewCommand), over values that reach every branch: a relative and an    *)
(* absolute model dir, a module that agrees or disagrees with go.mod, an  *)
(* IDL or none or of an unsupported type, a service group named like the  *)
(* IDL's service, an empty one, and the client-dir flags.                  *)
EXTENDS App

CONSTANTS NoModuleV, NoInvocationV

Inv(cmd, force, modelDir, clientDir, forceClientDir, forceClient, sg, mod, idl) ==
    [cmd |-> cmd, force |-> force, modelDir |-> modelDir, clientDir |-> clientDir,
     forceClientDir |-> forceClientDir, forceClient |-> forceClient, sg |-> sg,
     mod |-> mod, idl |-> idl]

MCInvocations ==
       {Inv("new", f, md, "", "", FALSE, "", mod, idl) :
          f \in BOOLEAN, md \in {"", "m2", "/abs"}, mod \in {"", "x", "y"},
          idl \in {"proto", "none"}}
  \cup {Inv("update", FALSE, md, "", "", FALSE, "", mod, idl) :
          md \in {"", "m2"}, mod \in {"", "y"}, idl \in {"proto", "thrift"}}
  \cup {Inv("model", FALSE, md, "", "", FALSE, "", "", "proto") : md \in {"", "m2"}}
  \cup {Inv("client", FALSE, "", cd, fcd, fc, sg, "", "proto") :
          cd \in {"", "c"}, fcd \in {"", "f"}, fc \in BOOLEAN, sg \in {"pay", "shop", ""}}
  \cup {Inv(cmd, FALSE, "", "", "", FALSE, "", "", "proto") : cmd \in {"error", "doc"}}

\* cft new -mod x, then cft client with a named service group and without
\* -force_client_dir.
MCPlainClientInvocations ==
    {i \in MCInvocations : \/ i.cmd = "client" /\ i.forceClientDir = "" /\ i.sg = "shop"
                           \/ i = Inv("new", FALSE, "", "", "", FALSE, "", "x", "proto")}

MCDefaultModelDir == <<"biz", "model">>
MCIdlRel == <<"p">>
MCServiceNames == <<"pay.go">>
MCGoModFile == File(<<>>, "go.mod")
MCLayoutSeq == <<File(<<>>, ".gitignore"), File(<<>>, "build.sh")>>
=============================================================================
