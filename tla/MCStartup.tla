----------------------------- MODULE MCStartup -----------------------------
(***************************************************************************)
(* Starts with up to three arguments and a configuration file of up to two *)
(* lines.                                                                  *)
(***************************************************************************)
EXTENDS Startup

Arguments ==
  {<<"port", n>> : n \in {-1, 0, 7000}}
    \union {<<"savefile", f>> : f \in {"a", "b", "missing"}}
    \union {<<"configfile", f>> : f \in {"conf", "missing"}}
    \union {<<"daemonize", NONE>>}
ConfLines ==
  {<<"port", n>> : n \in {0, 5115}}
    \union {<<"savefile", f>> : f \in {"a", "missing"}}
    \union {<<"master", "host">>, <<"daemonize", NONE>>, <<"other", NONE>>}

ThreeArguments == SeqOf(Arguments, 3)
TwoLines == SeqOf(ConfLines, 2)
=============================================================================
