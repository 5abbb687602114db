------------------------------ MODULE MCShell ------------------------------
(* Model-checking instances of Shell: what a user can type. *)
EXTENDS Shell

StageOf(kind, redir) == [kind |-> kind, redir |-> redir]

\* An application may do whatever a builtin does, and read.
LongLines ==
    {StageOf("app", "no"), StageOf("app", "error"), StageOf("none", "no")}

AllStages ==
    {StageOf("builtin", "no"), StageOf("app", "no"), StageOf("app", "file"),
     StageOf("builtin", "error"), StageOf("none", "no")}

\* Applications only, which are the commands that read.
AppStages == {StageOf("app", "no")}
=============================================================================
