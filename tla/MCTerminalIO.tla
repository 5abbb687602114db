---------------------------- MODULE MCTerminalIO ----------------------------
(* Model-checking instance of TerminalIO: a screen of three rows and, with   *)
(* the unused last one, three columns.                                       *)
EXTENDS TerminalIO

Writers == {Terminal, Subtask}
=============================================================================
