---------------------------- MODULE MCSmcpctlShell ----------------------------
(* Model-checking instance of SmcpctlShell: the characters of the input  *)
(* and the sub-commands main may be given on its command line.             *)
EXTENDS SmcpctlShell

\* Word characters and newline (a script of single-word lines).
MCLineChars == {"g", "q", "\n"}

\* Every kind of character: words, blank, newline and comment.
MCAllChars == {"g", "q", "?", " ", "\n", "#"}

\* "smcpctl g" and "smcpctl help quit".
MCArgCommands == { <<<<"g">>>>, <<<<"?">>, <<"q">>>> }
=============================================================================
