------------------------------ MODULE MCShell ------------------------------
(* Values for the constants of Shell.                                      *)
EXTENDS Shell

OneCharWords == {<<"e">>, <<"c">>, <<"q">>}
TextFiles == {<<"f">>}
(* Two to four commands, redirections, a missing program, an error.         *)
SomeLines == {
    <<"e", "|", "c">>,
    <<"c", "<", "f", "|", "q">>,
    <<"e", ">", "f", "x", "|", " ", "c", ">", "g">>,
    <<"c", "<", "f", " ", ">", "g", "|", "m">>,
    <<"e", " ", "x", "y">>,
    <<"e", " ", "x", " ", "y", " ", "x">>,
    <<"e", "|", "<">>,
    <<"e", "|", "c", "|", "c">>,
    <<"q", "|", "q", "|", "m", "|", "m">> }
=============================================================================
