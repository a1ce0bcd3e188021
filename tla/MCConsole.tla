------------------------------- MODULE MCConsole -------------------------------
(***************************************************************************)
(* The shell and a user task on a screen of three rows.                    *)
(***************************************************************************)
EXTENDS Console

MCText == {<<"char", "\t", "char">>, <<"char", "char", "\n">>}
MCMessage == <<"char", "\n">>

\* The origin; a place in the middle and one behind the end of its row; and one
\* below the screen and one before it
MCPoint == {<<0, 0>>, <<3, 1>>, <<4, 0>>, <<0, 3>>, <<-1, 0>>}
===============================================================================
