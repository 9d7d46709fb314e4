----------------------------- MODULE MCInputLine -----------------------------
(***************************************************************************)
(* An instance of InputLine for TLC: enough lines for the buffer to be     *)
(* used again and again, two of them equal, two that begin with NUL, and   *)
(* then the end of the input.                                              *)
(***************************************************************************)
EXTENDS InputLine

MCLine == {"one", "two", "three"}
MCTyped == <<"one", "", "two", "two", "three", "", "one">>

============================================================================
