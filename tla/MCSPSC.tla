------------------------------- MODULE MCSPSC -------------------------------
(***************************************************************************)
(* Instances of SPSC for TLC: a ring a few times as long as a write, so    *)
(* that calls wrap, stop at the top, and find the ring full and empty.     *)
(***************************************************************************)
EXTENDS SPSC

MCByte == {"a", "b"}
MCChunk == {<<"a">>, <<"b", "a">>, <<"a", "b", "b">>, <<"b", "a", "b", "a">>}

============================================================================
