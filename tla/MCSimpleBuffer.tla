--------------------------- MODULE MCSimpleBuffer ---------------------------
(***************************************************************************)
(* Instances of SimpleBuffer for TLC: allocations of 2 to 8 bytes, so that *)
(* every way of making room and every refusal happens within a few calls.  *)
(***************************************************************************)
EXTENDS SimpleBuffer

MCByte == {"a", "b"}
MCChunk == {<<"a">>, <<"a", "b">>, <<"b", "a", "a">>}
MCRequest == {0, 2, 3}

============================================================================
