--------------------------- MODULE MCSharedSocket ---------------------------
(***************************************************************************)
(* Instances of SharedSocket for TLC: programs that start twice, a ring    *)
(* that is full with one piece.                                            *)
(***************************************************************************)
EXTENDS SharedSocket

MCStarts == [p \in Process |-> IF p = "client" THEN 3 ELSE 2]
MCPieces == [p \in Process |-> IF p = "client" THEN 2 ELSE 1]

============================================================================
