---------------------------- MODULE MCChatServer ----------------------------
(***************************************************************************)
(* Instances of ChatServer for TLC: a user who waits for his echoes, one   *)
(* who does not, and a console that speaks once and then stops the server. *)
(***************************************************************************)
EXTENDS ChatServer

MCLine == {"a1", "b1", "news", "bye"}
MCSays == [c \in Client |-> IF c = "ann" THEN <<"a1">> ELSE <<"b1", "bye">>]
MCTyped == <<"news", "bye">>

============================================================================
