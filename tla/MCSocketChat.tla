---------------------------- MODULE MCSocketChat ----------------------------
(***************************************************************************)
(* Instances of SocketChat for TLC: buffers that grow once and can fill    *)
(* up, a kernel that holds one or two bytes, reads that cut a delimiter.   *)
(***************************************************************************)
EXTENDS SocketChat

MCByte == {"x", "CR", "LF"}

\* The client's second text ends in the delimiter's first byte.
MCTexts == [e \in Ends |-> IF e = "client" THEN <<<<"x">>, <<"CR">>>> ELSE <<<< >>>>]

\* For the temporal properties, one text each way: with its delimiter the client's
\* fills a buffer of four bytes, in which three bytes leave no room for a read of two.
MCTextsToTheBrim == [e \in Ends |-> IF e = "client" THEN <<<<"x", "CR">>>> ELSE <<<< >>>>]

\* One short text each way.
MCTextEach == [e \in Ends |-> IF e = "client" THEN <<<<"CR">>>> ELSE <<<< >>>>]

============================================================================
