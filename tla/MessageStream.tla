---------------------------- MODULE MessageStream ----------------------------
(***************************************************************************)
(* What a chat connection promises in one direction: a stream of whole     *)
(* texts.  They are taken in the order in which they were given, and only  *)
(* when the connection is cut may some of them, the last ones, be lost.    *)
(* Nothing is promised once the sender's transmit buffer refused a text.   *)
(* There is a stream on each channel, independent of the others.           *)
(***************************************************************************)
EXTENDS Integers, SequencesExt

CONSTANT Channel

VARIABLES
  given,      \* the texts passed to sendText
  transit,    \* the texts on their way
  taken,      \* the texts passed to receiveMessage
  cut,        \* the connection is closed or broken
  refused     \* a text was refused

vars == <<given, transit, taken, cut, refused>>

Init ==
  \A c \in Channel :
    /\ given[c] = << >> /\ transit[c] = << >> /\ taken[c] = << >>
    /\ cut[c] \in BOOLEAN
    /\ refused[c] = FALSE

\* A text given to a connection that is cut goes nowhere.
Give(c) ==
  /\ given'[c] # << >> /\ given[c] = Front(given'[c])
  /\ transit'[c] = IF cut[c] THEN transit[c] ELSE Append(transit[c], Last(given'[c]))
  /\ taken'[c] = taken[c] /\ cut'[c] = cut[c] /\ refused'[c] = refused[c]

Take(c) ==
  /\ \E n \in 1 .. Len(transit[c]) :
       /\ taken'[c] = taken[c] \o SubSeq(transit[c], 1, n)
       /\ transit'[c] = SubSeq(transit[c], n + 1, Len(transit[c]))
  /\ given'[c] = given[c] /\ cut'[c] = cut[c] /\ refused'[c] = refused[c]

Lose(c) ==
  /\ cut'[c]
  /\ IsPrefix(transit'[c], transit[c])
  /\ given'[c] = given[c] /\ taken'[c] = taken[c] /\ refused'[c] = refused[c]

Refuse(c) == refused'[c]

Rest(c) ==
  /\ given'[c] = given[c] /\ transit'[c] = transit[c] /\ taken'[c] = taken[c]
  /\ cut'[c] = cut[c] /\ refused'[c] = refused[c]

\* One step of a program may be a step of several streams: it sends a text to many.
Next == \A c \in Channel : Give(c) \/ Take(c) \/ Lose(c) \/ Refuse(c) \/ Rest(c)

Spec == Init /\ [][Next]_vars

============================================================================
