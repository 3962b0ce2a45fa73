--------------------------- MODULE MessageStream ---------------------------
(***************************************************************************)
(* What a connection promises to the threads that write to it and to its   *)
(* client: the messages come one after the other in the order they were    *)
(* given, until the connection is closed.  Whoever gives another message   *)
(* after the last one has broken the agreement: what comes after that is   *)
(* unknown, but what has come stays as it is.                              *)
(***************************************************************************)
EXTENDS Naturals, Sequences

VARIABLES
    given,      \* all messages, in the order they were given
    got,        \* all messages that have reached the client
    up,         \* the connection is open
    last,       \* the last message was given as such
    broken      \* ... and another one after it

vars == <<given, got, up, last, broken>>

Init ==
    /\ given = <<>> /\ got = <<>>
    /\ up = TRUE /\ last = FALSE /\ broken = FALSE

\* t starts with all of s.
Extends(t, s) == Len(s) <= Len(t) /\ SubSeq(t, 1, Len(s)) = s

\* A message is given, perhaps as the last one.
Give ==
    /\ Extends(given', given) /\ Len(given') = Len(given) + 1
    /\ last' \in {last, TRUE}
    /\ broken' = (broken \/ last)
    /\ UNCHANGED <<got, up>>

\* The next messages come.
Deliver ==
    /\ up /\ ~broken
    /\ Extends(got', got) /\ Extends(given, got')
    /\ UNCHANGED <<given, up, last, broken>>

\* Something comes.
Garble ==
    /\ up /\ broken
    /\ Extends(got', got)
    /\ UNCHANGED <<given, up, last, broken>>

Close ==
    /\ up' = FALSE
    /\ UNCHANGED <<given, got, last, broken>>

Next == Give \/ Deliver \/ Garble \/ Close

Spec == Init /\ [][Next]_vars
=============================================================================
