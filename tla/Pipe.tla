-------------------------------- MODULE Pipe --------------------------------
(***************************************************************************)
(* What a tunnel promises to the two programs at its ends: a connection.   *)
(* Each receives a prefix of what the other sent, and nothing once its end *)
(* is closed.                                                              *)
(***************************************************************************)
EXTENDS Naturals, Sequences

CONSTANTS Ends, Peer(_)

VARIABLES
    sent,        \* sent[e]: what the program at e has sent
    got,         \* got[e]: what it has received
    closed       \* the ends that are closed

vars == <<sent, got, closed>>

Init ==
    /\ sent = [e \in Ends |-> <<>>]
    /\ got = [e \in Ends |-> <<>>]
    /\ closed = {}

Send(e) ==
    /\ sent' = [sent EXCEPT ![e] = Append(@, Len(@) + 1)]
    /\ UNCHANGED <<got, closed>>

\* More of what the peer has sent arrives.
Deliver(e) ==
    /\ e \notin closed
    /\ \E n \in (Len(got[e]) + 1)..Len(sent[Peer(e)]) :
         got' = [got EXCEPT ![e] = SubSeq(sent[Peer(e)], 1, n)]
    /\ UNCHANGED <<sent, closed>>

Close(e) ==
    /\ closed' = closed \cup {e}
    /\ UNCHANGED <<sent, got>>

Next == \E e \in Ends : Send(e) \/ Deliver(e) \/ Close(e)

Spec == Init /\ [][Next]_vars

=============================================================================
