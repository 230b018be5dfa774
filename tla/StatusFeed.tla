----------------------------- MODULE StatusFeed -----------------------------
(***************************************************************************)
(* What WatchStatus promises a client, without informers, channels and     *)
(* streams: a picture of the sandbox that is made of things that were so,  *)
(* that never goes back in time, and that ends up being the truth as long  *)
(* as the client follows and the controller is not deaf.                   *)
(***************************************************************************)
EXTENDS Naturals

CONSTANTS
    Sources,     \* what a picture is made of
    Pictures,    \* what a client can be shown
    Nothing      \* not a picture: nothing has been shown yet

VARIABLES
    version,     \* how often each source has changed
    truth,       \* the picture of the sandbox as it is
    seen,        \* the version of each source the client's picture is made of
    shown,       \* the client's picture
    following,   \* the client wants to be told
    deaf         \* the controller missed a change and will not hear of it

vars == <<version, truth, seen, shown, following, deaf>>

Init ==
    /\ version \in [Sources -> Nat \ {0}]
    /\ truth \in Pictures
    /\ seen = [s \in Sources |-> 0]
    /\ shown = Nothing
    /\ following = FALSE
    /\ deaf = FALSE

\* The sandbox changes.
Change ==
    /\ \E s \in Sources : version' = [version EXCEPT ![s] = @ + 1]
    /\ truth' \in Pictures
    /\ UNCHANGED <<seen, shown, following, deaf>>

\* The client is shown a picture: not older than the last one in any part,
\* and the truth if it is made of the last version of everything.
Show ==
    /\ following
    /\ seen' \in [Sources -> Nat]
    /\ \A s \in Sources : seen[s] <= seen'[s] /\ seen'[s] <= version[s]
    /\ shown' \in Pictures
    /\ seen' = version => shown' = truth
    /\ following' \in BOOLEAN
    /\ UNCHANGED <<version, truth, deaf>>

\* The client comes or goes.
Turn == following' = ~following /\ UNCHANGED <<version, truth, seen, shown, deaf>>

\* The controller misses something, or hears again.
Listen == deaf' = ~deaf /\ UNCHANGED <<version, truth, seen, shown, following>>

Next == Change \/ Show \/ Turn \/ Listen

\* Whoever follows is not left with a picture that is not the truth.
Settles == (following /\ ~deaf /\ shown # truth) ~> (shown = truth \/ ~following \/ deaf)

SafeSpec == Init /\ [][Next]_vars

=============================================================================
