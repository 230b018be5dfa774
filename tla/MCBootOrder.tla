---------------------------- MODULE MCBootOrder ----------------------------
(* Compose files of two services for TLC. *)
EXTENDS BootOrder

CONSTANTS s1, s2

\* Every way to make depends_on and links acyclic, up to renaming: s2 may need
\* s1.  Only s2, which may have other waits too, has bind volumes.
Needs(s) == IF s = s2 THEN {s1} ELSE {}

MCComposes ==
    [depends_on : {f \in [Services -> [Services -> Conditions]] :
                     \A s \in Services : \A d \in Services \ Needs(s) :
                        f[s][d] = "none"},
     links : {l \in [Services -> SUBSET Services] :
                \A s \in Services : l[s] \subseteq Needs(s)},
     volume : SUBSET Services,
     bind : SUBSET {s2}]
=============================================================================
