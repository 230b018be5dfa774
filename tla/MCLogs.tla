------------------------------- MODULE MCLogs -------------------------------
(***************************************************************************)
(* Commands for the model of Logs: one service whose stream breaks and     *)
(* whose container restarts, and two of which one may go on while the      *)
(* other leaves and comes back.                                            *)
(***************************************************************************)
EXTENDS Logs

CONSTANTS a, b

MCServices == {a, b}

MCCommands ==
    {[services |-> {a}, maxLines |-> 2, maxRestarts |-> 1, maxBreaks |-> 1],
     [services |-> {a, b}, maxLines |-> 1, maxRestarts |-> 1, maxBreaks |-> 0]}

=============================================================================
