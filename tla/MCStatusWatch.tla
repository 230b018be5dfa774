--------------------------- MODULE MCStatusWatch ---------------------------
(***************************************************************************)
(* Pods for the model of StatusWatch: one per branch of getServiceStatus   *)
(* that the watch can meet, and how a pod moves between them.              *)
(***************************************************************************)
EXTENDS StatusWatch

Pod(init, container, phase, ran) ==
    [init |-> init, container |-> container, phase |-> phase, unschedulable |-> FALSE, ran |-> ran]

Container(state, ready, restarted) == [state |-> state, ready |-> ready, restarted |-> restarted]

InitPod(name, state) ==
    Pod(<<[name |-> "copyVCP", state |-> "completed"], [name |-> name, state |-> state]>>,
        Container("waiting", FALSE, FALSE), "Pending", FALSE)

Unschedulable == [Pod(<<>>, NoContainer, "Pending", FALSE) EXCEPT !.unschedulable = TRUE]
FillingVolume == InitPod("initializeVolume", "waiting")
WaitingForSync == InitPod("waitSync", "running")
Creating == Pod(<<>>, Container("waiting", FALSE, FALSE), "Pending", FALSE)
NotCreated == Pod(<<>>, Container("clusterError", FALSE, FALSE), "Pending", FALSE)
Unhealthy == Pod(<<>>, Container("running", FALSE, FALSE), "Running", TRUE)
Running == Pod(<<>>, Container("running", TRUE, FALSE), "Running", TRUE)
Exited == Pod(<<>>, Container("terminated", FALSE, FALSE), "Running", TRUE)
BackOff == Pod(<<>>, Container("waiting", FALSE, TRUE), "Running", TRUE)
Rejected == Pod(<<>>, NoContainer, "Failed", FALSE)

MCPodStates ==
    {Unschedulable, FillingVolume, WaitingForSync, Creating, NotCreated,
     Unhealthy, Running, Exited, BackOff, Rejected}

MCPodNext(p) ==
    CASE p = NoPod          -> {Unschedulable}
      [] p = Unschedulable  -> {FillingVolume, Rejected}
      [] p = WaitingForSync -> {Creating}
      [] p = Creating       -> {NotCreated, Unhealthy}
      [] p = Running        -> {Exited, NoPod}
      [] p = Exited         -> {BackOff}
      [] OTHER              -> {NoPod}

MCEventStates ==
    {[service |-> s, of |-> "main", reason |-> "Pulling", at |-> 1] : s \in Services}

\* Sandboxes at the start of a command: one that another `blimp up` prepares, one
\* that runs, and one without any pod.
Sandbox(reservation, pod) == [reservation |-> reservation, of |-> [s \in Services |-> pod]]
MCInitPods ==
    {Sandbox(TRUE, WaitingForSync), Sandbox(FALSE, Running), Sandbox(FALSE, NoPod)}

=============================================================================
