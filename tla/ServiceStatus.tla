--------------------------- MODULE ServiceStatus ---------------------------
(***************************************************************************)
(* What the cluster controller reports about a sandbox: statusFetcher.Get  *)
(* and getServiceStatus (cluster-controller/status.go) as functions of the *)
(* namespace, the pods and the Kubernetes events they read, and what the   *)
(* CLI makes of a service's status (cli/ps/status.go).                     *)
(***************************************************************************)
EXTENDS Naturals, Sequences, SequencesExt, FiniteSetsExt

CONSTANTS
    Services,
    NoPod        \* a service that has no pod

-----------------------------------------------------------------------------
(* Kubernetes objects                                                      *)

\* State of a container, told apart by what the code tells apart.  The three
\* Waiting states are ErrImagePull or ImagePullBackOff, CreateContainerError
\* after a deadline, and every other reason.
Waiting == {"pullFailure", "clusterError", "waiting"}

\* An init container.  "completed" is Terminated with reason Completed,
\* "failed" any other Terminated.
InitNames == {"copyVCP", "initializeVolume", "waitVolumes", "waitDependsOn", "waitSync"}
InitContainers == [name : InitNames, state : Waiting \cup {"running", "completed", "failed"}]

\* The one entry of ContainerStatuses, or NoContainer when there is none.
NoContainer == [state |-> "none", ready |-> FALSE, restarted |-> FALSE]
Containers ==
    [state : Waiting \cup {"running", "terminated"}, ready : BOOLEAN, restarted : BOOLEAN]
        \cup {NoContainer}

\* A pod.  ran is history: its container has been started at least once.  It has
\* if the kubelet says that it runs, has ended or was restarted, or that the pod
\* runs or has succeeded.
PodRecords ==
    {p \in [init : Seq(InitContainers), container : Containers,
            phase : {"Pending", "Running", "Succeeded", "Failed", "Unknown"},
            unschedulable : BOOLEAN, ran : BOOLEAN] :
        \/ p.container.state \in {"running", "terminated"} \/ p.container.restarted
        \/ p.phase \in {"Running", "Succeeded"}
        => p.ran}

\* An event of the kubelet about the image of a service's init container that
\* fills volumes, or of its main container.  LastTimestamp counts seconds.
ImageEvents ==
    [service : Services, of : {"init", "main"}, reason : {"Pulling", "Pulled"}, at : Nat \ {0}]

-----------------------------------------------------------------------------
(* statusFetcher                                                           *)

Status(phase, msg, hasStarted) == [phase |-> phase, msg |-> msg, hasStarted |-> hasStarted]

\* The last time an event with this reason was seen, 0 if never.
LastSeen(events, svc, of, reason) ==
    Max({0} \cup {e.at : e \in {x \in events : /\ x.service = svc
                                               /\ x.of = of
                                               /\ x.reason = reason}})

\* A pull has started, and no completion at or after it is known.
isPulling(events, svc, of) ==
    LET pullStarted   == LastSeen(events, svc, of, "Pulling")
        pullCompleted == LastSeen(events, svc, of, "Pulled")
    IN  pullStarted # 0 /\ pullCompleted < pullStarted

ClusterError == Status("PENDING", "clusterError", FALSE)

InitPhase(name) ==
    CASE name \in {"copyVCP", "initializeVolume", "waitVolumes"} -> "INITIALIZING_VOLUMES"
      [] name = "waitDependsOn"                                  -> "WAIT_DEPENDS_ON"
      [] name = "waitSync"                                       -> "WAIT_SYNC_BIND"

\* The status while c is the first init container that has not completed.
InitStatus(c, svc, events) ==
    LET ofImage == c.name = "initializeVolume"
    IN  CASE c.state = "failed"                 -> Status(InitPhase(c.name), "systemError", FALSE)
          [] ofImage /\ c.state = "pullFailure" -> Status("PENDING", "pullFailure", FALSE)
          [] /\ ofImage /\ c.state \notin {"failed", "pullFailure"}
             /\ isPulling(events, svc, "init")  -> Status("PENDING", "pulling", FALSE)
          [] OTHER -> IF c.state = "clusterError"
                        THEN ClusterError
                        ELSE Status(InitPhase(c.name), "none", FALSE)

\* Fault: a container that waits counts as started.
WaitingIsStarted(c, svc, events) ==
    Status(IF c.state = "running" THEN "RUNNING" ELSE "PENDING", "none",
           c.state \notin {"clusterError", "pullFailure"})

\* The status told by the main container.
ContainerStatus(c, svc, events) ==
    CASE c.state = "clusterError" -> ClusterError
      [] c.state = "running" -> Status(IF c.ready THEN "RUNNING" ELSE "UNHEALTHY", "none", TRUE)
      [] c.state = "pullFailure" -> Status("PENDING", "pullFailure", FALSE)
      [] c.state = "waiting" ->
            Status("PENDING", IF isPulling(events, svc, "main") THEN "pulling" ELSE "reason",
                   c.restarted)
      [] c.state = "terminated" -> Status("EXITED", "reason", TRUE)

isUnschedulable(pod) == pod.phase = "Pending" /\ pod.unschedulable

\* The fallback when no container tells anything.
PhaseStatus(phase) ==
    CASE phase = "Running"                -> Status("RUNNING", "none", TRUE)
      [] phase = "Pending"                -> Status("PENDING", "none", FALSE)
      [] phase \in {"Succeeded", "Failed"} -> Status("EXITED", "reason", TRUE)
      [] phase = "Unknown"                -> Status("UNKNOWN", "none", FALSE)

\* The first init container that has not completed, 0 if there is none.
PendingInit(pod) == SelectInSeq(pod.init, LAMBDA c : c.state # "completed")

getServiceStatus(pod, svc, events) ==
    LET i == PendingInit(pod)
    IN  CASE i # 0 -> InitStatus(pod.init[i], svc, events)
          [] i = 0 /\ pod.container # NoContainer -> ContainerStatus(pod.container, svc, events)
          [] i = 0 /\ pod.container = NoContainer ->
                IF isUnschedulable(pod) THEN Status("UNSCHEDULABLE", "none", FALSE)
                                        ELSE PhaseStatus(pod.phase)

NoServices == [s \in {} |-> ClusterError]

\* A namespace is "Active", "Terminating" or "gone".  Only an active one has
\* its pods looked at.
ReadsPods(ns) == ns = "Active"

\* The answer of Get for what it read; pods has the reservation pod apart.
Get(ns, pods, events) ==
    CASE ns = "gone"        -> [phase |-> "DOES_NOT_EXIST", services |-> NoServices]
      [] ns = "Terminating" -> [phase |-> "TERMINATING", services |-> NoServices]
      [] ns = "Active"      ->
            [phase    |-> IF pods.reservation THEN "PREPARING" ELSE "RUNNING",
             services |-> [s \in {x \in Services : pods.of[x] # NoPod} |->
                              getServiceStatus(pods.of[s], s, events)]]

-----------------------------------------------------------------------------
(* The CLI's reading of a status                                           *)

\* GetStatusString's third result, and the answer for a service the message
\* does not mention (statusPrinter.getServiceStatus).
Booted(services, svc) == svc \in DOMAIN services /\ services[svc].hasStarted

=============================================================================
