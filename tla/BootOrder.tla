----------------------------- MODULE BootOrder -----------------------------
(***************************************************************************)
(* The order in which the services of a Compose file boot.                 *)
(*                                                                         *)
(* cluster-controller/pod.go turns a service into a pod whose init         *)
(* containers seed its native volume and then wait: for the services that  *)
(* share the volume, for the services it depends on, for the CLI's initial *)
(* sync.  A waiting init container (sandbox/init) calls CheckReady on the  *)
(* node controller (node/wait/wait.go), which looks at the pods through an *)
(* informer's cache.  Kubernetes creates the pods, runs the containers and *)
(* reports their status, each at its own pace.                             *)
(*                                                                         *)
(* One native volume is enough: services that share none do not interact.  *)
(***************************************************************************)
EXTENDS Naturals, Sequences, FiniteSets

CONSTANTS
    Services,
    Composes,   \* the Compose files under consideration
    OneShot,    \* services whose process may end (restart policy Never)
    MaxBreaks,  \* how many CheckReady streams break and are retried
    MaxFlaps    \* how many times a readiness probe fails after it passed

(***************************************************************************)
(* A Compose file: the depends_on condition of a service on another, its   *)
(* links, who mounts the native volume and who has a bind volume.          *)
(***************************************************************************)
Conditions == {"none", "service_healthy", "service_started", "unknown"}
ComposeFiles ==
    [depends_on : [Services -> [Services -> Conditions]],
     links : [Services -> SUBSET Services],
     volume : SUBSET Services,
     bind : SUBSET Services]

ASSUME ComposeAssumption == Composes \subseteq ComposeFiles
ASSUME BootBoundsAssumption ==
    OneShot \subseteq Services /\ MaxBreaks \in Nat /\ MaxFlaps \in Nat

VARIABLES
    compose,  \* the Compose file that was deployed
    at,       \* the container a pod runs: its place in BootSequence, 0 without pod
    seeder,   \* where vcp is with the native volume
    filled,   \* the native volume is not empty
    synced,   \* the CLI's initial sync is done
    runtime,  \* the service's own container
    seen,     \* the pods in the node controller's informer cache
    met,      \* the waiters of a CheckReady call that have returned
    blind,    \* history: <<s, d>> where d met a wait of s before any status of d
    wasReady, \* history: services whose container has been ready
    breaks, flaps

bootVars == <<compose, at, seeder, filled, synced, runtime, seen, met, blind,
              wasReady, breaks, flaps>>

-----------------------------------------------------------------------------
(* From a service to its pod                                               *)

\* Fault: the init containers that wait come before the one that seeds.
BootSequenceWaitsFirst ==
    <<"wait-initialized-volumes", "wait-depends-on", "copy-vcp", "vcp",
      "wait-initial-sync", "runtime">>

\* The order in which ToPod appends containers.
BootSequence ==
    <<"copy-vcp", "vcp", "wait-initialized-volumes", "wait-depends-on",
      "wait-initial-sync", "runtime">>

Place(name) == CHOOSE i \in 1..6 : BootSequence[i] = name

DependsOn(s) == compose.depends_on[s]

\* marshalDependencies: links add conditions, depends_on takes precedence.
MarshalDependencies(s) ==
    [d \in Services |-> IF DependsOn(s)[d] = "none" /\ d \in compose.links[s]
                          THEN "service_started" ELSE DependsOn(s)[d]]

SharingVolume(s) == compose.volume \ {s}

\* The containers of ToPod(s).
ToPod(s) ==
    {"runtime"}
    \cup (IF s \in compose.volume THEN {"copy-vcp", "vcp"} ELSE {})
    \cup (IF s \in compose.volume /\ SharingVolume(s) # {}
            THEN {"wait-initialized-volumes"} ELSE {})
    \cup (IF \E d \in Services : DependsOn(s)[d] # "none"
            THEN {"wait-depends-on"} ELSE {})
    \cup (IF s \in compose.bind THEN {"wait-initial-sync"} ELSE {})

Runs(s, name) == at[s] \in 1..6 /\ BootSequence[at[s]] = name

\* The pod has run the container to its end, or never had it.
Past(s, name) == at[s] > Place(name)

\* The kubelet starts the next container of the pod.
Advance(s) ==
    \E i \in 1..6 :
        /\ i > at[s] /\ BootSequence[i] \in ToPod(s)
        /\ \A j \in 1..6 : j > at[s] /\ j < i => BootSequence[j] \notin ToPod(s)
        /\ at' = [at EXCEPT ![s] = i]
        /\ runtime' = IF BootSequence[i] = "runtime"
                        THEN [runtime EXCEPT ![s] = "unready"] ELSE runtime

-----------------------------------------------------------------------------
(* What the node controller sees                                           *)

\* A pod in the cache.  Until the kubelet first reports, a pod has no
\* container statuses at all and is Pending.
Absent == [exists |-> FALSE, vcp |-> "noStatus", ready |-> "noStatus",
           phase |-> "Pending"]
Unreported == [Absent EXCEPT !.exists = TRUE]

\* The pod's status as the kubelet reports it.
Reported(s) ==
    [exists |-> TRUE,
     vcp |-> IF "vcp" \notin ToPod(s) THEN "noStatus"
             ELSE IF Past(s, "vcp") THEN "completed" ELSE "pending",
     ready |-> IF runtime[s] = "ready" THEN "yes" ELSE "no",
     phase |-> CASE runtime[s] = "waiting" -> "Pending"
                 [] runtime[s] = "exited" -> "Succeeded"
                 [] OTHER -> "Running"]

\* Fault: any status will do.
PodHealthyIfReported(p) == p.exists

\* Every container status says ready.
conditionPodHealthy(p) == p.exists /\ p.ready # "no"

conditionPodStarted(p) == p.exists /\ p.phase = "Running"

\* The init container that seeds volumes has completed, or there is none.
conditionFinishedVolumeInit(p) == p.exists /\ p.vcp # "pending"

\* The waiters CheckReady builds for the wait container that s runs.
Waiters(s) ==
    CASE Runs(s, "wait-initialized-volumes") -> SharingVolume(s)
      [] Runs(s, "wait-depends-on") ->
           {d \in Services : MarshalDependencies(s)[d] \in
                               {"service_healthy", "service_started"}}
      [] OTHER -> {}

\* The condition that the waiter for d evaluates.
Satisfied(s, d) ==
    IF Runs(s, "wait-initialized-volumes") THEN conditionFinishedVolumeInit(seen[d])
    ELSE IF MarshalDependencies(s)[d] = "service_healthy" THEN conditionPodHealthy(seen[d])
    ELSE conditionPodStarted(seen[d])

-----------------------------------------------------------------------------
BootInit ==
    /\ compose \in Composes
    /\ at = [s \in Services |-> 0]
    /\ seeder = [s \in Services |-> "idle"]
    /\ filled \in BOOLEAN
    /\ synced = FALSE
    /\ runtime = [s \in Services |-> "waiting"]
    /\ seen = [s \in Services |-> Absent]
    /\ met = [s \in Services |-> {}]
    /\ blind = {}
    /\ wasReady = {}
    /\ breaks = 0 /\ flaps = 0

\* deployCustomerPods creates the pod and the kubelet starts its first container.
CreatePod(s) ==
    /\ at[s] = 0
    /\ Advance(s)
    /\ UNCHANGED <<compose, seeder, filled, synced, seen, met, blind, wasReady,
                   breaks, flaps>>

\* The informer learns of the pod before the kubelet has reported on it.
SeeNewPod(s) ==
    /\ at[s] > 0
    /\ seen[s] = Absent
    /\ seen' = [seen EXCEPT ![s] = Unreported]
    /\ UNCHANGED <<compose, at, seeder, filled, synced, runtime, met, blind,
                   wasReady, breaks, flaps>>

\* The kubelet reports and the informer catches up; in between is not seen.
SeeStatus(s) ==
    /\ at[s] > 0
    /\ seen[s] # Reported(s)
    /\ seen' = [seen EXCEPT ![s] = Reported(s)]
    /\ UNCHANGED <<compose, at, seeder, filled, synced, runtime, met, blind,
                   wasReady, breaks, flaps>>

\* The copy-vcp container ends.
CopyVcp(s) ==
    /\ Runs(s, "copy-vcp")
    /\ Advance(s)
    /\ UNCHANGED <<compose, seeder, filled, synced, seen, met, blind, wasReady,
                   breaks, flaps>>

\* vcp reads the volume's directory and finds it empty ...
VcpFindsEmpty(s) ==
    /\ Runs(s, "vcp")
    /\ seeder[s] = "idle"
    /\ ~filled
    /\ seeder' = [seeder EXCEPT ![s] = "checked"]
    /\ UNCHANGED <<compose, at, filled, synced, runtime, seen, met, blind,
                   wasReady, breaks, flaps>>

\* ... and copies the image's files into it, ...
VcpCopies(s) ==
    /\ seeder[s] = "checked"
    /\ seeder' = [seeder EXCEPT ![s] = "copying"]
    /\ filled' = TRUE
    /\ UNCHANGED <<compose, at, synced, runtime, seen, met, blind, wasReady,
                   breaks, flaps>>

\* ... and exits cleanly, whether or not the copy went well.
VcpDone(s) ==
    /\ seeder[s] = "copying"
    /\ seeder' = [seeder EXCEPT ![s] = "idle"]
    /\ Advance(s)
    /\ UNCHANGED <<compose, filled, synced, seen, met, blind, wasReady, breaks,
                   flaps>>

\* The volume is not empty, or the image has nothing to copy.
VcpSkips(s) ==
    /\ Runs(s, "vcp")
    /\ seeder[s] = "idle"
    /\ Advance(s)
    /\ UNCHANGED <<compose, seeder, filled, synced, seen, met, blind, wasReady,
                   breaks, flaps>>

\* podWaiter.wait: checkOnce finds d's condition satisfied and returns.
WaiterReturns(s, d) ==
    /\ d \in Waiters(s) \ met[s]
    /\ Satisfied(s, d)
    /\ met' = [met EXCEPT ![s] = @ \cup {d}]
    /\ blind' = IF seen[d] = Unreported THEN blind \cup {<<s, d>>} ELSE blind
    /\ UNCHANGED <<compose, at, seeder, filled, synced, runtime, seen, wasReady,
                   breaks, flaps>>

\* The CheckReady stream breaks: the init container starts over.
StreamBreaks(s) ==
    /\ breaks < MaxBreaks
    /\ met[s] # {}
    /\ met' = [met EXCEPT ![s] = {}]
    /\ breaks' = breaks + 1
    /\ UNCHANGED <<compose, at, seeder, filled, synced, runtime, seen, blind,
                   wasReady, flaps>>

\* waitForAll has a result of every waiter: Ready, and the container exits.
WaitOver(s) ==
    /\ Runs(s, "wait-initialized-volumes") \/ Runs(s, "wait-depends-on")
    /\ Waiters(s) \subseteq met[s]
    /\ Advance(s)
    /\ met' = [met EXCEPT ![s] = {}]
    /\ UNCHANGED <<compose, seeder, filled, synced, seen, blind, wasReady, breaks,
                   flaps>>

\* The CLI's files are there (module SyncTracker).
InitialSync ==
    /\ ~synced
    /\ synced' = TRUE
    /\ UNCHANGED <<compose, at, seeder, filled, runtime, seen, met, blind,
                   wasReady, breaks, flaps>>

SyncWaitOver(s) ==
    /\ Runs(s, "wait-initial-sync")
    /\ synced
    /\ Advance(s)
    /\ UNCHANGED <<compose, seeder, filled, synced, seen, met, blind, wasReady,
                   breaks, flaps>>

\* The readiness probe passes (at once without a healthcheck) ...
ProbePasses(s) ==
    /\ runtime[s] = "unready"
    /\ runtime' = [runtime EXCEPT ![s] = "ready"]
    /\ wasReady' = wasReady \cup {s}
    /\ UNCHANGED <<compose, at, seeder, filled, synced, seen, met, blind, breaks,
                   flaps>>

\* ... and may fail later.
ProbeFails(s) ==
    /\ flaps < MaxFlaps
    /\ runtime[s] = "ready"
    /\ runtime' = [runtime EXCEPT ![s] = "unready"]
    /\ flaps' = flaps + 1
    /\ UNCHANGED <<compose, at, seeder, filled, synced, seen, met, blind,
                   wasReady, breaks>>

\* The service's process ends.
Exit(s) ==
    /\ s \in OneShot
    /\ runtime[s] \in {"unready", "ready"}
    /\ runtime' = [runtime EXCEPT ![s] = "exited"]
    /\ UNCHANGED <<compose, at, seeder, filled, synced, seen, met, blind,
                   wasReady, breaks, flaps>>

Progress(s) ==
    \/ CreatePod(s) \/ SeeStatus(s)
    \/ CopyVcp(s) \/ VcpFindsEmpty(s) \/ VcpCopies(s) \/ VcpDone(s) \/ VcpSkips(s)
    \/ (\E d \in Services : WaiterReturns(s, d))
    \/ WaitOver(s) \/ SyncWaitOver(s) \/ ProbePasses(s)

BootNext ==
    \/ \E s \in Services : \/ Progress(s) \/ SeeNewPod(s) \/ StreamBreaks(s)
                           \/ ProbeFails(s) \/ Exit(s)
    \/ InitialSync

\* Kubernetes makes progress, the informer catches up and, thanks to the
\* 30 second ticker, waiters look again; nothing has to break or to exit.
BootFairness ==
    /\ WF_bootVars(InitialSync)
    /\ \A s \in Services :
         /\ WF_bootVars(CreatePod(s)) /\ WF_bootVars(SeeStatus(s))
         /\ WF_bootVars(CopyVcp(s) \/ VcpFindsEmpty(s) \/ VcpCopies(s) \/ VcpDone(s)
                      \/ VcpSkips(s))
         /\ \A d \in Services : WF_bootVars(WaiterReturns(s, d))
         /\ WF_bootVars(WaitOver(s)) /\ WF_bootVars(SyncWaitOver(s))
         /\ WF_bootVars(ProbePasses(s))

BootSpec == BootInit /\ [][BootNext]_bootVars

FairBootSpec == BootSpec /\ BootFairness

-----------------------------------------------------------------------------
(* Properties                                                              *)

PodViews ==
    [exists : BOOLEAN, vcp : {"noStatus", "pending", "completed"},
     ready : {"noStatus", "yes", "no"}, phase : {"Pending", "Running", "Succeeded"}]

Booted(s) == runtime[s] # "waiting"

\* Types, and: the service's container runs once every init container has.
BootTypeOK ==
    /\ compose \in Composes
    /\ at \in [Services -> 0..6]
    /\ seeder \in [Services -> {"idle", "checked", "copying"}]
    /\ filled \in BOOLEAN /\ synced \in BOOLEAN
    /\ runtime \in [Services -> {"waiting", "unready", "ready", "exited"}]
    /\ seen \in [Services -> PodViews]
    /\ met \in [Services -> SUBSET Services]
    /\ blind \in SUBSET (Services \X Services)
    /\ wasReady \in SUBSET Services
    /\ breaks \in 0..MaxBreaks /\ flaps \in 0..MaxFlaps
    /\ \A s \in Services : Booted(s) <=> Runs(s, "runtime")

\* A service never boots before the services it waits for with
\* service_started, however stale the cache and whatever breaks meanwhile.
StartedOrder ==
    \A s, d \in Services :
        /\ Booted(s) /\ "wait-depends-on" \in ToPod(s)
        /\ MarshalDependencies(s)[d] = "service_started"
        => Booted(d)

\* A service boots after each service_healthy dependency has been ready at
\* some time, unless its waiter looked at a pod the kubelet had not reported.
HealthyOrder ==
    \A s, d \in Services :
        Booted(s) /\ DependsOn(s)[d] = "service_healthy"
        => d \in wasReady \/ <<s, d>> \in blind

\* The volume that a service boots with is complete: nobody who shares it is
\* still about to seed it, unless the waiter looked before the first report.
SeededOrder ==
    \A s, d \in compose.volume :
        Booted(s) /\ d # s
        => (Past(d, "vcp") /\ seeder[d] = "idle") \/ <<s, d>> \in blind

\* What a service waits for is there when it boots.
DependencyOrder == StartedOrder /\ HealthyOrder /\ SeededOrder

\* No deadlock of the waits: whatever the (acyclic) dependencies and the
\* sharing of the volume, every service boots, as long as no process that
\* others may be waiting to see Running has ended.
AllBoot == <>(\A s \in Services : Booted(s) \/ \E d \in Services : runtime[d] = "exited")

=============================================================================
