----------------------------- MODULE PodDeploy -----------------------------
(***************************************************************************)
(* Deploying customer pods (pkg/kube DeployPod and DeletePod, and the      *)
(* cluster controller's deployCustomerPods and Restart).                   *)
(*                                                                         *)
(* Pods cannot be updated in place, so DeployPod deletes and recreates     *)
(* them, unless the annotation of the existing pod says that it was        *)
(* deployed from the same spec.  Nothing locks the namespace: the requests *)
(* of concurrent calls interleave at the API server, and the cluster       *)
(* controller may crash between any two of them.                           *)
(***************************************************************************)
EXTENDS Naturals, FiniteSets

CONSTANTS
    Names,        \* names of customer pods
    Bodies,       \* what a Compose file says about a service
    Images,       \* images of the init containers, and node affinities
    Calls,        \* deployCustomerPods and Restart calls under way
    NoPod,        \* neither a pod nor a spec
    MaxRestarts,  \* how many times Restart is called
    MaxCrashes    \* how many times the cluster controller crashes

\* A pod's spec.  filled: it was read back from Kubernetes, which fills in the
\* node, defaults and a token volume.
Specs == [body : Bodies, image : Images, filled : BOOLEAN]

\* What a call may be asked for.
Wanted == UNION {[S -> Specs] : S \in SUBSET Names}

\* What toPods may ask for: some of the pods, fresh from a Compose file.
Desired == UNION {[S -> {s \in Specs : ~s.filled}] : S \in SUBSET Names}

\* A pod: what runs, the blimp.appliedObject annotation, and whether it is
\* being deleted.
Pods == [spec : Specs, applied : Specs, going : BOOLEAN]

ASSUME PodDeployAssumption ==
    /\ NoPod \notin Pods
    /\ MaxRestarts \in Nat /\ MaxCrashes \in Nat

VARIABLES
    pods,     \* the customer pods in the namespace
    pc,       \* where a call is
    want,     \* the pods a call was asked for, as a function
    force,    \* a call's ForceRestart
    todo,     \* names of wanted pods that a call has yet to deploy
    stale,    \* names of currPods, as deployCustomerPods listed them
    cur,      \* the pod a call is working on
    alone,    \* history: no other call, and no deletion that a crashed call left
              \* behind, has been under way during this one
    restarts, crashes

vars == <<pods, pc, want, force, todo, stale, cur, alone, restarts, crashes>>

CallStates == {"idle", "deploy", "delete", "await", "create", "awaitStale",
               "done", "failed"}

Active(c) == pc[c] \notin {"idle", "done", "failed"}

TypeOK ==
    /\ pods \in [Names -> Pods \cup {NoPod}]
    /\ pc \in [Calls -> CallStates]
    /\ want \in [Calls -> Wanted]
    /\ force \in [Calls -> BOOLEAN]
    /\ todo \in [Calls -> SUBSET Names]
    /\ \A c \in Calls : todo[c] \subseteq DOMAIN want[c]
    /\ stale \in [Calls -> SUBSET Names]
    /\ cur \in [Calls -> Names \cup {NoPod}]
    /\ alone \in [Calls -> BOOLEAN]
    /\ restarts \in 0..MaxRestarts /\ crashes \in 0..MaxCrashes

Nothing == [n \in {} |-> NoPod]

\* A new namespace with a reservation pod, or one that was deployed before.
Init ==
    /\ pods \in [Names -> {NoPod} \cup
                   {[spec |-> s, applied |-> s, going |-> FALSE] :
                      s \in {s \in Specs : ~s.filled}}]
    /\ pc = [c \in Calls |-> "idle"]
    /\ want = [c \in Calls |-> Nothing]
    /\ force = [c \in Calls |-> FALSE]
    /\ todo = [c \in Calls |-> {}]
    /\ stale = [c \in Calls |-> {}]
    /\ cur = [c \in Calls |-> NoPod]
    /\ alone = [c \in Calls |-> FALSE]
    /\ restarts = 0 /\ crashes = 0

Goto(c, label) == pc' = [pc EXCEPT ![c] = label]

\* A call's locals go when it returns; want stays, for the properties.
Finish(c, outcome) ==
    /\ Goto(c, outcome)
    /\ todo' = [todo EXCEPT ![c] = {}]
    /\ stale' = [stale EXCEPT ![c] = {}]
    /\ cur' = [cur EXCEPT ![c] = NoPod]

\* A call begins: no other one is alone from now on.
Begin(c, pods_wanted, forced) ==
    /\ ~Active(c)
    /\ Goto(c, "deploy")
    /\ want' = [want EXCEPT ![c] = pods_wanted]
    /\ todo' = [todo EXCEPT ![c] = DOMAIN pods_wanted]
    /\ force' = [force EXCEPT ![c] = forced]
    /\ alone' = [d \in Calls |-> /\ d = c
                                 /\ \A e \in Calls \ {c} : ~Active(e)
                                 /\ \A n \in Names : pods[n] # NoPod => ~pods[n].going]
    /\ cur' = [cur EXCEPT ![c] = NoPod]

-----------------------------------------------------------------------------
(* Calls                                                                   *)

\* deployCustomerPods lists the pods there are.
DeployCustomerPods(c, desired) ==
    /\ Begin(c, desired, FALSE)
    /\ stale' = [stale EXCEPT ![c] = {n \in Names : pods[n] # NoPod}]
    /\ UNCHANGED <<pods, restarts, crashes>>

\* Restart reads the pod and asks for the same spec again; without a pod it is
\* an error.
Restart(c, n) ==
    /\ restarts < MaxRestarts
    /\ pods[n] # NoPod
    /\ Begin(c, [m \in {n} |-> [pods[n].spec EXCEPT !.filled = TRUE]], TRUE)
    /\ restarts' = restarts + 1
    /\ UNCHANGED <<pods, stale, crashes>>

\* Fault: the images are compared as well.
SanitizeNothing(desired, curr) == desired

\* The sanitizers: what the existing pod decides is taken from it.
Sanitize(desired, curr) == [desired EXCEPT !.image = curr.image]

\* Fault: the pod's name is enough.
UpToDateIfThere(c, n) == pods[n] # NoPod /\ ~force[c]

\* DeployPod has nothing to do.
UpToDate(c, n) ==
    /\ pods[n] # NoPod
    /\ ~force[c]
    /\ Sanitize(want[c][n], pods[n].spec) = pods[n].applied

\* DeployPod gets the pod with the name and decides.
DeployPod(c, n) ==
    /\ pc[c] = "deploy"
    /\ n \in todo[c]
    /\ IF UpToDate(c, n)
         THEN todo' = [todo EXCEPT ![c] = @ \ {n}] /\ UNCHANGED <<pc, cur>>
         ELSE /\ Goto(c, IF pods[n] = NoPod THEN "create" ELSE "delete")
              /\ cur' = [cur EXCEPT ![c] = n]
              /\ UNCHANGED todo
    /\ UNCHANGED <<pods, want, force, stale, alone, restarts, crashes>>

\* Fault: the request to delete is never made.
DeletePodUnsent(c) ==
    /\ pc[c] = "delete"
    /\ pods[cur[c]] # NoPod
    /\ Goto(c, "await")
    /\ UNCHANGED <<pods, want, force, todo, stale, cur, alone, restarts, crashes>>

\* DeletePod: delete, ...
DeletePod(c) ==
    /\ pc[c] = "delete"
    /\ pods[cur[c]] # NoPod
    /\ pods' = [pods EXCEPT ![cur[c]].going = TRUE]
    /\ Goto(c, "await")
    /\ UNCHANGED <<want, force, todo, stale, cur, alone, restarts, crashes>>

\* ... which is an error if someone else has, ...
DeletePodFails(c) ==
    /\ pc[c] = "delete"
    /\ pods[cur[c]] = NoPod
    /\ Finish(c, "failed")
    /\ UNCHANGED <<pods, want, force, alone, restarts, crashes>>

\* ... and wait until there is no pod with this name.
PodGone(c) ==
    /\ pc[c] = "await"
    /\ pods[cur[c]] = NoPod
    /\ Goto(c, "create")
    /\ UNCHANGED <<pods, want, force, todo, stale, cur, alone, restarts, crashes>>

\* The pod is created with the annotation that says from what.
CreatePod(c) ==
    LET n == cur[c] IN
    /\ pc[c] = "create"
    /\ pods[n] = NoPod
    /\ pods' = [pods EXCEPT ![n] = [spec |-> want[c][n], applied |-> want[c][n],
                                    going |-> FALSE]]
    /\ todo' = [todo EXCEPT ![c] = @ \ {n}]
    /\ Goto(c, "deploy")
    /\ UNCHANGED <<want, force, stale, cur, alone, restarts, crashes>>

\* Someone else has created a pod with the name.
CreatePodFails(c) ==
    /\ pc[c] = "create"
    /\ pods[cur[c]] # NoPod
    /\ Finish(c, "failed")
    /\ UNCHANGED <<pods, want, force, alone, restarts, crashes>>

\* Fault: pods that are no longer wanted stay.
StalePodsNone(c) == {}

\* The pods that were there and are not wanted.
StalePods(c) == stale[c] \ DOMAIN want[c]

\* All wanted pods are deployed: delete the stale ones, one at a time.
DeleteStale(c, n) ==
    /\ pc[c] = "deploy" /\ todo[c] = {}
    /\ ~force[c] /\ n \in StalePods(c)
    /\ IF pods[n] = NoPod
         THEN Finish(c, "failed") /\ UNCHANGED pods
         ELSE /\ pods' = [pods EXCEPT ![n].going = TRUE]
              /\ Goto(c, "awaitStale")
              /\ cur' = [cur EXCEPT ![c] = n]
              /\ UNCHANGED <<todo, stale>>
    /\ UNCHANGED <<want, force, alone, restarts, crashes>>

StaleGone(c) ==
    /\ pc[c] = "awaitStale"
    /\ pods[cur[c]] = NoPod
    /\ stale' = [stale EXCEPT ![c] = @ \ {cur[c]}]
    /\ Goto(c, "deploy")
    /\ UNCHANGED <<pods, want, force, todo, cur, alone, restarts, crashes>>

Return(c) ==
    /\ pc[c] = "deploy" /\ todo[c] = {}
    /\ force[c] \/ StalePods(c) = {}
    /\ Finish(c, "done")
    /\ UNCHANGED <<pods, want, force, alone, restarts, crashes>>

-----------------------------------------------------------------------------
\* Kubernetes removes a pod that was deleted.
PodRemoved(n) ==
    /\ pods[n] # NoPod /\ pods[n].going
    /\ pods' = [pods EXCEPT ![n] = NoPod]
    /\ UNCHANGED <<pc, want, force, todo, stale, cur, alone, restarts, crashes>>

\* The cluster controller crashes and every call with it.
Crash ==
    /\ crashes < MaxCrashes
    /\ \E c \in Calls : Active(c)
    /\ crashes' = crashes + 1
    /\ pc' = [c \in Calls |-> "idle"]
    /\ want' = [c \in Calls |-> Nothing]
    /\ force' = [c \in Calls |-> FALSE]
    /\ todo' = [c \in Calls |-> {}]
    /\ stale' = [c \in Calls |-> {}]
    /\ cur' = [c \in Calls |-> NoPod]
    /\ alone' = [c \in Calls |-> FALSE]
    /\ UNCHANGED <<pods, restarts>>

CallStep(c) ==
    \/ \E n \in Names : DeployPod(c, n) \/ DeleteStale(c, n)
    \/ DeletePod(c) \/ DeletePodFails(c) \/ PodGone(c)
    \/ CreatePod(c) \/ CreatePodFails(c) \/ StaleGone(c) \/ Return(c)

Next ==
    \/ \E c \in Calls : \/ CallStep(c)
                        \/ \E desired \in Desired : DeployCustomerPods(c, desired)
                        \/ \E n \in Names : Restart(c, n)
    \/ \E n \in Names : PodRemoved(n)
    \/ Crash

Spec == Init /\ [][Next]_vars

\* Requests are answered and pods that were deleted go away.
Fairness ==
    /\ \A c \in Calls : WF_vars(CallStep(c))
    /\ \A n \in Names : WF_vars(PodRemoved(n))

FairSpec == Spec /\ Fairness

-----------------------------------------------------------------------------
(* Properties                                                              *)

\* deployCustomerPods does what it is for: when a call that was alone returns
\* without error, the namespace runs what it was asked for, and nothing else,
\* whatever the calls and crashes before it left behind.
DeployConverges ==
    \A c \in Calls : pc[c] = "done" /\ alone[c] /\ ~force[c] =>
        \A n \in Names :
            IF n \in DOMAIN want[c]
              THEN pods[n] # NoPod /\ pods[n].spec.body = want[c][n].body
              ELSE pods[n] = NoPod

\* Errors of DeployPod come from other calls, never from its own steps.
FailsOnlyTogether == \A c \in Calls : pc[c] = "failed" => ~alone[c]

\* A deployment that is alone succeeds, and then the namespace is as asked for.
DeployAloneConverges == DeployConverges /\ FailsOnlyTogether

\* A call that is alone does not delete a pod that runs the wanted service
\* already, even if the init images have changed.  Pods that Restart made are
\* excepted.
UnchangedPodSurvives ==
    [][\A c \in Calls, n \in Names :
         /\ pc[c] = "delete" /\ pc'[c] # "delete" /\ cur[c] = n
         /\ alone[c] /\ ~force[c]
         /\ pods[n] # NoPod /\ ~pods[n].spec.filled
         => pods[n].spec.body # want[c][n].body]_vars

\* A call comes to an end: only another call that recreates a pod can make
\* DeletePod, which looks for the name and not for the pod, wait forever.
AloneReturns ==
    \A c \in Calls : (Active(c) /\ alone[c]) ~> (~Active(c) \/ ~alone[c])

=============================================================================
