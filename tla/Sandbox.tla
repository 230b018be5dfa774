------------------------------ MODULE Sandbox ------------------------------
(***************************************************************************)
(* The life of a sandbox: the cluster controller's CreateSandbox,          *)
(* GetBuildkit, DeployToSandbox and DeleteSandbox calls                    *)
(* (cluster-controller/main.go).                                           *)
(*                                                                         *)
(* A sandbox is a namespace with a network policy, a volume claim and      *)
(* pods.  The calls keep no state between them and take no lock: each one  *)
(* reads and creates the objects one request after the other, CreateSandbox *)
(* partly from the cache of an informer, and `blimp up`, `blimp build` and *)
(* `blimp down` of one user, or of several, run at the same time.          *)
(*                                                                         *)
(* Of a user's PersistentVolume only the phase is kept here: what the calls *)
(* of createPersistentVolume do until there is one, and `blimp down -v`,   *)
(* are in module Volume.  The deletion in the middle of DeployPod takes no *)
(* time (see PodDeploy).                                                   *)
(* GetConnectionInfo and the credentials that CreateSandbox makes after    *)
(* the dns pod is scheduled belong to the wait for buildkitd: like it they *)
(* time out, and nothing here reads what they make.                        *)
(***************************************************************************)
EXTENDS Naturals, FiniteSets

CONSTANTS
    Users,          \* each one has a namespace
    Returning,      \* those whose sandbox `blimp down` has just removed
    Calls,          \* RPCs under way at the same time
    Specs,          \* contents of Compose files
    Fixed,          \* the spec of the dns and buildkitd pods
    NoPod, NoUser,
    MaxSandboxes,   \* s.maxSandboxes
    MaxCalls,       \* how many RPCs are made
    MaxUpsets       \* how many of them are DeleteSandbox, or cut short by an
                    \* error or a crash

ASSUME SandboxAssumption ==
    /\ IsFiniteSet(Users) /\ Specs # {}
    /\ MaxSandboxes \in Nat /\ MaxCalls \in Nat
    /\ MaxUpsets \in Nat

Ops == {"CreateSandbox", "GetBuildkit", "DeployToSandbox", "DeleteSandbox"}
Objects == {"policy", "claim", "account"}
PodNames == {"reservation", "syncthing", "buildkitd", "dns", "customer"}

\* Pods with the label blimp.customerPod.
CustomerPods == {"reservation", "customer"}

\* Pods that go to one node, with the label blimp.customer.
Colocated == PodNames \ {"buildkitd"}

Pods == [spec : Specs \cup {Fixed}, scheduled : BOOLEAN, ready : BOOLEAN]

ASSUME NoPodAssumption == NoPod \notin Pods

VARIABLES
    ns,         \* phase of a user's namespace
    objs,       \* objects in it
    pods,       \* pods in it
    volume,     \* phase of the user's PersistentVolume; "Seeded" if another
                \* user's seed claim has it
    bound,      \* users whose volume claim is bound
    listed,     \* users whose namespace namespaceLister has
    podsListed, \* users for whom podLister has customer pods
    pc, op, user, spec, cur,    \* a call: where it is, what, whose, with which
                                \* Compose file, and the pod it works on
    currPods,   \* calls of deployCustomerPods whose list has the reservation
    unaware,    \* history: calls about to create a claim when the volume was
                \* released by an older one
    made, deletes, faults,      \* counters
    blind,      \* history: calls about to create a namespace whose check could
                \* not see every sandbox
    excused,    \* history: namespaces made by GetBuildkit or by one of them
    reserved,   \* history: users with a customer pod that was scheduled
    skipped,    \* history: users for whom no reservation was waited for although
                \* no customer pod was scheduled
    outlived,   \* history: users whose namespace went while a call was at work in it
    stranded    \* history: users whose claim was made for a volume that an older
                \* claim had, or by an unaware call

vars == <<ns, objs, pods, volume, bound, listed, podsListed, pc, op, user, spec, cur,
          currPods, unaware, made, deletes, faults,
          blind, excused, reserved, skipped, outlived, stranded>>

world == <<ns, objs, pods>>
cache == <<listed, podsListed>>
storage == <<volume, bound>>
locals == <<op, user, spec, currPods, unaware>>
counters == <<made, deletes, faults>>
history == <<blind, excused, reserved, skipped, outlived, stranded>>

CallStates == {"idle", "check", "find", "get", "namespace", "policy", "createPolicy",
               "claim", "volume", "release", "seed", "createClaim", "bound", "account",
               "list", "deploy", "create", "await", "currPods", "drop", "pods", "delete",
               "done"}

TypeOK ==
    /\ ns \in [Users -> {"none", "active", "terminating"}]
    /\ objs \in [Users -> SUBSET Objects]
    /\ pods \in [Users -> [PodNames -> Pods \cup {NoPod}]]
    /\ volume \in [Users -> {"none", "Available", "Bound", "Released", "Seeded"}]
    /\ bound \subseteq Users
    /\ listed \subseteq Users /\ podsListed \subseteq Users
    /\ pc \in [Calls -> CallStates]
    /\ op \in [Calls -> Ops]
    /\ user \in [Calls -> Users \cup {NoUser}]
    /\ spec \in [Calls -> Specs]
    /\ cur \in [Calls -> PodNames \cup {NoPod}]
    /\ currPods \subseteq Calls /\ unaware \subseteq Calls
    /\ made \in 0..MaxCalls /\ deletes \in 0..MaxUpsets /\ faults \in 0..MaxUpsets
    /\ blind \subseteq Calls /\ excused \subseteq Users
    /\ reserved \subseteq Users /\ skipped \subseteq Users /\ outlived \subseteq Users
    /\ stranded \subseteq Users
    /\ \A u \in Users : ns[u] = "none" => objs[u] = {}
    /\ \A u \in Users, p \in PodNames : ns[u] = "none" => pods[u][p] = NoPod

AnySpec == CHOOSE s \in Specs : TRUE

NoPods == [p \in PodNames |-> NoPod]

\* A user has had no sandbox yet, or the claim of the last one is just gone.
Init ==
    /\ volume = [u \in Users |-> IF u \in Returning THEN "Bound" ELSE "none"]
    /\ bound = {}
    /\ ns = [u \in Users |-> "none"]
    /\ objs = [u \in Users |-> {}]
    /\ pods = [u \in Users |-> NoPods]
    /\ listed = {} /\ podsListed = {}
    /\ pc = [c \in Calls |-> "idle"]
    /\ op = [c \in Calls |-> "CreateSandbox"]
    /\ user = [c \in Calls |-> NoUser]
    /\ spec = [c \in Calls |-> AnySpec]
    /\ cur = [c \in Calls |-> NoPod]
    /\ currPods = {} /\ unaware = {}
    /\ made = 0 /\ deletes = 0 /\ faults = 0
    /\ blind = {} /\ excused = {} /\ reserved = {} /\ skipped = {} /\ outlived = {}
    /\ stranded = {}

Active(c) == pc[c] \notin {"idle", "done"}

Sandboxes == {u \in Users : ns[u] # "none"}

\* A call goes on, ...
Goto(c, label) ==
    /\ pc' = [pc EXCEPT ![c] = label]
    /\ UNCHANGED <<cur, locals>>

GotoPod(c, label, p) ==
    /\ pc' = [pc EXCEPT ![c] = label]
    /\ cur' = [cur EXCEPT ![c] = p]
    /\ UNCHANGED locals

\* ... or returns: only of a successful CreateSandbox is more asked.
Return(c, outcome) ==
    /\ cur' = [cur EXCEPT ![c] = NoPod]
    /\ IF outcome = "done" /\ op[c] = "CreateSandbox"
         THEN pc' = [pc EXCEPT ![c] = "done"] /\ UNCHANGED locals
         ELSE /\ pc' = [pc EXCEPT ![c] = "idle"]
              /\ op' = [op EXCEPT ![c] = "CreateSandbox"]
              /\ user' = [user EXCEPT ![c] = NoUser]
              /\ spec' = [spec EXCEPT ![c] = AnySpec]
              /\ currPods' = currPods \ {c}
              /\ unaware' = unaware \ {c}

-----------------------------------------------------------------------------
(* RPCs                                                                    *)

\* An RPC comes in; it takes the name of one that is over.
Begin(c, u, o, s) ==
    /\ ~Active(c) /\ c = CHOOSE d \in Calls : ~Active(d)
    /\ o \in {"CreateSandbox", "DeployToSandbox"} \/ s = AnySpec
    /\ made < MaxCalls
    /\ made' = made + 1
    /\ deletes' = IF o = "DeleteSandbox" THEN deletes + 1 ELSE deletes
    /\ deletes' + faults <= MaxUpsets
    /\ op' = [op EXCEPT ![c] = o]
    /\ user' = [user EXCEPT ![c] = u]
    /\ spec' = [spec EXCEPT ![c] = s]
    /\ pc' = [pc EXCEPT ![c] = CASE o = "CreateSandbox" -> "check"
                                 [] o = "DeployToSandbox" -> "await"
                                 [] OTHER -> "find"]
    /\ cur' = [cur EXCEPT ![c] = IF o = "DeployToSandbox" THEN "dns" ELSE NoPod]
    /\ UNCHANGED <<world, storage, cache, currPods, unaware, faults, history>>

\* Fault: one sandbox more than the cap.
OverloadedLate(u) == Cardinality(listed \ {u}) > MaxSandboxes

\* The lister's sandboxes of other users reach the cap.
Overloaded(u) == Cardinality(listed \ {u}) >= MaxSandboxes

\* The check of c cannot see all sandboxes: the lister lags behind, or another
\* call is about to create one.
Blind(c) ==
    \/ ~(Sandboxes \subseteq listed)
    \/ \E d \in Calls \ {c} : /\ op[d] # "DeleteSandbox"
                            /\ pc[d] \in {"find", "get", "namespace"}

CheckCap(c) ==
    /\ pc[c] = "check"
    /\ IF Overloaded(user[c])
         THEN Return(c, "failed") /\ UNCHANGED blind
         ELSE /\ Goto(c, "get")
              /\ blind' = IF Blind(c) THEN blind \cup {c} ELSE blind
    /\ UNCHANGED <<world, storage, cache, counters,
                   excused, reserved, skipped, outlived, stranded>>

\* GetBuildkit skips createNamespace when there is a namespace, and
\* DeleteSandbox gives up when there is none.
Find(c) ==
    /\ pc[c] = "find"
    /\ IF op[c] = "GetBuildkit"
         THEN IF ns[user[c]] = "none"
                THEN Goto(c, "get")
                ELSE GotoPod(c, "deploy", "buildkitd")
         ELSE IF ns[user[c]] = "none"
                THEN Return(c, "failed")
                ELSE Goto(c, "pods")
    /\ UNCHANGED <<world, storage, cache, counters, history>>

-----------------------------------------------------------------------------
(* createNamespace                                                         *)

GetNamespace(c) ==
    /\ pc[c] = "get"
    /\ CASE ns[user[c]] = "none" -> Goto(c, "namespace")
         [] ns[user[c]] = "active" -> Goto(c, "policy")
         [] ns[user[c]] = "terminating" -> Return(c, "failed")
    /\ blind' = IF ns[user[c]] = "none" THEN blind ELSE blind \ {c}
    /\ UNCHANGED <<world, storage, cache, counters,
                   excused, reserved, skipped, outlived, stranded>>

CreateNamespace(c) ==
    LET u == user[c] IN
    /\ pc[c] = "namespace"
    /\ IF ns[u] = "none"
         THEN /\ ns' = [ns EXCEPT ![u] = "active"]
              /\ excused' = IF op[c] = "GetBuildkit" \/ c \in blind
                              THEN excused \cup {u} ELSE excused
              /\ Goto(c, "policy")
         ELSE Return(c, "failed") /\ UNCHANGED <<ns, excused>>
    /\ blind' = blind \ {c}
    /\ UNCHANGED <<objs, pods, storage, cache, counters, reserved, skipped, outlived, stranded>>

GetPolicy(c) ==
    /\ pc[c] = "policy"
    /\ Goto(c, IF "policy" \in objs[user[c]] THEN "claim" ELSE "createPolicy")
    /\ UNCHANGED <<world, storage, cache, counters, history>>

\* Fault: the policy is left for later.
CreatePolicyLater(c) ==
    /\ pc[c] = "createPolicy"
    /\ Goto(c, "claim")
    /\ UNCHANGED <<world, storage, cache, counters, history>>

\* A namespace that is gone or terminating takes no new objects.
CreatePolicy(c) ==
    LET u == user[c] IN
    /\ pc[c] = "createPolicy"
    /\ IF ns[u] # "active" \/ "policy" \in objs[u]
         THEN Return(c, "failed") /\ UNCHANGED objs
         ELSE Goto(c, "claim") /\ objs' = [objs EXCEPT ![u] = @ \cup {"policy"}]
    /\ UNCHANGED <<ns, pods, storage, cache, counters, history>>

-----------------------------------------------------------------------------
(* CreatePVC                                                               *)

\* There is nothing to do if the claim is there, bound or not.
GetClaim(c) ==
    /\ pc[c] = "claim"
    /\ Goto(c, IF "claim" \in objs[user[c]] THEN "account" ELSE "volume")
    /\ UNCHANGED <<world, storage, cache, counters, history>>

\* Fault: a volume that an older claim has released is not made available.
GetVolumeOnly(c) ==
    /\ pc[c] = "volume"
    /\ Goto(c, IF volume[user[c]] = "none" THEN "seed" ELSE "createClaim")
    /\ UNCHANGED <<world, storage, cache, counters, history>>

\* getPersistentVolume: a user without a volume gets one, and a volume that an
\* older claim has released is made available.
GetVolume(c) ==
    /\ pc[c] = "volume"
    /\ Goto(c, CASE volume[user[c]] = "none" -> "seed"
                 [] volume[user[c]] = "Released" -> "release"
                 [] OTHER -> "createClaim")
    /\ UNCHANGED <<world, storage, cache, counters, history>>

\* makeAvailable leaves a volume alone that is bound by now.
Release(c) ==
    LET u == user[c] IN
    /\ pc[c] = "release"
    /\ volume' = IF volume[u] = "Released" THEN [volume EXCEPT ![u] = "Available"]
                                            ELSE volume
    /\ Goto(c, "createClaim")
    /\ UNCHANGED <<world, bound, cache, counters, history>>

\* createPersistentVolume ends, with a volume or an error.  It waits twice for
\* what Kubernetes does to its seed claim, without a timeout.
SeedVolume(c) ==
    LET u == user[c] IN
    /\ pc[c] = "seed"
    /\ \/ /\ volume' = IF volume[u] = "none" THEN [volume EXCEPT ![u] = "Available"]
                                             ELSE volume
          /\ Goto(c, "createClaim")
       \/ Return(c, "failed") /\ UNCHANGED volume
    /\ UNCHANGED <<world, bound, cache, counters, history>>

\* Create the claim, or find it there.
CreateClaim(c) ==
    LET u == user[c] IN
    /\ pc[c] = "createClaim"
    /\ IF ns[u] # "active"
         THEN Return(c, "failed") /\ UNCHANGED <<objs, stranded>>
         ELSE /\ Goto(c, "bound")
              /\ objs' = [objs EXCEPT ![u] = @ \cup {"claim"}]
              /\ stranded' = IF "claim" \notin objs[u] /\ (c \in unaware \/ volume[u] = "Bound")
                               THEN stranded \cup {u} ELSE stranded
    /\ UNCHANGED <<ns, pods, storage, cache, counters,
                   blind, excused, reserved, skipped, outlived>>

\* The claim is waited for, without a timeout.
ClaimBound(c) ==
    /\ pc[c] = "bound"
    /\ "claim" \in objs[user[c]] /\ user[c] \in bound
    /\ Goto(c, "account")
    /\ UNCHANGED <<world, storage, cache, counters, history>>

-----------------------------------------------------------------------------
\* The namespace's default service account is waited for.
AccountThere(c) ==
    /\ pc[c] = "account"
    /\ "account" \in objs[user[c]]
    /\ IF op[c] = "GetBuildkit"
         THEN GotoPod(c, "deploy", "buildkitd")
         ELSE Goto(c, "list")
    /\ UNCHANGED <<world, storage, cache, counters, history>>

-----------------------------------------------------------------------------
(* Pods                                                                    *)

\* Without customer pods in the lister CreateSandbox makes a reservation.
ListPods(c) ==
    LET u == user[c] IN
    /\ pc[c] = "list"
    /\ GotoPod(c, "deploy", IF u \in podsListed THEN "syncthing" ELSE "reservation")
    /\ skipped' = IF u \in podsListed /\ u \notin reserved
                    THEN skipped \cup {u} ELSE skipped
    /\ UNCHANGED <<world, storage, cache, counters, blind, excused, reserved, outlived, stranded>>

\* The spec c has for a pod.
Wanted(c, p) == IF p \in {"dns", "buildkitd"} THEN Fixed ELSE spec[c]

\* What follows the deployment of a pod.
AfterPod(c, p) ==
    CASE p = "reservation" -> GotoPod(c, "await", "reservation")
      [] p = "syncthing" -> GotoPod(c, "deploy", "buildkitd")
      [] p = "buildkitd" /\ op[c] = "CreateSandbox" -> GotoPod(c, "deploy", "dns")
      [] p = "buildkitd" /\ op[c] = "GetBuildkit" -> GotoPod(c, "await", "buildkitd")
      [] p = "dns" -> GotoPod(c, "await", "dns")
      [] p = "customer" -> Goto(c, "drop")

\* DeployPod: get the pod; if it was made from another spec, delete it.
DeployPod(c) ==
    LET u == user[c] IN LET p == cur[c] IN
    /\ pc[c] = "deploy"
    /\ IF pods[u][p] # NoPod /\ pods[u][p].spec = Wanted(c, p)
         THEN AfterPod(c, p) /\ UNCHANGED pods
         ELSE Goto(c, "create") /\ pods' = [pods EXCEPT ![u][p] = NoPod]
    /\ UNCHANGED <<ns, objs, storage, cache, counters, history>>

\* Kubernetes refuses pods in a namespace that is not active or has no default
\* service account, and pods with the name of another.
CreatePod(c) ==
    LET u == user[c] IN LET p == cur[c] IN
    /\ pc[c] = "create"
    /\ IF ns[u] # "active" \/ pods[u][p] # NoPod \/ "account" \notin objs[u]
         THEN Return(c, "failed") /\ UNCHANGED pods
         ELSE /\ pods' = [pods EXCEPT ![u][p] = [spec |-> Wanted(c, p),
                                                 scheduled |-> FALSE, ready |-> FALSE]]
              /\ AfterPod(c, p)
    /\ UNCHANGED <<ns, objs, storage, cache, counters, history>>

\* The condition of a call to getPod.
PodCondition(c, pod) ==
    IF op[c] = "CreateSandbox" /\ cur[c] # "buildkitd" THEN pod.scheduled ELSE pod.ready

\* Fault: getPod returns the pod whatever its state.
PodFoundAnyhow(c) ==
    LET p == cur[c] IN
    /\ pc[c] = "await"
    /\ pods[user[c]][p] # NoPod
    /\ CASE p = "reservation" -> GotoPod(c, "deploy", "syncthing")
         [] p = "dns" /\ op[c] = "CreateSandbox" -> GotoPod(c, "await", "buildkitd")
         [] p = "dns" /\ op[c] = "DeployToSandbox" -> GotoPod(c, "currPods", "customer")
         [] p = "buildkitd" -> Return(c, "done")
    /\ UNCHANGED <<world, storage, cache, counters, history>>

\* getPod returns.
PodFound(c) ==
    LET p == cur[c] IN
    /\ pc[c] = "await"
    /\ pods[user[c]][p] # NoPod
    /\ PodCondition(c, pods[user[c]][p])
    /\ CASE p = "reservation" -> GotoPod(c, "deploy", "syncthing")
         [] p = "dns" /\ op[c] = "CreateSandbox" -> GotoPod(c, "await", "buildkitd")
         [] p = "dns" /\ op[c] = "DeployToSandbox" -> GotoPod(c, "currPods", "customer")
         [] p = "buildkitd" -> Return(c, "done")
    /\ UNCHANGED <<world, storage, cache, counters, history>>

\* getPod, and the wait for the service account, give up after three minutes.
TimesOut(c) ==
    /\ pc[c] \in {"await", "account"}
    /\ Return(c, "failed")
    /\ UNCHANGED <<world, storage, cache, counters, history>>

\* deployCustomerPods lists the customer pods, ...
ListCurrPods(c) ==
    /\ pc[c] = "currPods"
    /\ pc' = [pc EXCEPT ![c] = "deploy"]
    /\ currPods' = IF pods[user[c]]["reservation"] # NoPod THEN currPods \cup {c} ELSE currPods
    /\ UNCHANGED <<world, storage, cache, op, user, spec, cur, unaware, counters, history>>

\* ... deploys its own, and deletes those of the list that are stale: the
\* reservation.  It fails if that is gone by now.
DropReservation(c) ==
    LET u == user[c] IN
    /\ pc[c] = "drop"
    /\ Return(c, IF c \in currPods /\ pods[u]["reservation"] = NoPod THEN "failed" ELSE "done")
    /\ pods' = IF c \in currPods THEN [pods EXCEPT ![u]["reservation"] = NoPod] ELSE pods
    /\ UNCHANGED <<ns, objs, storage, cache, counters, history>>

-----------------------------------------------------------------------------
(* DeleteSandbox                                                           *)

DeletePods(c) ==
    /\ pc[c] = "pods"
    /\ pods' = [pods EXCEPT ![user[c]] = NoPods]
    /\ Goto(c, "delete")
    /\ UNCHANGED <<ns, objs, storage, cache, counters, history>>

DeleteNamespace(c) ==
    LET u == user[c] IN
    /\ pc[c] = "delete"
    /\ IF ns[u] = "active"
         THEN ns' = [ns EXCEPT ![u] = "terminating"] /\ Return(c, "done")
         ELSE Return(c, "failed") /\ UNCHANGED ns
    /\ UNCHANGED <<objs, pods, storage, cache, counters, history>>

-----------------------------------------------------------------------------
\* A request fails, or the cluster controller crashes.
Abort(c) ==
    /\ deletes + faults < MaxUpsets
    /\ Active(c)
    /\ faults' = faults + 1
    /\ Return(c, "failed")
    /\ blind' = blind \ {c}
    /\ UNCHANGED <<world, storage, cache, made, deletes,
                   excused, reserved, skipped, outlived, stranded>>

(* Kubernetes                                                              *)

\* The informers hear of a change.
CacheNamespace(u) ==
    /\ (u \in listed) # (ns[u] # "none")
    /\ listed' = (listed \ {u}) \cup (Sandboxes \cap {u})
    /\ UNCHANGED <<world, storage, podsListed, pc, cur, locals, counters, history>>

HasCustomerPods(u) == \E p \in CustomerPods : pods[u][p] # NoPod

CachePods(u) ==
    /\ (u \in podsListed) # HasCustomerPods(u)
    /\ podsListed' = IF HasCustomerPods(u) THEN podsListed \cup {u} ELSE podsListed \ {u}
    /\ UNCHANGED <<world, storage, listed, pc, cur, locals, counters, history>>

CreateAccount(u) ==
    /\ ns[u] = "active" /\ "account" \notin objs[u]
    /\ objs' = [objs EXCEPT ![u] = @ \cup {"account"}]
    /\ UNCHANGED <<ns, pods, storage, cache, pc, cur, locals, counters, history>>

\* The volume controller binds a claim to the volume it names, ...
BindClaim(u) ==
    /\ "claim" \in objs[u] /\ u \notin bound
    /\ volume[u] = "Available"
    /\ volume' = [volume EXCEPT ![u] = "Bound"]
    /\ bound' = bound \cup {u}
    /\ UNCHANGED <<world, cache, pc, cur, locals, counters, history>>

\* ... unless another user's seed claim was bound to it first: that user's call
\* gives it back when it gets there.
BindSeed(u) ==
    /\ volume[u] = "Available"
    /\ \E c \in Calls : pc[c] = "seed" /\ user[c] # u
    /\ volume' = [volume EXCEPT ![u] = "Seeded"]
    /\ UNCHANGED <<world, bound, cache, pc, cur, locals, counters, history>>

GiveBack(u) ==
    /\ volume[u] = "Seeded"
    /\ volume' = [volume EXCEPT ![u] = "Available"]
    /\ UNCHANGED <<world, bound, cache, pc, cur, locals, counters, history>>

\* The claim that had the volume is gone.
ReleaseVolume(u) ==
    /\ volume[u] = "Bound" /\ u \notin bound
    /\ volume' = [volume EXCEPT ![u] = "Released"]
    /\ unaware' = unaware \cup {c \in Calls : user[c] = u /\ pc[c] = "createClaim"}
    /\ UNCHANGED <<world, bound, cache, pc, cur, op, user, spec, currPods, counters, history>>

\* Pods are scheduled if there is room, and become ready.  Of buildkitd it is only
\* asked whether it is ready, of syncthing neither.
Schedule(u, p) ==
    /\ p \notin {"buildkitd", "syncthing"}
    /\ pods[u][p] # NoPod /\ ~pods[u][p].scheduled
    /\ pods' = [pods EXCEPT ![u][p].scheduled = TRUE]
    /\ reserved' = IF p \in CustomerPods THEN reserved \cup {u} ELSE reserved
    /\ UNCHANGED <<ns, objs, storage, cache, pc, cur, locals, counters,
                   blind, excused, skipped, outlived, stranded>>

PodReady(u, p) ==
    /\ p \in {"dns", "buildkitd"}
    /\ pods[u][p] # NoPod /\ ~pods[u][p].ready
    /\ p = "dns" => pods[u][p].scheduled
    /\ pods' = [pods EXCEPT ![u][p].ready = TRUE]
    /\ UNCHANGED <<ns, objs, storage, cache, pc, cur, locals, counters, history>>

\* A call works in the namespace that it has found or made.
AtWork(c) ==
    /\ op[c] \in {"CreateSandbox", "DeployToSandbox"}
    /\ Active(c) /\ pc[c] \notin {"check", "get", "namespace"}

\* A namespace that terminates goes, and everything in it.
NamespaceGone(u) ==
    /\ ns[u] = "terminating"
    /\ ns' = [ns EXCEPT ![u] = "none"]
    /\ objs' = [objs EXCEPT ![u] = {}]
    /\ pods' = [pods EXCEPT ![u] = NoPods]
    /\ excused' = excused \ {u}
    /\ reserved' = reserved \ {u}
    /\ skipped' = skipped \ {u}
    /\ bound' = bound \ {u}
    /\ stranded' = stranded \ {u}
    /\ outlived' = IF \E c \in Calls : user[c] = u /\ AtWork(c)
                     THEN outlived \cup {u} ELSE outlived \ {u}
    /\ UNCHANGED <<volume, cache, pc, cur, locals, counters, blind>>

CallStep(c) ==
    \/ CheckCap(c) \/ Find(c) \/ GetNamespace(c) \/ CreateNamespace(c)
    \/ GetPolicy(c) \/ CreatePolicy(c)
    \/ GetClaim(c) \/ GetVolume(c) \/ Release(c) \/ CreateClaim(c) \/ ClaimBound(c)
    \/ AccountThere(c) \/ ListPods(c) \/ DeployPod(c) \/ CreatePod(c)
    \/ PodFound(c) \/ ListCurrPods(c) \/ DropReservation(c)
    \/ DeletePods(c) \/ DeleteNamespace(c)

Next ==
    \/ \E c \in Calls : \/ CallStep(c) \/ SeedVolume(c) \/ TimesOut(c) \/ Abort(c)
                        \/ \E u \in Users, o \in Ops, s \in Specs : Begin(c, u, o, s)
    \/ \E u \in Users : \/ CacheNamespace(u) \/ CachePods(u)
                        \/ CreateAccount(u) \/ NamespaceGone(u)
                        \/ BindClaim(u) \/ BindSeed(u) \/ GiveBack(u) \/ ReleaseVolume(u)
                        \/ \E p \in PodNames : Schedule(u, p) \/ PodReady(u, p)

Spec == Init /\ [][Next]_vars

\* Requests are answered and timers run out, and the volume controller works.
\* Nothing says that a pod is ever scheduled, that storage is found for a seed
\* claim, or that another user's call gives a volume back.
Fairness ==
    /\ \A c \in Calls : WF_vars(CallStep(c) \/ TimesOut(c))
    /\ WF_vars(\E u \in Users : BindClaim(u) \/ ReleaseVolume(u))

FairSpec == Spec /\ Fairness

-----------------------------------------------------------------------------
(* Properties                                                              *)

\* CreateSandbox keeps the number of sandboxes at s.maxSandboxes, not counting
\* those that GetBuildkit made and those whose check could not see every sandbox.
CapUnlessBlind == Cardinality(Sandboxes \ excused) <= MaxSandboxes

\* createNamespace is over before a pod of the sandbox exists: the network policy
\* and the volume claim are there.  (buildkitd is not behind the policy if
\* GetBuildkit finds a namespace that CreateSandbox is just making.)
IsolatedBeforePods ==
    \A u \in Users \ outlived, p \in Colocated :
        pods[u][p] # NoPod => Objects \subseteq objs[u]

\* The reservation comes first unless CreateSandbox saw an unscheduled
\* reservation, or pods that are gone, in the lister.
ReservationFirstUnlessSkipped ==
    \A u \in Users \ outlived : pods[u]["syncthing"] # NoPod \/ pods[u]["dns"] # NoPod =>
        u \in reserved \cup skipped

\* The order in which a sandbox is made, whatever calls are made at the same time,
\* unless one of them outlives `blimp down` and goes on in the next namespace.
MadeInOrder == IsolatedBeforePods /\ ReservationFirstUnlessSkipped

\* A CreateSandbox that returns without error leaves a sandbox that `blimp up` can
\* build and deploy in: the node is known and buildkitd is ready, as long as nobody
\* runs `blimp down`.
SuccessMeansUsable ==
    deletes = 0 => \A c \in Calls : pc[c] = "done" /\ op[c] = "CreateSandbox" =>
        LET ps == pods[user[c]] IN
        /\ ps["dns"] # NoPod /\ ps["dns"].scheduled
        /\ ps["buildkitd"] # NoPod /\ ps["buildkitd"].ready

\* The waits of CreatePVC that nothing may end: for a seed claim, for a claim that
\* is gone with its namespace, for a volume that another user's seed claim has, and
\* for one that an older claim still had when CreatePVC looked or that was let go
\* behind its back.
Hangs(c) ==
    LET u == user[c] IN
    \/ pc[c] = "seed"
    \/ /\ pc[c] = "bound"
       /\ \/ "claim" \notin objs[u]
          \/ u \notin bound /\ (volume[u] = "Seeded" \/ u \in stranded)

\* Every call returns, even if no pod is ever scheduled, or comes to one of those
\* waits: a volume that is Released when CreatePVC looks at it is always got back,
\* whichever calls of its user and others make claims and delete namespaces
\* meanwhile.
CallsReturn == \A c \in Calls : []<>(~Active(c) \/ Hangs(c))

=============================================================================
